--------------------------- MODULE TcpServerProofs ---------------------------
(* What TLAPS proves of TcpServer for any number of clients and any limit.  *)
EXTENDS TcpServer, TLAPS, FiniteSetTheorems

(***************************************************************************)
(* The inductive invariant.                                                *)
(***************************************************************************)

\* The slots in use are within the limit.
SlotsBounded == sem <= MaxConnections

\* The loop holds a connection exactly while it deals with it, and no other
\* goroutine knows it yet.
Holding ==
    /\ taken # None <=> loop \in {"admit", "track", "add"}
    /\ taken # None => session[taken] = "none"
    /\ taken # None /\ loop # "add" => taken \notin conns

\* A connection has one life: dialled, accepted, served, cleaned up.
OneLife ==
    /\ \A c \in Conns : peer[c] \in {"absent", "backlog"} => session[c] = "none" /\ c # taken
    /\ sock \cup conns \subseteq Counted \cup {taken}
    /\ \A c \in Conns : session[c] = "closed" => c \notin sock \cup conns

\* What Close found tracked is closed for good, what it found running was
\* served, and both are finished once Close has returned.
FoundServed ==
    /\ \A c \in found.tracked : peer[c] \notin {"absent", "backlog"} /\ c \notin sock
    /\ \A c \in found.running : session[c] # "none"
    /\ \E c \in Conns \cup {None} : found.tracked \subseteq found.running \cup {c}
    /\ FoundAreFinished

Inv == TypeOK /\ SlotsBounded /\ Holding /\ OneLife /\ FoundServed

\* A step that opens none of them and revives no goroutine leaves what Close found.
LEMMA FoundStays ==
  ASSUME Inv, UNCHANGED found, sock' \cap found.tracked \subseteq sock,
         \A c \in Conns : peer'[c] \in {"absent", "backlog"} => peer[c] \in {"absent", "backlog"},
         \A c \in Conns : session[c] # "none" => session'[c] # "none",
         \A c \in Conns : session[c] = "done" => session'[c] = "done",
         closer' = "returned" => closer = "returned"
  PROVE  FoundServed'
<1>1. found.tracked \subseteq Conns /\ found.running \subseteq Conns
  BY DEF Inv, TypeOK
<1>2. \A c \in found'.tracked : peer'[c] \notin {"absent", "backlog"} /\ c \notin sock'
  BY <1>1 DEF Inv, FoundServed
<1>3. \A c \in found'.running : session'[c] # "none"
  BY <1>1 DEF Inv, FoundServed
<1>4. \E c \in Conns \cup {None} : found'.tracked \subseteq found'.running \cup {c}
  BY DEF Inv, FoundServed
<1>5. found'.tracked \cap sock' = {}
  BY <1>2
<1>6. FoundAreFinished'
  BY <1>1, <1>4, <1>5 DEF Inv, FoundServed, FoundAreFinished
<1> QED
  BY <1>2, <1>3, <1>4, <1>6 DEF FoundServed

LEMMA FiniteGroups ==
  ASSUME NEW S \in SUBSET Conns
  PROVE  IsFiniteSet(S) /\ Cardinality(S) \in Nat
BY ConstantsOK, FS_Subset, FS_CardinalityType

LEMMA InitInv == Init => Inv
<1> SUFFICES ASSUME Init PROVE Inv
  OBVIOUS
<1>1. Counted = {} /\ Served = {}
  BY DEF Init, Counted, Served
<1>2. Cardinality(Counted) = 0 /\ Cardinality(Served) = 0
  BY <1>1, FS_EmptySet
<1>3. TypeOK
  BY <1>2 DEF Init, TypeOK
<1>4. SlotsBounded /\ Holding
  BY ConstantsOK DEF Init, SlotsBounded, Holding
<1>5. OneLife /\ FoundServed
  BY ConstantsOK, <1>1 DEF Init, OneLife, FoundServed, FoundAreFinished
<1>6. QED
  BY <1>3, <1>4, <1>5 DEF Inv

(***************************************************************************)
(* The groups of goroutines under a step of one of them.                   *)
(***************************************************************************)

\* A connection goroutine is started.
LEMMA GroupsGrow ==
  ASSUME Inv, AddAndGo
  PROVE  /\ Served' = Served \cup {taken} /\ Counted' = Counted \cup {taken}
         /\ Cardinality(Served') = Cardinality(Served) + 1
         /\ Cardinality(Counted') = Cardinality(Counted) + 1
<1>1. taken \in Conns /\ session[taken] = "none" /\ session' = [session EXCEPT ![taken] = "serve"]
  BY DEF AddAndGo, Inv, Holding, TypeOK
<1>2. Served' = Served \cup {taken} /\ Counted' = Counted \cup {taken}
  BY <1>1 DEF Served, Counted, Inv, TypeOK
<1>3. taken \notin Served /\ taken \notin Counted
  BY <1>1 DEF Served, Counted
<1>4. IsFiniteSet(Served) /\ IsFiniteSet(Counted)
  BY FiniteGroups DEF Served, Counted
<1>5. QED
  BY <1>2, <1>3, <1>4, FS_AddElement

\* A connection goroutine returns from serveConn, or closes its connection.
LEMMA GroupsStay ==
  ASSUME Inv, NEW c \in Conns, ServeEnds(c) \/ Untrack(c)
  PROVE  Served' = Served /\ Counted' = Counted
BY DEF Served, Counted, ServeEnds, Untrack, Inv, TypeOK

LEMMA SlotIsFreed ==
  ASSUME Inv, NEW c \in Conns, FreeSlot(c)
  PROVE  /\ Served' = Served \ {c} /\ Counted' = Counted
         /\ Cardinality(Served') = Cardinality(Served) - 1
<1>1. Served' = Served \ {c} /\ Counted' = Counted /\ c \in Served
  BY DEF Served, Counted, FreeSlot, Inv, TypeOK
<1>2. IsFiniteSet(Served)
  BY FiniteGroups DEF Served
<1>3. QED
  BY <1>1, <1>2, FS_RemoveElement

LEMMA GoroutineIsDone ==
  ASSUME Inv, NEW c \in Conns, Done(c)
  PROVE  /\ Served' = Served /\ Counted' = Counted \ {c}
         /\ Cardinality(Counted') = Cardinality(Counted) - 1
<1>1. Served' = Served /\ Counted' = Counted \ {c} /\ c \in Counted
  BY DEF Served, Counted, Done, Inv, TypeOK
<1>2. IsFiniteSet(Counted)
  BY FiniteGroups DEF Counted
<1>3. QED
  BY <1>1, <1>2, FS_RemoveElement

\* Once the counter is down to zero no goroutine is left.
LEMMA NobodyWaitedFor ==
  ASSUME Inv, waiting = 0
  PROVE  Counted = {}
<1>1. IsFiniteSet(Counted) /\ Cardinality(Counted) = 0
  BY FiniteGroups DEF Counted, Inv, TypeOK
<1>2. QED
  BY <1>1, FS_EmptySet

(***************************************************************************)
(* The steps.                                                              *)
(***************************************************************************)

\* Steps that start or end no goroutine.
LEMMA QuietInv ==
  ASSUME Inv,
         \/ Begin \/ AcceptFails \/ CloseBegins \/ UNCHANGED vars
         \/ \E c \in Conns : Dial(c) \/ HangUp(c)
  PROVE  Inv'
<1>1. /\ UNCHANGED <<taken, sock, sem, conns, waiting, session, found>>
      /\ Served' = Served /\ Counted' = Counted
  BY DEF Begin, AcceptFails, CloseBegins, Dial, HangUp, vars, Served, Counted
<1>2. /\ listener' \in {"unset", "open", "closed"}
      /\ \/ {loop, loop'} \subseteq {"start", "accept", "ended"}
         \/ loop' = loop
      /\ closer' \in {"none", "sweep", "wait", "returned"}
      /\ closer' = "returned" => closer = "returned"
  BY DEF Begin, AcceptFails, CloseBegins, Dial, HangUp, vars, Inv, TypeOK
<1>3. /\ peer' \in [Conns -> {"absent", "backlog", "connected", "gone"}]
      /\ \A c \in Conns : peer'[c] \in {"absent", "backlog"} => peer[c] \in {"absent", "backlog"}
  BY DEF Begin, AcceptFails, CloseBegins, Dial, HangUp, vars, Inv, TypeOK
<1>4. TypeOK'
  BY <1>1, <1>2, <1>3 DEF Inv, TypeOK
<1>5. SlotsBounded' /\ Holding'
  BY <1>1, <1>2 DEF Inv, SlotsBounded, Holding
<1>6. OneLife'
  BY <1>1, <1>3 DEF Inv, OneLife
<1>7. FoundServed'
  BY <1>1, <1>2, <1>3, FoundStays
<1>8. QED
  BY <1>4, <1>5, <1>6, <1>7 DEF Inv

LEMMA LoopInv ==
  ASSUME Inv, Accept \/ Admit \/ Track
  PROVE  Inv'
<1> USE DEF Inv, TypeOK
<1>1. /\ UNCHANGED <<listener, waiting, session, closer, found>>
      /\ Served' = Served /\ Counted' = Counted /\ Cardinality(Served) \in Nat
  <2>1. Served \in SUBSET Conns
    BY DEF Served
  <2>2. QED
    BY <2>1, FiniteGroups DEF Accept, Admit, Track, Served, Counted
<1>2. FoundServed'
  <2>1. \A c \in Conns : peer'[c] \in {"absent", "backlog"} => peer[c] \in {"absent", "backlog"}
    BY DEF Accept, Admit, Track
  <2>2. sock' \cap found.tracked \subseteq sock
    BY DEF Accept, Admit, Track, FoundServed
  <2>3. QED
    BY <1>1, <2>1, <2>2, FoundStays
<1>3. CASE Accept
  <2>1. PICK c \in Conns : /\ peer[c] = "backlog" /\ peer' = [peer EXCEPT ![c] = "connected"]
                           /\ taken' = c /\ sock' = sock \cup {c}
    BY <1>3 DEF Accept
  <2>2. loop = "accept" /\ loop' = "admit" /\ UNCHANGED <<sem, conns>>
    BY <1>3 DEF Accept
  <2>3. taken = None /\ c # None
    BY <2>2, ConstantsOK DEF Holding
  <2>4. session[c] = "none" /\ c \notin Counted
    BY <2>1 DEF OneLife, Counted
  <2>5. c \notin conns
    BY <2>3, <2>4 DEF OneLife
  <2>6. TypeOK'
    BY <1>1, <2>1, <2>2
  <2>7. SlotsBounded' /\ Holding'
    BY <1>1, <2>1, <2>2, <2>3, <2>4, <2>5 DEF SlotsBounded, Holding
  <2>8. OneLife'
    <3>1. sock' \cup conns' \subseteq Counted' \cup {taken'}
      BY <1>1, <2>1, <2>2, <2>3, ConstantsOK DEF OneLife
    <3>2. QED
      BY <1>1, <2>1, <2>2, <2>4, <3>1 DEF OneLife
  <2>9. QED
    BY <1>2, <2>6, <2>7, <2>8
<1>4. CASE Admit
  <2>1. UNCHANGED <<peer, conns>> /\ loop = "admit" /\ taken # None /\ taken \notin conns
    BY <1>4 DEF Admit, Holding
  <2>2. CASE HasSlot /\ sem' = sem + 1 /\ loop' = "track" /\ UNCHANGED <<taken, sock>>
    <3>1. TypeOK'
      BY <1>1, <2>1, <2>2
    <3>2. SlotsBounded' /\ Holding'
      BY <1>1, <2>1, <2>2, ConstantsOK DEF HasSlot, SlotsBounded, Holding
    <3>3. OneLife'
      BY <1>1, <2>1, <2>2 DEF OneLife
    <3>4. QED
      BY <1>2, <3>1, <3>2, <3>3
  <2>3. CASE sock' = sock \ {taken} /\ taken' = None /\ loop' = "accept" /\ UNCHANGED sem
    <3>1. TypeOK'
      BY <1>1, <2>1, <2>3
    <3>2. SlotsBounded' /\ Holding'
      BY <1>1, <2>1, <2>3 DEF SlotsBounded, Holding
    <3>3. OneLife'
      BY <1>1, <2>1, <2>3, ConstantsOK DEF OneLife
    <3>4. QED
      BY <1>2, <3>1, <3>2, <3>3
  <2>4. QED
    BY <1>4, <2>2, <2>3 DEF Admit
<1>5. CASE Track
  <2>1. /\ loop = "track" /\ loop' = "add" /\ conns' = conns \cup {taken}
        /\ UNCHANGED <<taken, peer, sock, sem>> /\ taken # None
    BY <1>5 DEF Track, Holding
  <2>2. TypeOK'
    BY <1>1, <2>1
  <2>3. SlotsBounded' /\ Holding'
    BY <1>1, <2>1 DEF SlotsBounded, Holding
  <2>4. OneLife'
    BY <1>1, <2>1 DEF OneLife, Holding
  <2>5. QED
    BY <1>2, <2>2, <2>3, <2>4
<1>6. QED
  BY <1>3, <1>4, <1>5

LEMMA AddAndGoInv ==
  ASSUME Inv, AddAndGo
  PROVE  Inv'
<1> USE DEF Inv, TypeOK
<1>1. /\ loop = "add" /\ loop' = "accept" /\ taken \in Conns /\ taken' = None
      /\ waiting' = waiting + 1 /\ session' = [session EXCEPT ![taken] = "serve"]
      /\ UNCHANGED <<listener, peer, sock, sem, conns, closer, found>>
      /\ session[taken] = "none"
  BY DEF AddAndGo, Holding
<1>2. Cardinality(Served) \in Nat /\ Cardinality(Counted) \in Nat
  BY FiniteGroups DEF Served, Counted
<1>3. TypeOK'
  BY <1>1, <1>2, GroupsGrow
<1>4. SlotsBounded' /\ Holding'
  BY <1>1 DEF SlotsBounded, Holding
<1>5. OneLife'
  BY <1>1, GroupsGrow, ConstantsOK DEF OneLife
<1>6. FoundServed'
  BY <1>1, FoundStays
<1>7. QED
  BY <1>3, <1>4, <1>5, <1>6

LEMMA GoroutineInv ==
  ASSUME Inv, NEW c \in Conns, ServeEnds(c) \/ Cleanup(c)
  PROVE  Inv'
<1> USE DEF Inv, TypeOK
<1>1. /\ UNCHANGED <<listener, loop, taken, peer, closer, found>>
      /\ session[c] # "none" /\ session'[c] \notin {"none", "serve"} /\ session[c] # "done"
      /\ session' \in [Conns -> {"none", "serve", "end", "freed", "closed", "done"}]
      /\ \A b \in Conns : b # c => session'[b] = session[b]
  BY DEF ServeEnds, Cleanup, FreeSlot, Untrack, Done
<1>2. Cardinality(Served) \in Nat /\ Cardinality(Counted) \in Nat
  BY FiniteGroups DEF Served, Counted
<1>3. c # taken
  BY <1>1, ConstantsOK DEF Holding
<1>4. FoundServed'
  <2>1. sock' \subseteq sock
    BY DEF ServeEnds, Cleanup, FreeSlot, Untrack, Done
  <2>2. QED
    BY <1>1, <2>1, FoundStays
<1>5. CASE ServeEnds(c)
  <2>1. UNCHANGED <<sock, sem, conns, waiting>> /\ session'[c] = "end"
    BY <1>5 DEF ServeEnds
  <2>2. TypeOK'
    BY <1>1, <1>5, <2>1, GroupsStay
  <2>3. SlotsBounded' /\ Holding' /\ OneLife'
    BY <1>1, <1>3, <1>5, <2>1, GroupsStay DEF SlotsBounded, Holding, OneLife
  <2>4. QED
    BY <1>4, <2>2, <2>3
<1>6. CASE FreeSlot(c)
  <2>1. UNCHANGED <<sock, conns, waiting>> /\ sem' = sem - 1 /\ session'[c] = "freed"
    BY <1>6 DEF FreeSlot
  <2>2. TypeOK'
    BY <1>1, <1>2, <1>6, <2>1, SlotIsFreed
  <2>3. SlotsBounded'
    BY <1>2, <2>1, ConstantsOK DEF SlotsBounded
  <2>4. Holding' /\ OneLife'
    BY <1>1, <1>3, <1>6, <2>1, SlotIsFreed DEF Holding, OneLife
  <2>5. QED
    BY <1>4, <2>2, <2>3, <2>4
<1>7. CASE Untrack(c)
  <2>1. /\ UNCHANGED <<sem, waiting>> /\ sock' = sock \ {c} /\ conns' = conns \ {c}
        /\ session'[c] = "closed"
    BY <1>7 DEF Untrack
  <2>2. TypeOK'
    BY <1>1, <1>7, <2>1, GroupsStay
  <2>3. SlotsBounded' /\ Holding' /\ OneLife'
    BY <1>1, <1>3, <1>7, <2>1, GroupsStay DEF SlotsBounded, Holding, OneLife
  <2>4. QED
    BY <1>4, <2>2, <2>3
<1>8. CASE Done(c)
  <2>1. /\ UNCHANGED <<sem, sock, conns>> /\ waiting' = waiting - 1
        /\ session[c] = "closed" /\ session'[c] = "done"
    BY <1>8 DEF Done
  <2>2. TypeOK'
    BY <1>1, <1>2, <1>8, <2>1, GoroutineIsDone
  <2>3. SlotsBounded' /\ Holding' /\ OneLife'
    BY <1>1, <1>3, <1>8, <2>1, GoroutineIsDone DEF SlotsBounded, Holding, OneLife
  <2>4. QED
    BY <1>4, <2>2, <2>3
<1>9. QED
  BY <1>5, <1>6, <1>7, <1>8 DEF Cleanup

LEMMA CloseInv ==
  ASSUME Inv, Sweep \/ Wait
  PROVE  Inv'
<1> USE DEF Inv, TypeOK
<1>1. /\ UNCHANGED <<loop, taken, peer, sem, conns, waiting, session>>
      /\ Served' = Served /\ Counted' = Counted /\ Counted \subseteq Conns
  BY DEF Sweep, Wait, Served, Counted
<1>2. CASE Sweep
  <2>1. /\ listener' \in {"unset", "open", "closed"} /\ sock' = sock \ conns
        /\ found' = [tracked |-> conns, running |-> Counted] /\ closer' = "wait"
    BY <1>2 DEF Sweep
  <2>2. \A c \in Counted : session[c] # "none"
    BY DEF Counted
  <2>3. conns \subseteq Counted \cup {taken} /\ conns \subseteq Conns /\ taken \in Conns \cup {None}
    BY DEF OneLife
  <2>4. \A c \in conns : peer[c] \notin {"absent", "backlog"}
    BY <2>2, <2>3 DEF OneLife
  <2>5. found'.tracked = conns /\ found'.running = Counted
    BY <2>1
  <2>6. FoundServed'
    BY <1>1, <2>1, <2>2, <2>3, <2>4, <2>5 DEF FoundServed, FoundAreFinished
  <2>7. TypeOK'
    BY <1>1, <2>1, <2>3
  <2>8. SlotsBounded' /\ Holding' /\ OneLife'
    BY <1>1, <2>1 DEF SlotsBounded, Holding, OneLife
  <2>9. QED
    BY <2>6, <2>7, <2>8
<1>3. CASE Wait
  <2>1. UNCHANGED <<listener, sock, found>> /\ closer' = "returned" /\ Counted = {}
    BY <1>3, NobodyWaitedFor DEF Wait
  <2>2. \A c \in found.running : session[c] = "done"
    BY <2>1 DEF Counted, FoundServed
  <2>3. FoundServed'
    BY <1>1, <2>1, <2>2 DEF FoundServed, FoundAreFinished
  <2>4. TypeOK'
    BY <1>1, <2>1
  <2>5. SlotsBounded' /\ Holding' /\ OneLife'
    BY <1>1, <2>1 DEF SlotsBounded, Holding, OneLife
  <2>6. QED
    BY <2>3, <2>4, <2>5
<1>4. QED
  BY <1>2, <1>3

LEMMA NextInv == Inv /\ [Next]_vars => Inv'
BY QuietInv, LoopInv, AddAndGoInv, GoroutineInv, CloseInv DEF Next, Loop

LEMMA Invariant == Spec => []Inv
BY InitInv, NextInv, PTL DEF Spec

\* The semaphore and the wait group count what they stand for: no slot is lost
\* or returned twice, for any number of clients and any limit.
THEOREM CountersAreExact == Spec => []TypeOK
<1>1. Inv => TypeOK
  BY DEF Inv
<1>2. QED
  BY <1>1, Invariant, PTL

\* The connection limit holds, and no connection is left without a goroutine.
THEOREM LimitHolds == Spec => []ConnectionsBounded
<1>1. Inv => ConnectionsBounded
  <2> SUFFICES ASSUME Inv PROVE ConnectionsBounded
    OBVIOUS
  <2>1. Cardinality(Served) \in Nat
    BY FiniteGroups DEF Served
  <2>2. Cardinality(Served) <= MaxConnections
    BY <2>1, ConstantsOK DEF Inv, TypeOK, SlotsBounded
  <2>3. QED
    BY <2>2 DEF Inv, OneLife, ConnectionsBounded
<1>2. QED
  BY <1>1, Invariant, PTL

\* When Close returns, what it found tracked is closed and what it found running
\* has ended; of what it found tracked one connection at most was not running.
THEOREM CloseWaits == Spec => []FoundAreFinished
<1>1. Inv => FoundAreFinished
  BY DEF Inv, FoundServed
<1>2. QED
  BY <1>1, Invariant, PTL
===============================================================================
