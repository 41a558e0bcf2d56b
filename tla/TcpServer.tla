------------------------------ MODULE TcpServer ------------------------------
(***************************************************************************)
(* The accept loop of extend/tcpserver, its connection limit, the set of   *)
(* tracked connections and Close.  What happens inside a connection is     *)
(* TcpSession; here a session lasts until its connection is closed or it   *)
(* ends by itself.                                                         *)
(***************************************************************************)
EXTENDS Naturals, FiniteSets

CONSTANTS
    Conns,              \* connections clients ever make
    MaxConnections      \* config.maxConnections

None == "none"

ASSUME ConstantsOK == IsFiniteSet(Conns) /\ None \notin Conns /\ MaxConnections \in Nat

VARIABLES
    listener,   \* Server.listener as Serve and Close see it: "unset", "open", "closed"
    loop,       \* Serve: "start", "accept", "admit", "track", "add", "ended"
    taken,      \* the connection the loop has accepted last, or None
    peer,       \* clients: "absent", "backlog", "connected", "gone"
    sock,       \* the server's ends that are open
    sem,        \* slots of the connection semaphore in use
    conns,      \* Server.conns
    waiting,    \* counter of Server.wg
    session,    \* connection goroutines: "none", "serve", "end", "freed", "closed", "done"
    closer,     \* Close: "none", "sweep", "wait", "returned"
    found       \* history: what Close swept, [tracked : connections, running : of their goroutines]

vars == <<listener, loop, taken, peer, sock, sem, conns, waiting, session, closer, found>>

Init ==
    /\ listener = "unset" /\ loop = "start" /\ taken = None
    /\ peer = [c \in Conns |-> "absent"] /\ sock = {}
    /\ sem = 0 /\ conns = {} /\ waiting = 0
    /\ session = [c \in Conns |-> "none"]
    /\ closer = "none" /\ found = [tracked |-> {}, running |-> {}]

-----------------------------------------------------------------------------
(* Clients.                                                                 *)

Dial(c) ==
    /\ peer[c] = "absent" /\ listener = "open"
    /\ peer' = [peer EXCEPT ![c] = "backlog"]
    /\ UNCHANGED <<listener, loop, taken, sock, sem, conns, waiting, session, closer, found>>

HangUp(c) ==
    /\ peer[c] = "connected"
    /\ peer' = [peer EXCEPT ![c] = "gone"]
    /\ UNCHANGED <<listener, loop, taken, sock, sem, conns, waiting, session, closer, found>>

-----------------------------------------------------------------------------
(* Serve.                                                                   *)

\* The listener was bound by Run; Close is not consulted.
Begin ==
    /\ loop = "start"
    /\ listener' = "open" /\ loop' = "accept"
    /\ UNCHANGED <<taken, peer, sock, sem, conns, waiting, session, closer, found>>

Accept ==
    /\ loop = "accept" /\ listener = "open"
    /\ \E c \in Conns :
          /\ peer[c] = "backlog"
          /\ peer' = [peer EXCEPT ![c] = "connected"]
          /\ taken' = c /\ sock' = sock \cup {c}
    /\ loop' = "admit"
    /\ UNCHANGED <<listener, sem, conns, waiting, session, closer, found>>

AcceptFails ==
    /\ loop = "accept" /\ listener = "closed"
    /\ loop' = "ended"
    /\ UNCHANGED <<listener, taken, peer, sock, sem, conns, waiting, session, closer, found>>

\* Fault: off by one at the limit.
HasSlotPlusOne == sem <= MaxConnections

HasSlot == sem < MaxConnections

\* A slot is taken, or the client is told 503 and its connection closed.
Admit ==
    /\ loop = "admit"
    /\ \/ /\ HasSlot
          /\ sem' = sem + 1 /\ loop' = "track"
          /\ UNCHANGED <<taken, sock>>
       \/ /\ ~HasSlot
          /\ sock' = sock \ {taken} /\ taken' = None /\ loop' = "accept"
          /\ UNCHANGED sem
    /\ UNCHANGED <<listener, peer, conns, waiting, session, closer, found>>

Track ==
    /\ loop = "track"
    /\ conns' = conns \cup {taken} /\ loop' = "add"
    /\ UNCHANGED <<listener, taken, peer, sock, sem, waiting, session, closer, found>>

AddAndGo ==
    /\ loop = "add"
    /\ waiting' = waiting + 1
    /\ session' = [session EXCEPT ![taken] = "serve"]
    /\ taken' = None /\ loop' = "accept"
    /\ UNCHANGED <<listener, peer, sock, sem, conns, closer, found>>

-----------------------------------------------------------------------------
(* A connection goroutine, and the functions it has deferred.               *)

\* serveConn returns: its connection was closed, its client is gone, or the
\* idle timeout passed.
ServeEnds(c) ==
    /\ session[c] = "serve"
    /\ session' = [session EXCEPT ![c] = "end"]
    /\ UNCHANGED <<listener, loop, taken, peer, sock, sem, conns, waiting, closer, found>>

\* Fault: the slot is not given back.
FreeSlotNot(c) ==
    /\ session[c] = "end"
    /\ session' = [session EXCEPT ![c] = "freed"]
    /\ UNCHANGED <<listener, loop, taken, peer, sock, sem, conns, waiting, closer, found>>

\* The slot is given back while the connection is still tracked and open.
FreeSlot(c) ==
    /\ session[c] = "end"
    /\ session' = [session EXCEPT ![c] = "freed"]
    /\ sem' = sem - 1
    /\ UNCHANGED <<listener, loop, taken, peer, sock, conns, waiting, closer, found>>

Untrack(c) ==
    /\ session[c] = "freed"
    /\ session' = [session EXCEPT ![c] = "closed"]
    /\ conns' = conns \ {c} /\ sock' = sock \ {c}
    /\ UNCHANGED <<listener, loop, taken, peer, sem, waiting, closer, found>>

\* Fault: the wait group is not told.
DoneUntold(c) ==
    /\ session[c] = "closed"
    /\ session' = [session EXCEPT ![c] = "done"]
    /\ UNCHANGED <<listener, loop, taken, peer, sock, sem, conns, waiting, closer, found>>

Done(c) ==
    /\ session[c] = "closed"
    /\ session' = [session EXCEPT ![c] = "done"]
    /\ waiting' = waiting - 1
    /\ UNCHANGED <<listener, loop, taken, peer, sock, sem, conns, closer, found>>

\* Goroutines the wait group counts, and those that hold a slot.
Counted == {c \in Conns : session[c] \in {"serve", "end", "freed", "closed"}}
Served  == {c \in Conns : session[c] \in {"serve", "end"}}

-----------------------------------------------------------------------------
(* Close.                                                                   *)

CloseBegins ==
    /\ closer = "none"
    /\ closer' = "sweep"
    /\ UNCHANGED <<listener, loop, taken, peer, sock, sem, conns, waiting, session, found>>

\* Under mu: the listener, if Serve has set it, and the tracked connections,
\* the one Serve has not yet added to the wait group among them.
Sweep ==
    /\ closer = "sweep"
    /\ listener' = IF listener = "open" THEN "closed" ELSE listener
    /\ sock' = sock \ conns
    /\ found' = [tracked |-> conns, running |-> Counted]
    /\ closer' = "wait"
    /\ UNCHANGED <<loop, taken, peer, sem, conns, waiting, session>>

\* Fault: Close does not wait for the connection goroutines.
WaitSkipped ==
    /\ closer = "wait"
    /\ closer' = "returned"
    /\ UNCHANGED <<listener, loop, taken, peer, sock, sem, conns, waiting, session, found>>

Wait ==
    /\ closer = "wait" /\ waiting = 0
    /\ closer' = "returned"
    /\ UNCHANGED <<listener, loop, taken, peer, sock, sem, conns, waiting, session, found>>

-----------------------------------------------------------------------------
Loop       == Begin \/ Accept \/ AcceptFails \/ Admit \/ Track \/ AddAndGo
Cleanup(c) == FreeSlot(c) \/ Untrack(c) \/ Done(c)

Next == \/ \E c \in Conns : Dial(c) \/ HangUp(c) \/ ServeEnds(c) \/ Cleanup(c)
        \/ Loop \/ CloseBegins \/ Sweep \/ Wait

Spec == Init /\ [][Next]_vars

\* Goroutines run.  A session is only sure to end once the server's own end of
\* its connection is closed: a client that goes on asking is served for ever.
FairSpec ==
    /\ Spec
    /\ WF_vars(Loop) /\ WF_vars(Sweep) /\ WF_vars(Wait)
    /\ \A c \in Conns : WF_vars(c \notin sock /\ ServeEnds(c)) /\ WF_vars(Cleanup(c))

-----------------------------------------------------------------------------
\* One type invariant: the counters are what they count, so a slot is neither
\* lost nor returned twice (sem and wg of Serve).
TypeOK ==
    /\ listener \in {"unset", "open", "closed"}
    /\ loop \in {"start", "accept", "admit", "track", "add", "ended"}
    /\ taken \in Conns \cup {None}
    /\ peer \in [Conns -> {"absent", "backlog", "connected", "gone"}]
    /\ sock \subseteq Conns /\ conns \subseteq Conns
    /\ found \in [tracked : SUBSET Conns, running : SUBSET Conns]
    /\ session \in [Conns -> {"none", "serve", "end", "freed", "closed", "done"}]
    /\ closer \in {"none", "sweep", "wait", "returned"}
    /\ sem = Cardinality(Served) + IF loop \in {"track", "add"} THEN 1 ELSE 0
    /\ waiting = Cardinality(Counted)

\* No more than MaxConnections clients are served at once, and a connection
\* that no goroutine answers for is the one the loop holds (Serve's select).
ConnectionsBounded ==
    /\ Cardinality(Served) <= MaxConnections
    /\ sock \cup conns \subseteq Counted \cup {taken}

\* When Close returns, every connection it found tracked is closed and every
\* goroutine it found running has ended: wg.Wait does not return between two of
\* them, nor while one still holds its connection.  It may have returned before
\* the goroutine of one connection, that which Serve had tracked and not yet
\* added to the wait group.
FoundAreFinished ==
    closer = "returned" =>
        /\ found.tracked \cap sock = {}
        /\ \A c \in found.running : session[c] = "done"
        /\ \E c \in Conns \cup {None} : found.tracked \subseteq found.running \cup {c}

\* Close returns, unless a connection that its sweep missed goes on being
\* served (wg.Wait after the sweep of Close).
CloseReturns ==
    [](closer = "wait" /\ [](Counted \cap sock = {}) => <>(closer = "returned"))

\* The comment on Close: it "stops accepting connections, closes active
\* clients and waits for work", so nothing is served after it has returned.
CloseIsFinal == closer = "returned" => Counted = {}
=============================================================================
