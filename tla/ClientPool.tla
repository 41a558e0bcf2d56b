------------------------------ MODULE ClientPool ------------------------------
(***************************************************************************)
(* The pool of connections to the quote servers (pool.go): a buffered      *)
(* channel of clients.  A borrower receives one and sends it back; closing *)
(* the pool closes its Done channel first and the buffered channel next.   *)
(***************************************************************************)
EXTENDS Naturals, Sequences, FiniteSets, SequencesExt

CONSTANTS
    Clients,        \* what dial returns, one after the other
    Borrowers,      \* goroutines
    PoolSize        \* NewPool's number

Nobody  == "nobody"
Number  == IF PoolSize = 0 THEN 1 ELSE PoolSize

ASSUME PoolConstants ==
    /\ IsFiniteSet(Clients) /\ Nobody \notin Clients
    /\ PoolSize \in Nat /\ Number <= Cardinality(Clients)

VARIABLES
    built,      \* NewPool: "dialling", "ok" or "failed"
    free,       \* the buffered channel
    lent,       \* borrower -> the client it holds, or Nobody
    open,       \* clients the pool has dialled and not closed: a connection may drop
    poolDone,   \* Done is closed
    chClosed,   \* the buffered channel is closed
    lost        \* clients whose Put has panicked

poolVars == <<built, free, lent, open, poolDone, chClosed, lost>>

PoolInit ==
    /\ built = "dialling"
    /\ free = <<>>
    /\ lent = [b \in Borrowers |-> Nobody]
    /\ open = {}
    /\ poolDone = FALSE
    /\ chClosed = FALSE
    /\ lost = {}

-----------------------------------------------------------------------------
\* NewPool dials one client after the other; an error leaves the ones it has
\* dialled to nobody.
DialNext ==
    /\ built = "dialling"
    /\ \/ \E c \in Clients \ open :
             /\ open' = open \cup {c}
             /\ free' = Append(free, c)
             /\ built' = IF Len(free') = Number THEN "ok" ELSE "dialling"
       \/ built' = "failed" /\ UNCHANGED <<open, free>>
    /\ UNCHANGED <<lent, poolDone, chClosed, lost>>

\* Fault: the client stays in the channel while it is lent.
BorrowShared(b) ==
    /\ built = "ok" /\ lent[b] = Nobody /\ free # <<>>
    /\ lent' = [lent EXCEPT ![b] = Head(free)]
    /\ UNCHANGED <<built, free, open, poolDone, chClosed, lost>>

\* Get's select: an error once Done is closed, a client while the channel has
\* one.  The channel hands out what it buffered even after it is closed.
Borrow(b) ==
    /\ built = "ok" /\ lent[b] = Nobody /\ free # <<>>
    /\ lent' = [lent EXCEPT ![b] = Head(free)]
    /\ free' = Tail(free)
    /\ UNCHANGED <<built, open, poolDone, chClosed, lost>>

BorrowRefused(b) ==
    /\ built = "ok" /\ lent[b] = Nobody
    /\ poolDone
    /\ UNCHANGED poolVars

\* Put, which Do and Go defer so that it also runs when the call has failed
\* or panicked.  The channel has room for every client.
GiveBack(b) ==
    /\ lent[b] # Nobody /\ ~chClosed
    /\ free' = Append(free, lent[b])
    /\ lent' = [lent EXCEPT ![b] = Nobody]
    /\ UNCHANGED <<built, open, poolDone, chClosed, lost>>

\* Put after Done: the client is closed, unless select takes the other case
\* and the send on the closed channel panics.
GiveBackLate(b) ==
    /\ lent[b] # Nobody /\ poolDone
    /\ lent' = [lent EXCEPT ![b] = Nobody]
    /\ \/ open' = open \ {lent[b]} /\ lost' = lost
       \/ chClosed /\ lost' = lost \cup {lent[b]} /\ open' = open
    /\ UNCHANGED <<built, free, poolDone, chClosed>>

ClosePool ==
    /\ built = "ok" /\ ~poolDone
    /\ poolDone' = TRUE
    /\ UNCHANGED <<built, free, lent, open, chClosed, lost>>

CloseChannel ==
    /\ poolDone /\ ~chClosed
    /\ chClosed' = TRUE
    /\ UNCHANGED <<built, free, lent, open, poolDone, lost>>

PoolNext ==
    \/ DialNext
    \/ \E b \in Borrowers : Borrow(b)
    \/ \E b \in Borrowers : BorrowRefused(b)
    \/ \E b \in Borrowers : GiveBack(b)
    \/ \E b \in Borrowers : GiveBackLate(b)
    \/ ClosePool
    \/ CloseChannel

PoolSpec == PoolInit /\ [][PoolNext]_poolVars

-----------------------------------------------------------------------------
Held == {lent[b] : b \in Borrowers} \ {Nobody}

PoolTypeOK ==
    /\ built \in {"dialling", "ok", "failed"}
    /\ free \in Seq(Clients)
    /\ lent \in [Borrowers -> Clients \cup {Nobody}]
    /\ open \in SUBSET Clients
    /\ poolDone \in BOOLEAN
    /\ chClosed \in BOOLEAN
    /\ lost \in SUBSET Clients

\* Two calls at a time never share a borrowed client, and the client a call
\* works on has not been closed by the pool, also while the pool is being closed.  Until then no
\* client is lost, whatever the calls on it did: the channel and the borrowers
\* have all that are open, so a pool never runs dry for good.
LentOnce ==
    /\ \A b, d \in Borrowers : lent[b] = lent[d] /\ lent[b] # Nobody => b = d
    /\ Held \cap ToSet(free) = {}
    /\ Held \subseteq open
    /\ ~poolDone => ToSet(free) \cup Held = open
=============================================================================
