----------------------------- MODULE QuoteClient ------------------------------
(***************************************************************************)
(* One connection to a quote server and the goroutines that share it       *)
(* (client.go): SendFrame numbers a request, remembers what its answer is  *)
(* decoded with, writes it and waits; the read loop decodes the answers    *)
(* one after the other and wakes the waiter of the number.  The connection *)
(* may break and be dialled again under the same numbers; answers may be   *)
(* late, lost, or arrive before anybody waits.                             *)
(*                                                                         *)
(* The waiting itself is a library: a waiter is registered after the       *)
(* write, and an answer nobody is registered for is dropped.               *)
(***************************************************************************)
EXTENDS Naturals, Sequences

CONSTANTS
    Callers,        \* goroutines that share the client
    IdModulus,      \* 2^32
    MaxRequests     \* bound: requests of one behaviour

ASSUME ClientConstants == IdModulus \in Nat /\ IdModulus >= 2 /\ MaxRequests \in Nat

Heartbeat == 0      \* the number of the frames sent by the timer

VARIABLES
    msgID,      \* Client.msgID
    sent,       \* requests so far: each is known by its place
    caller,     \* goroutine -> SendFrame: [pc, id, request, cached, result]
    cache,      \* Client.m: id -> the request whose decoding data it holds
    waiters,    \* ids the waiting library has registered
    wire,       \* requests the server has not answered: {[id, request, cached]}
    inbox,      \* answers the read loop has not dealt with
    linked      \* the connection is up

clientVars == <<msgID, sent, caller, cache, waiters, wire, inbox, linked>>

NoRequestYet == 0
Idle == [pc |-> "idle", id |-> 0, request |-> NoRequestYet, cached |-> FALSE,
         result |-> NoRequestYet]

ClientInit ==
    /\ msgID \in {0, IdModulus - 2}
    /\ sent = 0
    /\ caller = [g \in Callers |-> Idle]
    /\ cache = [i \in {} |-> NoRequestYet]
    /\ waiters = {}
    /\ wire = {}
    /\ inbox = <<>>
    /\ linked = TRUE

Pc(g) == caller[g].pc
To(g, pc) == caller' = [caller EXCEPT ![g].pc = pc]

-----------------------------------------------------------------------------
\* Fault: the number is read, and counted up in a step of its own.
NumberRequestRead(g, cached) ==
    /\ Pc(g) = "idle" /\ sent < MaxRequests
    /\ sent' = sent + 1
    /\ \E counted \in BOOLEAN :
          msgID' = IF counted THEN (msgID + 1) % IdModulus ELSE msgID
    /\ caller' = [caller EXCEPT ![g] = [Idle EXCEPT !.pc = "remember", !.cached = cached,
                     !.id = (msgID + 1) % IdModulus, !.request = sent + 1]]
    /\ UNCHANGED <<cache, waiters, wire, inbox, linked>>

\* SendFrame: the next number, atomically.
NumberRequest(g, cached) ==
    /\ Pc(g) = "idle" /\ sent < MaxRequests
    /\ sent' = sent + 1
    /\ msgID' = (msgID + 1) % IdModulus
    /\ caller' = [caller EXCEPT ![g] = [Idle EXCEPT !.pc = "remember", !.cached = cached,
                     !.id = msgID', !.request = sent + 1]]
    /\ UNCHANGED <<cache, waiters, wire, inbox, linked>>

Remember(g) ==
    /\ Pc(g) = "remember"
    /\ cache' = IF caller[g].cached
                THEN [i \in DOMAIN cache \cup {caller[g].id} |->
                        IF i = caller[g].id THEN caller[g].request ELSE cache[i]]
                ELSE cache
    /\ To(g, "write")
    /\ UNCHANGED <<msgID, sent, waiters, wire, inbox, linked>>

\* An error of the write ends SendFrame; what was remembered stays.
Write(g) ==
    /\ Pc(g) = "write"
    /\ \/ /\ linked
          /\ wire' = wire \cup {[id |-> caller[g].id, request |-> caller[g].request,
                                 cached |-> caller[g].cached]}
          /\ To(g, "wait")
       \/ caller' = [caller EXCEPT ![g] = Idle] /\ wire' = wire
    /\ UNCHANGED <<msgID, sent, cache, waiters, inbox, linked>>

Register(g) ==
    /\ Pc(g) = "wait"
    /\ waiters' = waiters \cup {caller[g].id}
    /\ To(g, "waiting")
    /\ UNCHANGED <<msgID, sent, cache, wire, inbox, linked>>

Timeout(g) ==
    /\ Pc(g) = "waiting"
    /\ waiters' = waiters \ {caller[g].id}
    /\ caller' = [caller EXCEPT ![g] = Idle]
    /\ UNCHANGED <<msgID, sent, cache, wire, inbox, linked>>

Return(g) ==
    /\ Pc(g) = "got"
    /\ caller' = [caller EXCEPT ![g] = Idle]
    /\ UNCHANGED <<msgID, sent, cache, waiters, wire, inbox, linked>>

\* The timer of the connection writes heartbeats, which are answered under
\* number 0.
Beat ==
    /\ linked /\ \A w \in wire : w.request # NoRequestYet
    /\ ~ \E i \in 1 .. Len(inbox) : inbox[i].request = NoRequestYet
    /\ wire' = wire \cup {[id |-> Heartbeat, request |-> NoRequestYet, cached |-> FALSE]}
    /\ UNCHANGED <<msgID, sent, caller, cache, waiters, inbox, linked>>

\* The server answers in any order, perhaps with a frame that cannot be
\* decoded, or never.
Respond(w) ==
    /\ linked /\ w \in wire
    /\ wire' = wire \ {w}
    /\ \/ \E broken \in BOOLEAN :
             inbox' = Append(inbox, [id |-> w.id, request |-> w.request, cached |-> w.cached,
                                     broken |-> broken])
       \/ inbox' = inbox
    /\ UNCHANGED <<msgID, sent, caller, cache, waiters, linked>>

\* handlerDealMessage: the entry is taken out of the cache; an answer that
\* needs one panics without it, which is recovered; one that cannot be decoded
\* is logged; the others wake who waits for the number.
Deal ==
    /\ inbox # <<>>
    /\ LET m    == Head(inbox)
           held == m.id \in DOMAIN cache
           good == ~m.broken /\ (m.cached => held)
       IN /\ cache' = [i \in DOMAIN cache \ {m.id} |-> cache[i]]
          /\ IF good /\ m.id \in waiters
             THEN /\ waiters' = waiters \ {m.id}
                  /\ \E g \in Callers :
                        /\ Pc(g) = "waiting" /\ caller[g].id = m.id
                        /\ caller' = [caller EXCEPT ![g].pc = "got",
                              ![g].result = [of   |-> m.request,
                                             with |-> IF m.cached THEN cache[m.id] ELSE m.request]]
             ELSE UNCHANGED <<waiters, caller>>
    /\ inbox' = Tail(inbox)
    /\ UNCHANGED <<msgID, sent, wire, linked>>

\* The connection breaks: what was under way in it is gone, and the waiters
\* are left to their timeouts.
Disconnect ==
    /\ linked
    /\ linked' = FALSE
    /\ wire' = {}
    /\ UNCHANGED <<msgID, sent, caller, cache, waiters, inbox>>

Redial ==
    /\ ~linked /\ inbox = <<>>
    /\ linked' = TRUE
    /\ UNCHANGED <<msgID, sent, caller, cache, waiters, wire, inbox>>

ClientNext ==
    \/ \E g \in Callers, cached \in BOOLEAN : NumberRequest(g, cached)
    \/ \E g \in Callers : Remember(g)
    \/ \E g \in Callers : Write(g)
    \/ \E g \in Callers : Register(g)
    \/ \E g \in Callers : Timeout(g)
    \/ \E g \in Callers : Return(g)
    \/ Beat
    \/ \E w \in wire : Respond(w)
    \/ Deal
    \/ Disconnect
    \/ Redial

ClientSpec == ClientInit /\ [][ClientNext]_clientVars

-----------------------------------------------------------------------------
\* A call that returns a value returns the answer to the request it sent
\* itself, decoded with the data of that request, whatever was answered late,
\* lost, broken, or sent on an earlier connection; for the heartbeats this
\* needs a number that is not theirs, which one request in 2^32 has not.
OwnReply ==
    \A g \in Callers :
        Pc(g) = "got" /\ caller[g].id # Heartbeat
            => caller[g].result = [of |-> caller[g].request, with |-> caller[g].request]
=============================================================================
