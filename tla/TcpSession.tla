------------------------------ MODULE TcpSession ------------------------------
(***************************************************************************)
(* One persistent connection of extend/tcpserver: the Client with its      *)
(* concurrent Calls and its readLoop on one side, serveConn with its       *)
(* request goroutines on the other, two bounded byte streams in between.   *)
(*                                                                         *)
(* A request or a response is named by the call it belongs to; a stream is *)
(* the sequence of frames written and not yet read, and Torn stands for    *)
(* the beginning of a frame whose write was cut off by its deadline.       *)
(***************************************************************************)
EXTENDS Naturals, Sequences, FiniteSets

CONSTANTS
    Calls,          \* the calls made on the connection, by id
    MaxInflight,    \* requests served at once on one connection
    Room            \* frames a socket buffer holds before a writer blocks

None == "none"
Torn == "torn"

ASSUME ConstantsOK == MaxInflight \in Nat \ {0} /\ Room \in Nat \ {0}
                      /\ IsFiniteSet(Calls) /\ None \notin Calls /\ Torn \notin Calls

VARIABLES
    call,       \* goroutine of Call: where it is
    out,        \* what Call returned: the id of the answer it decoded, or an error
    pending,    \* ids in Client.pending
    ch,         \* the response in the channel of a call, or None
    reader,     \* readLoop: the channel it is about to send to, or None
    read,       \* the response readLoop holds
    writer,     \* the call that holds writeMu, or None
    done,       \* Client.done is closed, and with it the client's end
    c2s, s2c,   \* the two streams
    serve,      \* serveConn: "read", "admit", "drain", "closed"
    frame,      \* the request serveConn has read and not yet admitted
    req,        \* goroutine of a request
    closing,    \* Server.Close was called
    shut        \* the server's end of the connection is closed

client == <<call, out, pending, ch, reader, read, writer, done>>
server == <<serve, frame, req, closing, shut>>
vars   == <<client, server, c2s, s2c>>

Init ==
    /\ call = [c \in Calls |-> "idle"] /\ out = [c \in Calls |-> None]
    /\ pending = {} /\ ch = [c \in Calls |-> None]
    /\ reader = None /\ read = None /\ writer = None /\ done = FALSE
    /\ c2s = <<>> /\ s2c = <<>>
    /\ serve = "read" /\ frame = None /\ req = [c \in Calls |-> "none"]
    /\ closing = FALSE /\ shut = FALSE

-----------------------------------------------------------------------------
(* Client.Call.                                                             *)

Return(c, answer) == /\ call' = [call EXCEPT ![c] = "done"]
                     /\ out' = [out EXCEPT ![c] = answer]

\* The id is entered under mu, unless the client is already shut down.
Register(c) ==
    /\ call[c] = "idle"
    /\ \/ done /\ Return(c, "error") /\ UNCHANGED pending
       \/ /\ ~done
          /\ pending' = pending \cup {c}
          /\ call' = [call EXCEPT ![c] = "lock"]
          /\ UNCHANGED out
    /\ UNCHANGED <<ch, reader, read, writer, done, server, c2s, s2c>>

Lock(c) ==
    /\ call[c] = "lock" /\ writer = None
    /\ writer' = c
    /\ call' = [call EXCEPT ![c] = "write"]
    /\ UNCHANGED <<out, pending, ch, reader, read, done, server, c2s, s2c>>

\* The request is written whole; a full socket buffer blocks the writer.
Write(c) ==
    /\ call[c] = "write" /\ ~done /\ Len(c2s) < Room
    /\ c2s' = Append(c2s, c)
    /\ writer' = None
    /\ call' = [call EXCEPT ![c] = "wait"]
    /\ UNCHANGED <<out, pending, ch, reader, read, done, server, s2c>>

\* Fault: the id of a request that was not sent stays registered.
UnsentKeeping(c) ==
    /\ call[c] = "write"
    /\ writer' = None
    /\ Return(c, "error")
    /\ UNCHANGED <<pending, ch, reader, read, done, server, c2s, s2c>>

Unsent(c) ==
    /\ call[c] = "write"
    /\ writer' = None
    /\ pending' = pending \ {c}
    /\ Return(c, "error")
    /\ UNCHANGED <<ch, reader, read, done, server, c2s, s2c>>

\* The write fails once an end of the connection is closed; it has no deadline.
WriteFails(c) == (done \/ shut) /\ Unsent(c)

\* A request over maxFrame is refused before anything is written.
TooLarge(c) == ~done /\ Unsent(c)

\* The select over the answer, ctx and done takes any branch that is ready.
Answered(c) ==
    /\ call[c] = "wait" /\ ch[c] # None
    /\ Return(c, ch[c])
    /\ UNCHANGED <<pending, ch, reader, read, writer, done, server, c2s, s2c>>

Cancelled(c) ==
    /\ call[c] = "wait"
    /\ pending' = pending \ {c}
    /\ Return(c, "error")
    /\ UNCHANGED <<ch, reader, read, writer, done, server, c2s, s2c>>

Terminated(c) ==
    /\ call[c] = "wait" /\ done
    /\ Return(c, "error")
    /\ UNCHANGED <<pending, ch, reader, read, writer, done, server, c2s, s2c>>

-----------------------------------------------------------------------------
(* Client.readLoop and shutdown.                                            *)

\* Fault: answers are handed out in the order of arrival.
TakeInOrder ==
    /\ ~done /\ reader = None
    /\ s2c # <<>> /\ Head(s2c) \in Calls
    /\ IF pending = {} THEN UNCHANGED <<reader, pending>>
       ELSE \E c \in pending : reader' = c /\ pending' = pending \ {c}
    /\ read' = Head(s2c)
    /\ s2c' = Tail(s2c)
    /\ UNCHANGED <<call, out, ch, writer, done, server, c2s>>

\* A frame is read and its id looked up and deleted; an answer nobody waits
\* for any more is dropped.
Take ==
    /\ ~done /\ reader = None
    /\ s2c # <<>> /\ Head(s2c) \in Calls
    /\ read' = Head(s2c)
    /\ reader' = IF read' \in pending THEN read' ELSE None
    /\ pending' = pending \ {read'}
    /\ s2c' = Tail(s2c)
    /\ UNCHANGED <<call, out, ch, writer, done, server, c2s>>

\* Fault: the channel is unbuffered, and nobody receives for a departed call.
DeliverUnbuffered ==
    /\ reader # None /\ call[reader] = "wait"
    /\ ch' = [ch EXCEPT ![reader] = read]
    /\ reader' = None
    /\ UNCHANGED <<call, out, pending, read, writer, done, server, c2s, s2c>>

\* The send after mu is released: the channel has room for one response.
Deliver ==
    /\ reader # None /\ ch[reader] = None
    /\ ch' = [ch EXCEPT ![reader] = read]
    /\ reader' = None
    /\ UNCHANGED <<call, out, pending, read, writer, done, server, c2s, s2c>>

Shutdown == done' = TRUE /\ pending' = {}

\* Fault: a stream that ends leaves the client open.
ReadFailsQuietly ==
    /\ ~done /\ reader = None
    /\ s2c # <<>> /\ Head(s2c) = Torn /\ Len(s2c) > 1
    /\ Shutdown
    /\ UNCHANGED <<call, out, ch, reader, read, writer, server, c2s, s2c>>

\* The stream ends, or the rest of a torn frame turns out to be the next
\* frame: no JSON, and the client shuts down.
ReadFails ==
    /\ ~done /\ reader = None
    /\ \/ shut
       \/ s2c # <<>> /\ Head(s2c) = Torn /\ Len(s2c) > 1
    /\ Shutdown
    /\ UNCHANGED <<call, out, ch, reader, read, writer, server, c2s, s2c>>

CloseClient ==
    /\ ~done
    /\ Shutdown
    /\ UNCHANGED <<call, out, ch, reader, read, writer, server, c2s, s2c>>

-----------------------------------------------------------------------------
(* Server.serveConn and its request goroutines.                             *)

ReadRequest ==
    /\ serve = "read" /\ ~shut /\ c2s # <<>>
    /\ frame' = Head(c2s)
    /\ c2s' = Tail(c2s)
    /\ serve' = "admit"
    /\ UNCHANGED <<client, req, closing, shut, s2c>>

\* The read fails: idleTimeout passes without a frame, or an end is closed.
ReadEnds ==
    /\ serve = "read"
    /\ c2s = <<>> \/ shut \/ done
    /\ serve' = "drain"
    /\ UNCHANGED <<client, frame, req, closing, shut, c2s, s2c>>

Running == {c \in Calls : req[c] \in {"serve", "respond"}}

\* Fault: the semaphore is not taken.
HasSlotAlways == TRUE

HasSlot == Cardinality(Running) < MaxInflight

Admit ==
    /\ serve = "admit"
    /\ \/ /\ HasSlot
          /\ req' = [req EXCEPT ![frame] = "serve"]
          /\ serve' = "read"
       \/ closing /\ serve' = "drain" /\ UNCHANGED req
    /\ frame' = None
    /\ UNCHANGED <<client, closing, shut, c2s, s2c>>

\* dispatch returns: the handler answered, or the request was refused.
Dispatch(c) ==
    /\ req[c] = "serve"
    /\ req' = [req EXCEPT ![c] = "respond"]
    /\ UNCHANGED <<client, serve, frame, closing, shut, c2s, s2c>>

\* Fault: a refusal is built without the id of its request.
AnswerAnonymous(c) == ""

Answer(c) == c

\* writeResponse holds the connection's writeMu for one frame and drops every
\* error: an oversized response, a closed connection, a passed deadline, which
\* leaves nothing or a torn frame in the stream of a client that still reads.
Respond(c) ==
    /\ req[c] = "respond"
    /\ \/ UNCHANGED s2c
       \/ ~shut /\ Len(s2c) < Room /\ s2c' = Append(s2c, Answer(c))
       \/ ~shut /\ Len(s2c) = Room /\ s2c' = Append(s2c, Torn)
    /\ req' = [req EXCEPT ![c] = "done"]
    /\ UNCHANGED <<client, serve, frame, closing, shut, c2s>>

\* requests.Wait, then the deferred close of the connection.
HangUp ==
    /\ serve = "drain" /\ Running = {}
    /\ serve' = "closed" /\ shut' = TRUE
    /\ UNCHANGED <<client, frame, req, closing, c2s, s2c>>

\* Server.Close closes the connection under serveConn.
CloseServer ==
    /\ ~closing
    /\ closing' = TRUE /\ shut' = TRUE
    /\ UNCHANGED <<client, serve, frame, req, c2s, s2c>>

-----------------------------------------------------------------------------
CallStep(c) == Register(c) \/ Lock(c) \/ Write(c) \/ WriteFails(c)
               \/ Answered(c) \/ Terminated(c)
ReadLoop    == Take \/ Deliver \/ ReadFails
ServeConn   == ReadRequest \/ ReadEnds \/ Admit \/ HangUp
Request(c)  == Dispatch(c) \/ Respond(c)

Next == \/ \E c \in Calls : CallStep(c) \/ TooLarge(c) \/ Cancelled(c) \/ Request(c)
        \/ ReadLoop \/ CloseClient \/ ServeConn \/ CloseServer

Spec == Init /\ [][Next]_vars

\* Goroutines that can run do run; a request ends by requestTimeout, a response
\* write by writeTimeout and a silent connection by idleTimeout.  Contexts may
\* never expire and nobody need close anything.
FairSpec ==
    /\ Spec
    /\ \A c \in Calls : WF_vars(CallStep(c)) /\ WF_vars(Request(c))
    /\ WF_vars(ReadLoop) /\ WF_vars(ServeConn)

-----------------------------------------------------------------------------
TypeOK ==
    /\ call \in [Calls -> {"idle", "lock", "write", "wait", "done"}]
    /\ out \in [Calls -> Calls \cup {None, "error"}]
    /\ pending \subseteq Calls
    /\ ch \in [Calls -> Calls \cup {None}]
    /\ reader \in Calls \cup {None} /\ read \in Calls \cup {None}
    /\ writer \in Calls \cup {None} /\ done \in BOOLEAN
    /\ c2s \in Seq(Calls) /\ s2c \in Seq(Calls \cup {Torn})
    /\ serve \in {"read", "admit", "drain", "closed"}
    /\ frame \in Calls \cup {None}
    /\ req \in [Calls -> {"none", "serve", "respond", "done"}]
    /\ closing \in BOOLEAN /\ shut \in BOOLEAN

\* README: an answer is matched by id whatever the order of the answers: a
\* Call that succeeds decodes the answer to its own request.
OwnAnswer == \A c \in Calls : out[c] \in {None, "error", c}

\* Client.pending holds no call that has returned, however it returned.
PendingIsLive == \A c \in pending : call[c] \in {"lock", "write", "wait"}

\* A connection never runs more than MaxInflight requests at once.
InflightBounded == Cardinality(Running) <= MaxInflight

\* serveConn closes the connection only after every request it admitted has
\* handed over its answer.
DrainedBeforeClose == serve = "closed" => Running = {}

\* readLoop always gets past a call's channel, so one slow or departed caller
\* cannot stop the answers of the others.
ReaderProceeds == reader # None ~> reader = None

\* Every Call returns although its context never expires: with an answer, or
\* with an error once the connection ends.
CallsReturn == \A c \in Calls : call[c] # "idle" ~> call[c] = "done"
=============================================================================
