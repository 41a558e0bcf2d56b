--------------------------- MODULE TcpSessionProofs ---------------------------
(* What TLAPS proves of TcpSession for every number of calls, every limit   *)
(* and every buffer size.                                                   *)
EXTENDS TcpSession, TLAPS, FiniteSetTheorems

(***************************************************************************)
(* Types.                                                                  *)
(***************************************************************************)

LEMMA InitTypes == Init => TypeOK
<1>1. <<>> \in Seq(Calls)
  OBVIOUS
<1>2. <<>> \in Seq(Calls \cup {Torn})
  OBVIOUS
<1>3. Init => c2s \in Seq(Calls) /\ s2c \in Seq(Calls \cup {Torn})
  BY <1>1, <1>2 DEF Init
<1>4. QED
  BY <1>3 DEF Init, TypeOK

LEMMA CallTypes ==
  ASSUME TypeOK, NEW c \in Calls, CallStep(c) \/ TooLarge(c) \/ Cancelled(c)
  PROVE  TypeOK'
<1>1. CASE Register(c)
  BY <1>1 DEF TypeOK, Register, Return, server
<1>2. CASE Lock(c)
  BY <1>2 DEF TypeOK, Lock, server
<1>3. CASE Write(c)
  <2>1. c2s' \in Seq(Calls)
    BY <1>3 DEF TypeOK, Write
  <2>2. QED
    BY <1>3, <2>1 DEF TypeOK, Write, server
<1>4. CASE Unsent(c)
  BY <1>4 DEF TypeOK, Unsent, Return, server
<1>5. CASE Answered(c)
  BY <1>5 DEF TypeOK, Answered, Return, server
<1>6. CASE Cancelled(c)
  BY <1>6 DEF TypeOK, Cancelled, Return, server
<1>7. CASE Terminated(c)
  BY <1>7 DEF TypeOK, Terminated, Return, server
<1>8. QED
  BY <1>1, <1>2, <1>3, <1>4, <1>5, <1>6, <1>7 DEF CallStep, WriteFails, TooLarge

LEMMA ReaderTypes ==
  ASSUME TypeOK, ReadLoop \/ CloseClient
  PROVE  TypeOK'
<1>1. CASE Take
  <2>1. s2c' \in Seq(Calls \cup {Torn}) /\ read' \in Calls
    BY <1>1 DEF TypeOK, Take
  <2>2. QED
    BY <1>1, <2>1 DEF TypeOK, Take, server
<1>2. CASE Deliver
  BY <1>2 DEF TypeOK, Deliver, server
<1>3. CASE ReadFails
  BY <1>3 DEF TypeOK, ReadFails, Shutdown, server
<1>4. CASE CloseClient
  BY <1>4 DEF TypeOK, CloseClient, Shutdown, server
<1>5. QED
  BY <1>1, <1>2, <1>3, <1>4 DEF ReadLoop

LEMMA ServerTypes ==
  ASSUME TypeOK, ServeConn \/ CloseServer \/ \E c \in Calls : Request(c)
  PROVE  TypeOK'
<1>1. CASE ReadRequest
  <2>1. c2s' \in Seq(Calls) /\ frame' \in Calls
    BY <1>1 DEF TypeOK, ReadRequest
  <2>2. QED
    BY <1>1, <2>1 DEF TypeOK, ReadRequest, client
<1>2. CASE ReadEnds
  BY <1>2 DEF TypeOK, ReadEnds, client
<1>3. CASE Admit
  BY <1>3 DEF TypeOK, Admit, client
<1>4. CASE HangUp
  BY <1>4 DEF TypeOK, HangUp, client
<1>5. CASE CloseServer
  BY <1>5 DEF TypeOK, CloseServer, client
<1>6. ASSUME NEW c \in Calls, Dispatch(c) PROVE TypeOK'
  BY <1>6 DEF TypeOK, Dispatch, client
<1>7. ASSUME NEW c \in Calls, Respond(c) PROVE TypeOK'
  <2>1. s2c' = s2c \/ s2c' = Append(s2c, c) \/ s2c' = Append(s2c, Torn)
    BY <1>7 DEF Respond, Answer
  <2>2. s2c \in Seq(Calls \cup {Torn})
    BY DEF TypeOK
  <2>3. s2c' \in Seq(Calls \cup {Torn})
    BY <2>1, <2>2
  <2>4. QED
    BY <1>7, <2>3 DEF TypeOK, Respond, client
<1>8. QED
  BY <1>1, <1>2, <1>3, <1>4, <1>5, <1>6, <1>7 DEF ServeConn, Request

LEMMA TypeStep == TypeOK /\ [Next]_vars => TypeOK'
<1>1. CASE UNCHANGED vars
  BY <1>1 DEF TypeOK, vars, client, server
<1>2. CASE Next
  BY <1>2, CallTypes, ReaderTypes, ServerTypes DEF Next
<1>3. QED
  BY <1>1, <1>2

\* TypeOK is invariant: among the rest, serveConn never reads a frame that is
\* not a request and readLoop never looks up what is not an answer.
THEOREM TypeCorrect == Spec => []TypeOK
BY InitTypes, TypeStep, PTL DEF Spec

(***************************************************************************)
(* Answers and the pending table.                                          *)
(***************************************************************************)

\* Whatever is in hand for a call is its own answer.
Matched ==
    /\ OwnAnswer
    /\ \A c \in Calls : ch[c] \in {None, c}
    /\ reader \in {None, read}

\* An id is in pending, or its answer is on the way to the call, never both; a
\* call that has not begun has neither; and a client that is shut down waits for
\* nothing.
Tracked ==
    /\ PendingIsLive
    /\ \A c \in pending : reader # c /\ ch[c] = None
    /\ \A c \in Calls : call[c] = "idle" => reader # c /\ ch[c] = None
    /\ done => pending = {}

CallInv == TypeOK /\ Matched /\ Tracked

LEMMA CallKeeps ==
  ASSUME CallInv, NEW c \in Calls, CallStep(c) \/ TooLarge(c) \/ Cancelled(c)
  PROVE  Matched' /\ Tracked'
<1> USE DEF CallInv, TypeOK, Matched, Tracked, OwnAnswer, PendingIsLive
<1>1. CASE Register(c)
  <2>1. CASE done
    BY <1>1, <2>1 DEF Register, Return
  <2>2. CASE ~done
    <3>1. /\ pending' = pending \cup {c} /\ call' = [call EXCEPT ![c] = "lock"]
          /\ UNCHANGED <<out, ch, reader, read, done>>
      BY <1>1, <2>2 DEF Register
    <3>2. reader # c /\ ch[c] = None
      BY <1>1 DEF Register
    <3>3. QED
      BY <2>2, <3>1, <3>2
  <2>3. QED
    BY <2>1, <2>2
<1>2. CASE Lock(c)
  BY <1>2 DEF Lock
<1>3. CASE Write(c)
  BY <1>3 DEF Write
<1>4. CASE Unsent(c)
  BY <1>4 DEF Unsent, Return
<1>5. CASE Answered(c)
  BY <1>5 DEF Answered, Return
<1>6. CASE Cancelled(c)
  BY <1>6 DEF Cancelled, Return
<1>7. CASE Terminated(c)
  BY <1>7 DEF Terminated, Return
<1>8. QED
  BY <1>1, <1>2, <1>3, <1>4, <1>5, <1>6, <1>7 DEF CallStep, WriteFails, TooLarge

LEMMA ReaderKeeps ==
  ASSUME CallInv, ReadLoop \/ CloseClient
  PROVE  Matched' /\ Tracked'
<1> USE DEF CallInv, TypeOK, Matched, Tracked, OwnAnswer, PendingIsLive
<1>1. CASE Take
  <2>1. read' \in Calls /\ reader = None /\ ~done
    BY <1>1 DEF Take
  <2>2. reader' = (IF read' \in pending THEN read' ELSE None) /\ pending' = pending \ {read'}
    BY <1>1 DEF Take
  <2>3. UNCHANGED <<call, out, ch, done>>
    BY <1>1 DEF Take
  <2>4. QED
    BY <2>1, <2>2, <2>3
<1>2. CASE Deliver
  BY <1>2, ConstantsOK DEF Deliver
<1>3. CASE ReadFails
  BY <1>3 DEF ReadFails, Shutdown
<1>4. CASE CloseClient
  BY <1>4 DEF CloseClient, Shutdown
<1>5. QED
  BY <1>1, <1>2, <1>3, <1>4 DEF ReadLoop

\* No step of the server touches the state of the client.
LEMMA ServerSpares ==
  ASSUME ServeConn \/ CloseServer \/ \E c \in Calls : Request(c)
  PROVE  UNCHANGED client
BY DEF ServeConn, ReadRequest, ReadEnds, Admit, HangUp, CloseServer, Request, Dispatch, Respond

LEMMA CallInvStep == CallInv /\ [Next]_vars => CallInv'
<1> SUFFICES ASSUME CallInv, [Next]_vars PROVE CallInv'
  OBVIOUS
<1>1. TypeOK'
  BY TypeStep DEF CallInv
<1>2. ASSUME UNCHANGED client PROVE Matched' /\ Tracked'
  BY <1>2 DEF client, CallInv, Matched, Tracked, OwnAnswer, PendingIsLive
<1>3. Matched' /\ Tracked'
  <2>1. CASE UNCHANGED vars
    BY <2>1, <1>2 DEF vars
  <2>2. CASE Next
    BY <2>2, <1>2, CallKeeps, ReaderKeeps, ServerSpares DEF Next
  <2>3. QED
    BY <2>1, <2>2
<1>4. QED
  BY <1>1, <1>3 DEF CallInv

LEMMA CallInvariant == Spec => []CallInv
<1>1. Init => CallInv
  <2>1. Init => Matched
    BY DEF Init, Matched, OwnAnswer
  <2>2. Init => Tracked
    BY ConstantsOK DEF Init, Tracked, PendingIsLive
  <2>3. QED
    BY <2>1, <2>2, InitTypes DEF CallInv
<1>2. QED
  BY <1>1, CallInvStep, PTL DEF Spec

\* A Call that succeeds decodes the answer to its own request, in whatever
\* order, however late and with whatever cut-off frames the answers arrive.
THEOREM AnswersAreOwn == Spec => []OwnAnswer
<1>1. CallInv => OwnAnswer
  BY DEF CallInv, Matched
<1>2. QED
  BY <1>1, CallInvariant, PTL

\* The pending table never outlives its calls.
THEOREM PendingHoldsLiveCalls == Spec => []PendingIsLive
<1>1. CallInv => PendingIsLive
  BY DEF CallInv, Tracked
<1>2. QED
  BY <1>1, CallInvariant, PTL

(***************************************************************************)
(* Requests of a connection.                                               *)
(***************************************************************************)

ServeInv == TypeOK /\ InflightBounded /\ DrainedBeforeClose

LEMMA RunningIsFinite ==
  ASSUME NEW S \in SUBSET Calls
  PROVE  IsFiniteSet(S) /\ Cardinality(S) \in Nat
BY ConstantsOK, FS_Subset, FS_CardinalityType

\* Fewer requests, or as many, keep both promises.
LEMMA FewerRunning ==
  ASSUME ServeInv, Running' \subseteq Running, serve' = "closed" => serve = "closed" \/ Running = {}
  PROVE  InflightBounded' /\ DrainedBeforeClose'
<1>1. Running \in SUBSET Calls /\ Running' \in SUBSET Running
  BY DEF Running
<1>2. IsFiniteSet(Running) /\ Cardinality(Running) \in Nat
  BY <1>1, RunningIsFinite
<1>3. Cardinality(Running') <= Cardinality(Running)
  BY <1>1, <1>2, FS_Subset
<1>4. Cardinality(Running') \in Nat
  BY <1>1, RunningIsFinite
<1>5. InflightBounded'
  BY <1>2, <1>3, <1>4, ConstantsOK DEF ServeInv, InflightBounded
<1>6. QED
  BY <1>5 DEF ServeInv, DrainedBeforeClose

LEMMA AdmitKeeps ==
  ASSUME ServeInv, Admit
  PROVE  InflightBounded' /\ DrainedBeforeClose'
<1>1. CASE serve' = "drain" /\ UNCHANGED req
  BY <1>1, FewerRunning DEF Running
<1>2. CASE HasSlot /\ req' = [req EXCEPT ![frame] = "serve"] /\ serve' = "read"
  <2>1. Running \in SUBSET Calls /\ Running' \in SUBSET Calls
    BY DEF Running
  <2>2. Running' \in SUBSET (Running \cup {frame})
    BY <1>2 DEF Running, ServeInv, TypeOK
  <2>3. /\ IsFiniteSet(Running \cup {frame})
        /\ Cardinality(Running \cup {frame}) <= Cardinality(Running) + 1
    BY <2>1, RunningIsFinite, FS_AddElement
  <2>4. Cardinality(Running') <= Cardinality(Running \cup {frame})
    BY <2>2, <2>3, FS_Subset
  <2>5. /\ Cardinality(Running) \in Nat /\ Cardinality(Running') \in Nat
        /\ Cardinality(Running \cup {frame}) \in Nat
    BY <2>1, <2>3, RunningIsFinite, FS_CardinalityType
  <2>6. InflightBounded'
    BY <1>2, <2>3, <2>4, <2>5, ConstantsOK DEF HasSlot, InflightBounded
  <2>7. QED
    BY <1>2, <2>6 DEF DrainedBeforeClose
<1>3. QED
  BY <1>1, <1>2 DEF Admit

\* Steps of the client leave the requests of the server alone.
LEMMA ClientSpares ==
  ASSUME \/ ReadLoop \/ CloseClient
         \/ \E c \in Calls : CallStep(c) \/ TooLarge(c) \/ Cancelled(c)
  PROVE  UNCHANGED server
BY DEF ReadLoop, Take, Deliver, ReadFails, CloseClient, CallStep, Register, Lock, Write,
       WriteFails, TooLarge, Unsent, Answered, Cancelled, Terminated

LEMMA ServeInvStep == ServeInv /\ [Next]_vars => ServeInv'
<1> SUFFICES ASSUME ServeInv, [Next]_vars PROVE ServeInv'
  OBVIOUS
<1>1. TypeOK'
  BY TypeStep DEF ServeInv
<1>2. ASSUME UNCHANGED server PROVE InflightBounded' /\ DrainedBeforeClose'
  BY <1>2, FewerRunning DEF server, Running
<1>3. CASE UNCHANGED vars
  BY <1>1, <1>2, <1>3 DEF vars, ServeInv
<1>4. CASE ReadRequest \/ ReadEnds \/ HangUp \/ CloseServer
  BY <1>1, <1>4, FewerRunning DEF ReadRequest, ReadEnds, HangUp, CloseServer, Running, ServeInv
<1>5. CASE Admit
  BY <1>1, <1>5, AdmitKeeps DEF ServeInv
<1>6. ASSUME NEW c \in Calls, Request(c) PROVE ServeInv'
  <2>1. Running' \subseteq Running
    BY <1>6 DEF Request, Dispatch, Respond, Running, ServeInv, TypeOK
  <2>2. serve' = serve
    BY <1>6 DEF Request, Dispatch, Respond
  <2>3. QED
    BY <1>1, <2>1, <2>2, FewerRunning DEF ServeInv
<1>7. QED
  BY <1>1, <1>2, <1>3, <1>4, <1>5, <1>6, ClientSpares DEF Next, ServeConn, ServeInv

LEMMA ServeInvariant == Spec => []ServeInv
<1>1. Init => ServeInv
  <2>1. Init => TypeOK
    BY InitTypes
  <2>2. Init => Running = {}
    BY DEF Init, Running
  <2>3. QED
    BY <2>1, <2>2, FS_EmptySet, ConstantsOK DEF ServeInv, InflightBounded, DrainedBeforeClose
<1>2. QED
  BY <1>1, ServeInvStep, PTL DEF Spec

\* A connection never serves more than MaxInflight requests at once.
THEOREM InflightIsBounded == Spec => []InflightBounded
<1>1. ServeInv => InflightBounded
  BY DEF ServeInv
<1>2. QED
  BY <1>1, ServeInvariant, PTL

\* serveConn closes its connection only when every admitted request is done.
THEOREM ClosesDrained == Spec => []DrainedBeforeClose
<1>1. ServeInv => DrainedBeforeClose
  BY DEF ServeInv
<1>2. QED
  BY <1>1, ServeInvariant, PTL
===============================================================================
