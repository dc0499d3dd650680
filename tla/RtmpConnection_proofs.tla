----------------------- MODULE RtmpConnection_proofs -----------------------
(***************************************************************************)
(* Theorems about RtmpConnection, for every set of calling threads and     *)
(* every value of the bounds: type correctness first, then that ConnInv is *)
(* an inductive invariant when no calling thread is interrupted, and that  *)
(* WireOrder, FlagsOfThisSession and ReleasedWhenClosed follow from it.    *)
(***************************************************************************)
EXTENDS RtmpConnection, TLAPS

\* The types of the fields, and: a receive thread exists only after a stream was opened.  The
\* second part is needed because the thread continues with what it reads from that stream.
RxHasStream == \A s \in Session : rx[s] # "none" => stream \in Session

TypeInv == TypeOK /\ RxHasStream

\* A function to the Booleans stays one.
LEMMA ExceptBool ==
  ASSUME NEW D, NEW f \in [D -> BOOLEAN], NEW x, NEW b \in BOOLEAN
  PROVE  [f EXCEPT ![x] = b] \in [D -> BOOLEAN]
BY Zenon

\* Writing and flushing keep the types of the buffers and of what the server got, whatever
\* stream the field refers to.
LEMMA SendTypes ==
  ASSUME NetTypes, NEW m \in Message, Write(m) \/ Flush \/ Send(m)
  PROVE  buffer' \in [Session -> SUBSET Message] /\ wire' \in [Session -> SUBSET Message]
<1> DEFINE M == SUBSET Message
<1>1. buffer \in [Session -> M] /\ wire \in [Session -> M] BY DEF NetTypes
<1>2. stream \in Session => /\ buffer[stream] \cup {m} \in M /\ wire[stream] \cup buffer[stream] \in M
                            /\ wire[stream] \cup buffer[stream] \cup {m} \in M
  BY <1>1
<1>3. {} \in M OBVIOUS
<1> HIDE DEF M
<1>4. /\ [buffer EXCEPT ![stream] = @ \cup {m}] \in [Session -> M]
      /\ [buffer EXCEPT ![stream] = {}] \in [Session -> M]
      /\ [wire EXCEPT ![stream] = @ \cup buffer[stream]] \in [Session -> M]
      /\ [wire EXCEPT ![stream] = @ \cup buffer[stream] \cup {m}] \in [Session -> M]
  BY <1>1, <1>2, <1>3
<1> QED BY <1>1, <1>4 DEF Write, Flush, Send, M

LEMMA TypeInit == ASSUME ConnInit PROVE TypeInv
<1> USE ConnAssumption DEF ConnInit, Session, None
<1>1. FieldTypes
  <2>1. connected \in BOOLEAN /\ publishPermitted \in BOOLEAN /\ crashed \in BOOLEAN OBVIOUS
  <2>2. socket \in 0 .. MaxSession /\ sockets \in 0 .. MaxSession OBVIOUS
  <2> QED BY <2>1, <2>2 DEF FieldTypes
<1>2. NetTypes    BY DEF NetTypes
<1>3. ThreadTypes BY DEF ThreadTypes, Step, RxPc
<1> QED BY <1>1, <1>2, <1>3 DEF TypeInv, TypeOK, RxHasStream

\* A step of connect(), publish(), a media call or close() keeps the types.
LEMMA TypeCaller ==
  ASSUME TypeInv, NEW t \in Caller, CallerStep(t)
  PROVE  TypeInv'
<1> USE ConnAssumption DEF TypeInv, TypeOK, Session, None, Answer, flags, fields, peer, net,
        threads, rxs, At, Goto, Idle, Return, Begin, SetInterrupted
<1>1. CASE OpenSocket(t)      BY <1>1 DEF FieldTypes, NetTypes, ThreadTypes, Step, RxPc, RxHasStream, OpenSocket
<1>2. CASE OpenFails(t)
  <2> USE <1>2 DEF OpenFails
  <2>1. FieldTypes' BY DEF FieldTypes
  <2>2. NetTypes'   BY DEF NetTypes
  <2>3. ThreadTypes' /\ RxHasStream'
    <3>1. stream \in Session => stream' \in Session BY DEF FieldTypes
    <3> QED BY <3>1 DEF ThreadTypes, RxHasStream, Step, RxPc
  <2> QED BY <2>1, <2>2, <2>3
<1>3. CASE StartRx(t)
  <2> USE <1>3 DEF StartRx
  <2>1. FieldTypes'  BY DEF FieldTypes
  <2>2. NetTypes'    BY DEF NetTypes
  <2>3. ThreadTypes'
    <3>1. rx' \in [Session -> RxPc]   BY DEF ThreadTypes, RxPc
    <3>2. call' \in [Caller -> Step]  BY DEF ThreadTypes, Step
    <3> QED BY <3>1, <3>2 DEF ThreadTypes
  <2>4. RxHasStream' BY DEF RxHasStream, ThreadTypes, FieldTypes
  <2> QED BY <2>1, <2>2, <2>3, <2>4
<1>4. CASE RtmpConnect(t)
  <2> USE <1>4 DEF RtmpConnect
  <2>1. FieldTypes'  BY DEF FieldTypes
  <2>2. NetTypes'    BY SendTypes DEF NetTypes, Message
  <2>3. ThreadTypes' /\ RxHasStream' BY DEF ThreadTypes, RxHasStream, Step, RxPc
  <2> QED BY <2>1, <2>2, <2>3
<1>5. CASE FlushConnect(t)
  <2> USE <1>5 DEF FlushConnect
  <2>1. FieldTypes'  BY DEF FieldTypes
  <2>2. NetTypes'    BY SendTypes DEF NetTypes, Message
  <2>3. ThreadTypes' /\ RxHasStream' BY DEF ThreadTypes, RxHasStream, Step, RxPc
  <2> QED BY <2>1, <2>2, <2>3
<1>6. CASE Wait(t, "enterConnect", "waitConnect", "checkConnect") BY <1>6 DEF FieldTypes, NetTypes, ThreadTypes, Step, RxPc, RxHasStream, Wait
<1>7. CASE Timeout(t, "waitConnect", "checkConnect")              BY <1>7 DEF FieldTypes, NetTypes, ThreadTypes, Step, RxPc, RxHasStream, Timeout
<1>8. CASE WaitInterrupted(t, "waitConnect", "checkConnect")      BY <1>8 DEF FieldTypes, NetTypes, ThreadTypes, Step, RxPc, RxHasStream, WaitInterrupted
<1>9. CASE CheckConnected(t)  BY <1>9 DEF FieldTypes, NetTypes, ThreadTypes, Step, RxPc, RxHasStream, CheckConnected
<1>10. CASE SendCreateStream(t)
  <2> USE <1>10 DEF SendCreateStream
  <2>1. FieldTypes'  BY DEF FieldTypes
  <2>2. NetTypes'    BY SendTypes DEF NetTypes, Message
  <2>3. ThreadTypes' /\ RxHasStream' BY DEF ThreadTypes, RxHasStream, Step, RxPc
  <2> QED BY <2>1, <2>2, <2>3
<1>11. CASE FlushCreateStream(t)
  <2> USE <1>11 DEF FlushCreateStream
  <2>1. FieldTypes'  BY DEF FieldTypes
  <2>2. NetTypes'    BY SendTypes DEF NetTypes, Message
  <2>3. ThreadTypes' /\ RxHasStream' BY DEF ThreadTypes, RxHasStream, Step, RxPc
  <2> QED BY <2>1, <2>2, <2>3
<1>12. CASE Wait(t, "enterPublish", "waitPublish", "checkPublish") BY <1>12 DEF FieldTypes, NetTypes, ThreadTypes, Step, RxPc, RxHasStream, Wait
<1>13. CASE Timeout(t, "waitPublish", "checkPublish")              BY <1>13 DEF FieldTypes, NetTypes, ThreadTypes, Step, RxPc, RxHasStream, Timeout
<1>14. CASE WaitInterrupted(t, "waitPublish", "checkPublish")      BY <1>14 DEF FieldTypes, NetTypes, ThreadTypes, Step, RxPc, RxHasStream, WaitInterrupted
<1>15. CASE CheckPermitted(t) BY <1>15 DEF FieldTypes, NetTypes, ThreadTypes, Step, RxPc, RxHasStream, CheckPermitted
<1>16. CASE SendAudio(t)
  <2> USE <1>16 DEF SendAudio
  <2>1. FieldTypes'  BY DEF FieldTypes
  <2>2. NetTypes'    BY SendTypes DEF NetTypes, Message
  <2>3. ThreadTypes' /\ RxHasStream' BY DEF ThreadTypes, RxHasStream, Step, RxPc
  <2> QED BY <2>1, <2>2, <2>3
<1>17. CASE SendVideo(t)
  <2> USE <1>17 DEF SendVideo
  <2>1. FieldTypes'  BY DEF FieldTypes, GetAndDecrement
  <2>2. NetTypes'    BY SendTypes DEF NetTypes, Message
  <2>3. ThreadTypes' /\ RxHasStream' BY DEF ThreadTypes, RxHasStream, Step, RxPc
  <2> QED BY <2>1, <2>2, <2>3
<1>18. CASE CloseStream(t)
  <2> USE <1>18 DEF CloseStream
  <2>1. FieldTypes'  BY DEF FieldTypes
  <2>2. NetTypes'    BY SendTypes DEF NetTypes, Message
  <2>3. ThreadTypes' /\ RxHasStream' BY DEF ThreadTypes, RxHasStream, Step, RxPc
  <2> QED BY <2>1, <2>2, <2>3
<1>19. CASE ShutdownSocket(t)
  <2> USE <1>19 DEF ShutdownSocket
  <2>1. FieldTypes'  BY DEF FieldTypes
  <2>2. NetTypes'    BY DEF NetTypes
  <2>3. ThreadTypes' /\ RxHasStream' BY DEF ThreadTypes, RxHasStream, Step, RxPc
  <2> QED BY <2>1, <2>2, <2>3
<1>20. CASE InterruptRx(t)
  <2> USE <1>20
  <2>1. FieldTypes'  BY DEF FieldTypes, InterruptRx
  <2>2. NetTypes'    BY DEF NetTypes, InterruptRx
  <2>3. ThreadTypes'
    <3>1. rxInterrupted \in [Session -> BOOLEAN] BY DEF ThreadTypes
    <3>2. [rxInterrupted EXCEPT ![rxPacketHandler] = TRUE] \in [Session -> BOOLEAN]
      BY <3>1, ExceptBool, Zenon
    <3>3. rxInterrupted' \in [Session -> BOOLEAN] BY <3>1, <3>2, Zenon DEF InterruptRx
    <3>4. joining' \in [Caller -> 0 .. MaxSession] BY DEF ThreadTypes, FieldTypes, InterruptRx
    <3>5. call' \in [Caller -> Step] BY DEF ThreadTypes, Step, InterruptRx
    <3> QED BY <3>3, <3>4, <3>5 DEF ThreadTypes, InterruptRx
  <2>4. RxHasStream' BY DEF RxHasStream, InterruptRx
  <2> QED BY <2>1, <2>2, <2>3, <2>4
<1>21. CASE JoinRx(t)
  <2> USE <1>21
  <2>1. FieldTypes'  BY DEF FieldTypes, JoinRx
  <2>2. NetTypes'    BY DEF NetTypes, JoinRx
  <2>3. ThreadTypes'
    <3>1. interrupted \in [Caller -> BOOLEAN] BY DEF ThreadTypes
    <3>2. [interrupted EXCEPT ![t] = FALSE] \in [Caller -> BOOLEAN] BY <3>1, ExceptBool, Zenon
    <3>3. interrupted' \in [Caller -> BOOLEAN] BY <3>1, <3>2, Zenon DEF JoinRx, SetInterrupted
    <3>4. joining' \in [Caller -> 0 .. MaxSession] BY DEF ThreadTypes, JoinRx
    <3>5. call' \in [Caller -> Step] BY DEF ThreadTypes, Step, JoinRx
    <3> QED BY <3>3, <3>4, <3>5 DEF ThreadTypes, JoinRx
  <2>4. RxHasStream' BY DEF RxHasStream, JoinRx
  <2> QED BY <2>1, <2>2, <2>3, <2>4
<1>22. CASE CloseSocket(t)    BY <1>22 DEF FieldTypes, NetTypes, ThreadTypes, Step, RxPc, RxHasStream, CloseSocket
<1>23. CASE Reset(t)
  <2> USE <1>23
  <2>1. FieldTypes'
    <3>1. connected' \in BOOLEAN /\ publishPermitted' \in BOOLEAN /\ crashed' \in BOOLEAN
      BY DEF FieldTypes, Reset, ClearFlags
    <3>2. currentStreamId' \in 0 .. MaxSession /\ videoFrameCacheNumber' \in Int
      BY DEF Reset, ClearFlags
    <3>3. UNCHANGED <<fields, invoked>> BY DEF Reset
    <3> QED BY <3>1, <3>2, <3>3 DEF FieldTypes
  <2>2. NetTypes'    BY DEF NetTypes, Reset
  <2>3. ThreadTypes' /\ RxHasStream' BY DEF ThreadTypes, RxHasStream, Step, RxPc, Reset
  <2> QED BY <2>1, <2>2, <2>3
<1>24. CASE ResetSocket(t)    BY <1>24 DEF FieldTypes, NetTypes, ThreadTypes, Step, RxPc, RxHasStream, ResetSocket
<1>25. CASE ReturnFlag(t)     BY <1>25 DEF FieldTypes, NetTypes, ThreadTypes, Step, RxPc, RxHasStream, ReturnFlag
<1>26. CASE NullPointer(t)    BY <1>26 DEF FieldTypes, NetTypes, ThreadTypes, Step, RxPc, RxHasStream, NullPointer
<1> QED BY <1>1, <1>2, <1>3, <1>4, <1>5, <1>6, <1>7, <1>8, <1>9, <1>10, <1>11, <1>12, <1>13, <1>14,
           <1>15, <1>16, <1>17, <1>18, <1>19, <1>20, <1>21, <1>22, <1>23, <1>24, <1>25, <1>26
        DEF CallerStep

\* A step of a receive thread keeps the types.
LEMMA TypeRx ==
  ASSUME TypeInv, NEW s \in Session, RxStep(s)
  PROVE  TypeInv'
<1> USE ConnAssumption DEF TypeInv, TypeOK, Session, None, Answer, flags, fields, peer, net,
        threads, rxs, RxAt, RxGoto
<1>1. CASE RxExit(s)          BY <1>1 DEF FieldTypes, NetTypes, ThreadTypes, Step, RxPc, RxHasStream, RxExit
<1>2. CASE RxRead(s)
  <2> USE <1>2 DEF RxRead
  <2>1. FieldTypes'  BY DEF FieldTypes
  <2>2. /\ stream \in Session /\ inbox[stream] \in Seq(Answer) /\ inbox[stream] # << >>
    BY DEF RxHasStream, NetTypes
  <2> HIDE DEF Answer
  <2>3. Head(inbox[stream]) \in Answer /\ Tail(inbox[stream]) \in Seq(Answer)
    BY <2>2
  <2>4. NetTypes'    BY <2>2, <2>3 DEF NetTypes
  <2>5. ThreadTypes' /\ RxHasStream' BY <2>2, <2>3 DEF ThreadTypes, RxHasStream, RxPc
  <2> QED BY <2>1, <2>4, <2>5
<1>3. CASE RxControl(s)
  <2> USE <1>3 DEF RxControl
  <2>1. FieldTypes'  BY DEF FieldTypes
  <2>2. NetTypes'    BY SendTypes DEF NetTypes, Message
  <2>3. ThreadTypes' /\ RxHasStream' BY DEF ThreadTypes, RxHasStream, Step, RxPc
  <2> QED BY <2>1, <2>2, <2>3
<1>4. CASE RxConnectResult(s) BY <1>4 DEF FieldTypes, NetTypes, ThreadTypes, Step, RxPc, RxHasStream, RxConnectResult
<1>5. CASE RxNotifyConnect(s) BY <1>5 DEF FieldTypes, NetTypes, ThreadTypes, Step, RxPc, RxHasStream, RxNotifyConnect, Notify
<1>6. CASE RxCreateResult(s)  BY <1>6 DEF FieldTypes, NetTypes, ThreadTypes, Step, RxPc, RxHasStream, RxCreateResult
<1>7. CASE RxFmlePublish(s)
  <2> USE <1>7 DEF RxFmlePublish
  <2>1. FieldTypes'  BY DEF FieldTypes
  <2>2. NetTypes'    BY SendTypes DEF NetTypes, Message
  <2>3. ThreadTypes' /\ RxHasStream' BY DEF ThreadTypes, RxHasStream, Step, RxPc
  <2> QED BY <2>1, <2>2, <2>3
<1>8. CASE RxPublishStart(s)
  <2> USE <1>8 DEF RxPublishStart
  <2>1. FieldTypes'  BY DEF FieldTypes
  <2>2. NetTypes'    BY SendTypes DEF NetTypes, Message
  <2>3. ThreadTypes' /\ RxHasStream' BY DEF ThreadTypes, RxHasStream, Step, RxPc
  <2> QED BY <2>1, <2>2, <2>3
<1>9. CASE RxPermit(s)        BY <1>9 DEF FieldTypes, NetTypes, ThreadTypes, Step, RxPc, RxHasStream, RxPermit
<1>10. CASE RxNotifyPublish(s) BY <1>10 DEF FieldTypes, NetTypes, ThreadTypes, Step, RxPc, RxHasStream, RxNotifyPublish, Notify
<1>11. CASE RxNullPointer(s)  BY <1>11 DEF FieldTypes, NetTypes, ThreadTypes, Step, RxPc, RxHasStream, RxNullPointer
<1> QED BY <1>1, <1>2, <1>3, <1>4, <1>5, <1>6, <1>7, <1>8, <1>9, <1>10, <1>11 DEF RxStep

\* A step of the server or the network keeps the types.
LEMMA TypeServer ==
  ASSUME TypeInv, NEW s \in Session, ServerStep(s)
  PROVE  TypeInv'
<1> USE ConnAssumption DEF TypeInv, TypeOK, Session, Message, Answer, flags, fields, peer, net,
        threads, rxs
<1>1. CASE ServerAnswer(s)
  <2> USE <1>1 DEF ServerAnswer, AnswerTo
  <2>1. FieldTypes'  BY DEF FieldTypes
  <2>2. NetTypes'    BY DEF NetTypes
  <2>3. ThreadTypes' /\ RxHasStream' BY DEF ThreadTypes, RxHasStream, Step, RxPc
  <2> QED BY <2>1, <2>2, <2>3
<1>2. CASE ServerControl(s)
  <2> USE <1>2 DEF ServerControl
  <2>1. FieldTypes'  BY DEF FieldTypes
  <2>2. NetTypes'    BY DEF NetTypes
  <2>3. ThreadTypes' /\ RxHasStream' BY DEF ThreadTypes, RxHasStream, Step, RxPc
  <2> QED BY <2>1, <2>2, <2>3
<1>3. CASE LinkLost(s)
  <2> USE <1>3 DEF LinkLost
  <2>1. FieldTypes'  BY DEF FieldTypes
  <2>2. NetTypes'    BY DEF NetTypes
  <2>3. ThreadTypes' /\ RxHasStream' BY DEF ThreadTypes, RxHasStream, Step, RxPc
  <2> QED BY <2>1, <2>2, <2>3
<1> QED BY <1>1, <1>2, <1>3 DEF ServerStep

LEMMA TypeCache == ASSUME TypeInv, CacheVideoFrame PROVE TypeInv'
BY DEF CacheVideoFrame, TypeInv, TypeOK, FieldTypes, NetTypes, ThreadTypes, RxHasStream, fields,
   net,
       peer, threads, rxs

\* The beginning of a method keeps the types.
LEMMA TypeBegin ==
  ASSUME TypeInv, NEW t \in Caller,
         \/ BeginConnect(t) \/ ConnectBadUrl(t) \/ BeginPublish(t) \/ BeginClose(t)
         \/ \E pc \in {"sendAudio", "sendVideo"} : BeginMedia(t, pc)
  PROVE  TypeInv'
<1> USE ConnAssumption DEF TypeInv, TypeOK, Session, None, flags, fields, peer, net,
        threads, rxs, Goto, Idle, Return, Begin, SetInterrupted
<1>1. CASE BeginConnect(t)  BY <1>1 DEF FieldTypes, NetTypes, ThreadTypes, Step, RxPc, RxHasStream, BeginConnect
<1>2. CASE ConnectBadUrl(t) BY <1>2 DEF FieldTypes, NetTypes, ThreadTypes, Step, RxPc, RxHasStream, ConnectBadUrl
<1>3. CASE BeginPublish(t)  BY <1>3 DEF FieldTypes, NetTypes, ThreadTypes, Step, RxPc, RxHasStream, BeginPublish
<1>4. ASSUME NEW pc \in {"sendAudio", "sendVideo"}, BeginMedia(t, pc) PROVE TypeInv'
  <2> USE <1>4 DEF BeginMedia
  <2>1. FieldTypes'  BY DEF FieldTypes
  <2>2. NetTypes'    BY DEF NetTypes
  <2>3. ThreadTypes' /\ RxHasStream' BY DEF ThreadTypes, RxHasStream, Step
  <2> QED BY <2>1, <2>2, <2>3
<1>5. CASE BeginClose(t)    BY <1>5 DEF FieldTypes, NetTypes, ThreadTypes, Step, RxPc, RxHasStream, BeginClose
<1> QED BY <1>1, <1>2, <1>3, <1>4, <1>5

\* What the client of this module does keeps the types.
LEMMA TypeClient ==
  ASSUME TypeInv, NEW t \in Caller, Call(t) \/ Interrupt(t)
  PROVE  TypeInv'
<1>1. CASE Call(t) BY <1>1, TypeBegin DEF Call
<1>2. CASE Interrupt(t)
  BY <1>2, ExceptBool DEF TypeInv, TypeOK, FieldTypes, NetTypes, ThreadTypes, RxHasStream,
     Interrupt,
     SetInterrupted, flags, fields, peer, net, rxs
<1> QED BY <1>1, <1>2

\* Every step keeps the types.
LEMMA TypeNext == ASSUME TypeInv, [ConnNext]_connVars PROVE TypeInv'
<1>1. CASE ConnNext BY <1>1, TypeCache, TypeClient, TypeCaller, TypeRx, TypeServer DEF ConnNext
<1>2. CASE UNCHANGED connVars
  BY <1>2 DEF connVars, flags, fields, net, peer, threads, rxs, TypeInv, TypeOK, FieldTypes,
     NetTypes,
              ThreadTypes, RxHasStream
<1> QED BY <1>1, <1>2

\* Type correctness of RtmpConnection: whatever the threads, interrupts, answers and failures,
\* every field and every step counter stays in its type.
THEOREM TypeCorrect == Spec => []TypeOK
<1>1. ConnInit => TypeInv BY TypeInit
<1>2. TypeInv /\ [ConnNext]_connVars => TypeInv' BY TypeNext
<1>3. TypeInv => TypeOK BY DEF TypeInv
<1> QED BY <1>1, <1>2, <1>3, PTL DEF Spec

-----------------------------------------------------------------------------
(* Safety. *)

\* The messages M are written to the current stream.
Grows(M) ==
  \A s \in Session :
    /\ (buffer'[s] \cup wire'[s]) = IF s = stream THEN Written(s) \cup M ELSE Written(s)
    /\ wire[s] \subseteq wire'[s]
    /\ s # stream => buffer'[s] = buffer[s] /\ wire'[s] = wire[s]

LEMMA SendGrows == ASSUME NetTypes, NEW m, Send(m) PROVE Grows({m})
<1>1. CASE Deliverable  BY <1>1 DEF Send, Grows, Written, NetTypes
<1>2. CASE ~Deliverable BY <1>2 DEF Send, Grows, Written, NetTypes
<1> QED BY <1>1, <1>2

LEMMA WriteGrows == ASSUME NetTypes, NEW m, Write(m) PROVE Grows({m})
BY DEF Write, Grows, Written, NetTypes

LEMMA FlushGrows == ASSUME NetTypes, Flush PROVE Grows({})
<1>1. CASE Deliverable  BY <1>1 DEF Flush, Grows, Written, NetTypes
<1>2. CASE ~Deliverable BY <1>2 DEF Flush, Grows, Written, NetTypes
<1> QED BY <1>1, <1>2

LEMMA NothingGrows == ASSUME UNCHANGED <<buffer, wire>> PROVE Grows({})
BY DEF Grows, Written

\* The messages of M may follow those of session s.
InOrder(s, M) ==
  /\ "createStream" \in M => "connect" \in Written(s)
  /\ "publish" \in M => "createStream" \in Written(s) /\ connected /\ currentStreamId # None
  /\ "metadata" \in M => "publish" \in Written(s)
  /\ M \cap {"audio", "video", "closeStream"} # {} => "metadata" \in Written(s)

\* Receive threads only go back to their loop, or on to the permission to publish.
RxMoves(M) ==
  \A s \in Session : rx'[s] = rx[s] \/
    (Alive(s) /\ (rx'[s] = "loop" \/ (rx'[s] = "permit" /\ "publish" \in answered[s]
                                       /\ "metadata" \in M)))

\* What a step that only writes messages keeps, whoever takes it.
LEMMA WriterKeeps ==
  ASSUME ConnInv, NEW M, Grows(M), M = {} \/ (stream = socket /\ InOrder(socket, M)), RxMoves(M),
         UNCHANGED <<connected, publishPermitted, currentStreamId, fields, link, answered, inbox>>
  PROVE  OneSession' /\ AnswersKept' /\ FlagState' /\ WireOrder' /\ FlagsOfThisSession'
<1> USE DEF ConnInv, fields
<1>1. OneSession'
  BY DEF OneSession, Grows, RxMoves, Alive, Written
<1>2. WireOrder'
  BY DEF WireOrder, Grows, Written, InOrder
<1>3. FlagsOfThisSession' BY DEF FlagsOfThisSession
<1>4. FlagState'
  BY ConnAssumption DEF FlagState, Grows, Written, FlagsOfThisSession, TypeOK, FieldTypes,
     Session, None
<1>5. AnswersKept'
  BY DEF AnswersKept, Grows, Written, InOrder, RxMoves, Promised, OneSession, Alive
<1> QED BY <1>1, <1>2, <1>3, <1>4, <1>5

\* A thread inside a call, or one that begins a call while all are idle, goes to step pc.
Moves(t, pc) ==
  /\ ~Idle(t) \/ \A u \in Caller : Idle(u)
  /\ Goto(t, pc)

LEMMA MoveKeeps ==
  ASSUME ConnInv, NEW t \in Caller, NEW pc, Moves(t, pc), call'[t] = pc => CallFacts(t)'
  PROVE  OneCall' /\ CallState'
<1> USE DEF ConnInv, TypeOK, ThreadTypes, Moves, Goto, Idle, At
<1>1. /\ call'[t] = pc
      /\ \A u \in Caller : u # t => call[u] = "idle" /\ call'[u] = "idle"
  BY DEF OneCall
<1>2. OneCall' BY <1>1 DEF OneCall
<1>3. CallState' BY <1>1 DEF CallState, CallFacts
<1> QED BY <1>2, <1>3

\* A caller's step that writes the messages M and goes to step pc.
LEMMA WrittenSafe ==
  ASSUME TypeInv', ConnInv, NEW t \in Caller, NEW pc, NEW M,
         Moves(t, pc), call'[t] = pc => CallFacts(t)',
         Grows(M), M = {} \/ (stream = socket /\ InOrder(socket, M)),
         UNCHANGED <<connected, publishPermitted, currentStreamId, fields, link, answered, inbox, rx>>
  PROVE  ConnInv'
<1>1. RxMoves(M) BY DEF RxMoves
<1>2. OneSession' /\ AnswersKept' /\ FlagState' /\ WireOrder' /\ FlagsOfThisSession'
  BY <1>1, WriterKeeps
<1> QED BY <1>2, MoveKeeps DEF ConnInv, TypeInv

\* A caller's step that changes only its own control.
LEMMA QuietSafe ==
  ASSUME TypeInv', ConnInv, NEW t \in Caller, NEW pc, Moves(t, pc), call'[t] = pc => CallFacts(t)',
         UNCHANGED <<connected, publishPermitted, currentStreamId, fields, link, buffer, wire, answered,
                     inbox, rx>>
  PROVE  ConnInv'
<1>1. Grows({}) BY NothingGrows
<1> QED BY <1>1, WrittenSafe

\* connect(): the steps that change the session.
LEMMA ConnectSafe ==
  ASSUME TypeInv, TypeInv', ConnInv, NEW t \in Caller,
         (Idle(t) /\ socket = None /\ (\A u \in Caller : Idle(u)) /\ BeginConnect(t)) \/ OpenSocket(t) \/ OpenFails(t) \/ StartRx(t)
  PROVE  ConnInv'
<1> USE ConnAssumption DEF ConnInv, TypeInv, Session, None
<1>1. CASE Idle(t) /\ socket = None /\ (\A u \in Caller : Idle(u)) /\ BeginConnect(t)
  <2> USE <1>1 DEF BeginConnect
  <2>1. OneCall' /\ CallState'
    <3>1. Moves(t, "open") BY DEF Moves, Begin
    <3> QED BY <3>1, MoveKeeps DEF CallFacts
  <2>2. ~connected /\ ~publishPermitted /\ currentStreamId = None BY DEF FlagsOfThisSession
  <2>3. \A s \in Session : ~Alive(s) /\ s # socket BY DEF OneSession
  <2>4. sockets \in Nat /\ stream \in Nat BY DEF TypeOK, FieldTypes
  <2>5. OneSession'
    BY <2>3, <2>4 DEF OneSession, net, peer, rxs, Alive
  <2>6. AnswersKept' BY DEF AnswersKept, net, peer, rxs, flags, Promised, Written
  <2>7. FlagState' /\ FlagsOfThisSession' BY <2>2 DEF FlagState, FlagsOfThisSession, flags
  <2>8. WireOrder' BY DEF WireOrder, Written, net
  <2> QED BY <2>1, <2>5, <2>6, <2>7, <2>8
<1>2. CASE OpenSocket(t)
  <2> USE <1>2 DEF OpenSocket
  <2>1. OneCall' /\ CallState'
    <3>1. Moves(t, "startRx") BY DEF Moves, At, Idle
    <3> QED BY <3>1, MoveKeeps DEF CallFacts
  <2>2. OneSession'
    <3>1. \A s \in Session : s # socket => link'[s] = link[s] BY DEF TypeOK, NetTypes
    <3>2. socket \in Nat /\ sockets \in Nat BY DEF TypeOK, FieldTypes
    <3> QED BY <3>1, <3>2 DEF OneSession, peer, rxs, fields, Alive
  <2>3. AnswersKept' BY DEF AnswersKept, peer, rxs, flags, Promised, Written
  <2>4. FlagState' /\ FlagsOfThisSession' BY DEF FlagState, FlagsOfThisSession, flags, peer, Written
  <2>5. WireOrder' BY DEF WireOrder, Written
  <2> QED BY <2>1, <2>2, <2>3, <2>4, <2>5
<1>3. CASE OpenFails(t)
  <2> USE <1>3 DEF OpenFails
  <2>1. OneCall' /\ CallState'
    <3>1. Moves(t, "idle") BY DEF Moves, At, Idle, Return
    <3> QED BY <3>1, MoveKeeps DEF CallFacts
  <2>2. OneSession'
    <3>1. \A s \in Session : s # socket => link'[s] = link[s] BY DEF TypeOK, NetTypes
    <3>2. socket \in Nat /\ sockets \in Nat BY DEF TypeOK, FieldTypes
    <3> QED BY <3>1, <3>2 DEF OneSession, peer, rxs, Alive
  <2>3. AnswersKept' BY DEF AnswersKept, peer, rxs, flags, Promised, Written
  <2>4. FlagState' /\ FlagsOfThisSession' BY DEF FlagState, FlagsOfThisSession, flags, peer, Written
  <2>5. WireOrder' BY DEF WireOrder, Written
  <2> QED BY <2>1, <2>2, <2>3, <2>4, <2>5
<1>4. CASE StartRx(t)
  <2> USE <1>4 DEF StartRx
  <2>1. socket # None /\ stream = socket /\ stream \in Session
    BY DEF CallState, CallFacts, At, TypeOK, FieldTypes
  <2>2. OneCall' /\ CallState'
    <3>1. Moves(t, "sendConnect") BY DEF Moves, At, Idle
    <3> QED BY <2>1, <3>1, MoveKeeps DEF CallFacts
  <2>3. OneSession'
    <3>1. \A s \in Session : s # stream => rx'[s] = rx[s] BY DEF TypeOK, ThreadTypes
    <3>2. socket \in Nat /\ sockets \in Nat BY DEF TypeOK, FieldTypes
    <3> QED BY <2>1, <3>1, <3>2 DEF OneSession, net, peer, Alive
  <2>4. AnswersKept'
    BY <2>1 DEF AnswersKept, net, peer, flags, Promised, Written, TypeOK, ThreadTypes
  <2>5. FlagState' /\ FlagsOfThisSession' BY DEF FlagState, FlagsOfThisSession, flags, net, peer, Written
  <2>6. WireOrder' BY DEF WireOrder, Written, net
  <2> QED BY <2>2, <2>3, <2>4, <2>5, <2>6
<1> QED BY <1>1, <1>2, <1>3, <1>4

\* connect(), publish(), media and close(): the steps that write a message.
LEMMA WriteSafe ==
  ASSUME TypeInv, TypeInv', ConnInv, NEW t \in Caller,
         \/ RtmpConnect(t) \/ FlushConnect(t) \/ SendCreateStream(t) \/ FlushCreateStream(t)
         \/ SendAudio(t) \/ SendVideo(t) \/ CloseStream(t)
  PROVE  ConnInv'
<1> USE DEF ConnInv, TypeInv, TypeOK
<1>a. connected => /\ stream = socket /\ socket \in Session
                   /\ "connect" \in Written(socket)
  BY ConnAssumption DEF FlagState, FlagsOfThisSession, AnswersKept, Written, FieldTypes, Session,
     None
<1>b. publishPermitted => "metadata" \in Written(socket) BY DEF FlagState
<1>c. /\ At(t, "sendConnect") \/ At(t, "flushConnect") => stream = socket
      /\ At(t, "sendCreate") \/ At(t, "flushCreate") => connected
      /\ At(t, "sendAudio") \/ At(t, "sendVideo") => MayPublish
  BY DEF CallState, CallFacts, At
<1>1. CASE RtmpConnect(t)
  <2> USE <1>1 DEF RtmpConnect
  <2>1. CASE connected
    <3>1. Grows({}) BY <2>1, NothingGrows
    <3>2. Moves(t, "idle") BY <2>1 DEF Moves, At, Idle, Return
    <3> QED BY <2>1, <3>1, <3>2, WrittenSafe DEF CallFacts, flags, peer, rxs
  <2>2. CASE ~connected
    <3>1. Grows({"connect"}) BY <2>2, WriteGrows
    <3>2. Moves(t, "flushConnect") BY <2>2 DEF Moves, At, Idle
    <3>3. stream = socket /\ socket # None BY <2>2, <1>c
    <3>4. InOrder(socket, {"connect"}) BY DEF InOrder
    <3> QED BY <2>2, <3>1, <3>2, <3>3, <3>4, WrittenSafe DEF CallFacts, flags, peer, rxs, fields
  <2> QED BY <2>1, <2>2
<1>2. CASE FlushConnect(t)
  <2>1. Grows({}) BY <1>2, FlushGrows DEF FlushConnect
  <2>2. Moves(t, "enterConnect") BY <1>2 DEF FlushConnect, Moves, At, Idle
  <2> QED BY <1>2, <2>1, <2>2, WrittenSafe DEF FlushConnect, CallFacts, flags, peer, rxs
<1>3. CASE SendCreateStream(t)
  <2>1. Grows({"createStream"}) BY <1>3, WriteGrows DEF SendCreateStream
  <2>2. Moves(t, "flushCreate") BY <1>3 DEF SendCreateStream, Moves, At, Idle
  <2>3. connected BY <1>3, <1>c DEF SendCreateStream
  <2>4. InOrder(socket, {"createStream"}) BY <2>3, <1>a DEF InOrder
  <2> QED BY <1>3, <1>a, <2>1, <2>2, <2>3, <2>4, WrittenSafe DEF SendCreateStream, CallFacts,
             flags, peer, rxs
<1>4. CASE FlushCreateStream(t)
  <2>1. Grows({}) BY <1>4, FlushGrows DEF FlushCreateStream
  <2>2. Moves(t, "enterPublish") BY <1>4 DEF FlushCreateStream, Moves, At, Idle
  <2> QED BY <1>4, <2>1, <2>2, WrittenSafe DEF FlushCreateStream, CallFacts, flags, peer, rxs
<1>5. CASE SendAudio(t)
  <2>1. Grows({"audio"}) BY <1>5, SendGrows DEF SendAudio
  <2>2. Moves(t, "idle") BY <1>5 DEF SendAudio, Moves, At, Idle
  <2>3. MayPublish BY <1>5, <1>c DEF SendAudio
  <2>4. InOrder(socket, {"audio"}) BY <2>3, <1>b DEF InOrder, MayPublish
  <2> QED BY <1>5, <1>a, <2>1, <2>2, <2>3, <2>4, WrittenSafe DEF SendAudio, CallFacts, MayPublish,
             flags, peer, rxs
<1>6. CASE SendVideo(t)
  <2>1. Grows({"video"}) BY <1>6, SendGrows DEF SendVideo
  <2>2. Moves(t, "idle") BY <1>6 DEF SendVideo, Moves, At, Idle
  <2>3. MayPublish BY <1>6, <1>c DEF SendVideo
  <2>4. InOrder(socket, {"video"}) BY <2>3, <1>b DEF InOrder, MayPublish
  <2> QED BY <1>6, <1>a, <2>1, <2>2, <2>3, <2>4, WrittenSafe DEF SendVideo, CallFacts, MayPublish,
             peer, rxs
<1>7. CASE CloseStream(t)
  <2>1. Moves(t, "shutdown") BY <1>7 DEF CloseStream, Moves, At, Idle
  <2>2. CASE MayPublish
    <3>1. Grows({"closeStream"}) BY <1>7, <2>2, SendGrows DEF CloseStream
    <3>2. InOrder(socket, {"closeStream"}) BY <2>2, <1>b DEF InOrder, MayPublish
    <3> QED BY <1>7, <1>a, <2>1, <2>2, <3>1, <3>2, WrittenSafe DEF CloseStream, CallFacts,
               MayPublish, flags, peer, rxs
  <2>3. CASE ~MayPublish
    <3>1. Grows({}) BY <1>7, <2>3, NothingGrows DEF CloseStream
    <3> QED BY <1>7, <2>1, <3>1, WrittenSafe DEF CloseStream, CallFacts, flags, peer, rxs
  <2> QED BY <2>2, <2>3
<1> QED BY <1>1, <1>2, <1>3, <1>4, <1>5, <1>6, <1>7

\* The waits and checks of connect() and publish(), the returns and the uncaught exception.
LEMMA WaitSafe ==
  ASSUME TypeInv, TypeInv', ConnInv, NEW t \in Caller,
         \/ Wait(t, "enterConnect", "waitConnect", "checkConnect")
         \/ Timeout(t, "waitConnect", "checkConnect")
         \/ WaitInterrupted(t, "waitConnect", "checkConnect")
         \/ Wait(t, "enterPublish", "waitPublish", "checkPublish")
         \/ Timeout(t, "waitPublish", "checkPublish")
         \/ WaitInterrupted(t, "waitPublish", "checkPublish")
         \/ CheckConnected(t) \/ CheckPermitted(t) \/ ReturnFlag(t) \/ NullPointer(t)
  PROVE  ConnInv'
<1>1. CASE Wait(t, "enterConnect", "waitConnect", "checkConnect")
  <2>1. CASE interrupted[t]
    <3>1. Moves(t, "checkConnect") BY <1>1, <2>1 DEF Wait, Moves, At, Idle, Return, Begin, SetInterrupted
    <3> QED BY <1>1, <2>1, <3>1, QuietSafe DEF Wait, CallFacts, flags, net, peer, rxs
  <2>2. CASE ~interrupted[t]
    <3>1. Moves(t, "waitConnect") BY <1>1, <2>2 DEF Wait, Moves, At, Idle, Return, Begin, SetInterrupted
    <3> QED BY <1>1, <2>2, <3>1, QuietSafe DEF Wait, CallFacts, flags, net, peer, rxs
  <2> QED BY <2>1, <2>2
<1>2. CASE Timeout(t, "waitConnect", "checkConnect")
  <2>1. Moves(t, "checkConnect") BY <1>2 DEF Timeout, Moves, At, Idle, Return, Begin
  <2> QED BY <1>2, <2>1, QuietSafe DEF Timeout, CallFacts, flags, net, peer, rxs
<1>3. CASE WaitInterrupted(t, "waitConnect", "checkConnect")
  <2>1. Moves(t, "checkConnect") BY <1>3 DEF WaitInterrupted, Moves, At, Idle, Return, Begin, SetInterrupted
  <2> QED BY <1>3, <2>1, QuietSafe DEF WaitInterrupted, CallFacts, flags, net, peer, rxs
<1>4. CASE Wait(t, "enterPublish", "waitPublish", "checkPublish")
  <2>1. CASE interrupted[t]
    <3>1. Moves(t, "checkPublish") BY <1>4, <2>1 DEF Wait, Moves, At, Idle, Return, Begin, SetInterrupted
    <3> QED BY <1>4, <2>1, <3>1, QuietSafe DEF Wait, CallFacts, flags, net, peer, rxs
  <2>2. CASE ~interrupted[t]
    <3>1. Moves(t, "waitPublish") BY <1>4, <2>2 DEF Wait, Moves, At, Idle, Return, Begin, SetInterrupted
    <3> QED BY <1>4, <2>2, <3>1, QuietSafe DEF Wait, CallFacts, flags, net, peer, rxs
  <2> QED BY <2>1, <2>2
<1>5. CASE Timeout(t, "waitPublish", "checkPublish")
  <2>1. Moves(t, "checkPublish") BY <1>5 DEF Timeout, Moves, At, Idle, Return, Begin
  <2> QED BY <1>5, <2>1, QuietSafe DEF Timeout, CallFacts, flags, net, peer, rxs
<1>6. CASE WaitInterrupted(t, "waitPublish", "checkPublish")
  <2>1. Moves(t, "checkPublish") BY <1>6 DEF WaitInterrupted, Moves, At, Idle, Return, Begin, SetInterrupted
  <2> QED BY <1>6, <2>1, QuietSafe DEF WaitInterrupted, CallFacts, flags, net, peer, rxs
<1>7. CASE CheckConnected(t)
  <2>1. CASE connected
    <3>1. Moves(t, "idle") BY <1>7, <2>1 DEF CheckConnected, Moves, At, Idle, Return, Begin
    <3> QED BY <1>7, <2>1, <3>1, QuietSafe DEF CheckConnected, CallFacts, flags, net, peer, rxs
  <2>2. CASE ~connected
    <3>1. Moves(t, "shutdown") BY <1>7, <2>2 DEF CheckConnected, Moves, At, Idle, Return, Begin
    <3> QED BY <1>7, <2>2, <3>1, QuietSafe DEF CheckConnected, CallFacts, flags, net, peer, rxs
  <2> QED BY <2>1, <2>2
<1>8. CASE CheckPermitted(t)
  <2>1. CASE publishPermitted
    <3>1. Moves(t, "idle") BY <1>8, <2>1 DEF CheckPermitted, Moves, At, Idle, Return, Begin
    <3> QED BY <1>8, <2>1, <3>1, QuietSafe DEF CheckPermitted, CallFacts, flags, net, peer, rxs
  <2>2. CASE ~publishPermitted
    <3>1. Moves(t, "shutdown") BY <1>8, <2>2 DEF CheckPermitted, Moves, At, Idle, Return, Begin
    <3> QED BY <1>8, <2>2, <3>1, QuietSafe DEF CheckPermitted, CallFacts, flags, net, peer, rxs
  <2> QED BY <2>1, <2>2
<1>9. CASE ReturnFlag(t)
  <2>1. Moves(t, "idle") BY <1>9 DEF ReturnFlag, Moves, At, Idle, Return, Begin
  <2> QED BY <1>9, <2>1, QuietSafe DEF ReturnFlag, CallFacts, flags, net, peer, rxs
<1>10. CASE NullPointer(t)
  <2>1. Grows({}) /\ RxMoves({}) BY <1>10, NothingGrows DEF NullPointer, RxMoves, net, rxs
  <2>2. OneSession' /\ AnswersKept' /\ FlagState' /\ WireOrder' /\ FlagsOfThisSession'
    BY <1>10, <2>1, WriterKeeps DEF NullPointer, flags, net, peer, rxs
  <2>3. OneCall' /\ CallState'
    BY <1>10 DEF NullPointer, ConnInv, OneCall, CallState, CallFacts, Idle, At, MayPublish, Alive,
       Written, threads, flags, fields, net, peer, rxs
  <2> QED BY <2>2, <2>3 DEF ConnInv, TypeInv
<1> QED BY <1>1, <1>2, <1>3, <1>4, <1>5, <1>6, <1>7, <1>8, <1>9, <1>10

\* The beginning of a call, when all threads are idle.
LEMMA BeginSafe ==
  ASSUME TypeInv, TypeInv', ConnInv, NEW t \in Caller, \A u \in Caller : Idle(u),
         \/ ConnectBadUrl(t) \/ BeginPublish(t) \/ BeginClose(t)
         \/ \E pc \in {"sendAudio", "sendVideo"} : BeginMedia(t, pc)
         \/ socket = None /\ BeginConnect(t)
  PROVE  ConnInv'
<1>a. \A u \in Caller : Idle(u) OBVIOUS
<1>1. CASE ConnectBadUrl(t)
  <2>1. Moves(t, "idle") BY <1>a, <1>1 DEF ConnectBadUrl, Moves, At, Idle, Return, Begin
  <2> QED BY <1>1, <2>1, QuietSafe DEF ConnectBadUrl, CallFacts, flags, net, peer, rxs
<1>2. CASE BeginPublish(t)
  <2>1. CASE connected /\ currentStreamId = None
    <3>1. Moves(t, "sendCreate") BY <1>a, <1>2, <2>1 DEF BeginPublish, Moves, At, Idle, Return, Begin
    <3> QED BY <1>2, <2>1, <3>1, QuietSafe DEF BeginPublish, CallFacts, flags, net, peer, rxs
  <2>2. CASE ~connected \/ currentStreamId # None
    <3>1. Moves(t, "idle") BY <1>a, <1>2, <2>2 DEF BeginPublish, Moves, At, Idle, Return, Begin
    <3> QED BY <1>2, <2>2, <3>1, QuietSafe DEF BeginPublish, CallFacts, flags, net, peer, rxs
  <2> QED BY <2>1, <2>2
<1>3. ASSUME NEW pc \in {"sendAudio", "sendVideo"}, BeginMedia(t, pc) PROVE ConnInv'
  <2>1. CASE MayPublish
    <3>1. Moves(t, pc) BY <1>a, <1>3, <2>1 DEF BeginMedia, Moves
    <3> QED BY <1>3, <2>1, <3>1, QuietSafe DEF BeginMedia, CallFacts, MayPublish, flags, net,
               peer, rxs
  <2>2. CASE ~MayPublish
    <3>1. Moves(t, "idle") BY <1>a, <1>3, <2>2 DEF BeginMedia, Moves
    <3> QED BY <1>3, <2>2, <3>1, QuietSafe DEF BeginMedia, CallFacts, flags, net, peer, rxs
  <2> QED BY <2>1, <2>2
<1>4. CASE BeginClose(t)
  <2>1. CASE socket # None
    <3>1. Moves(t, "closeStream") BY <1>a, <1>4, <2>1 DEF BeginClose, Moves, At, Idle, Return, Begin
    <3> QED BY <1>4, <2>1, <3>1, QuietSafe DEF BeginClose, CallFacts, flags, net, peer, rxs
  <2>2. CASE socket = None
    <3>1. Moves(t, "shutdown") BY <1>a, <1>4, <2>2 DEF BeginClose, Moves, At, Idle, Return, Begin
    <3> QED BY <1>4, <2>2, <3>1, QuietSafe DEF BeginClose, CallFacts, flags, net, peer, rxs
  <2> QED BY <2>1, <2>2
<1>5. CASE socket = None /\ BeginConnect(t)
  BY <1>5, <1>a, ConnectSafe
<1> QED BY <1>1, <1>2, <1>3, <1>4, <1>5

LEMMA CallSafe == ASSUME TypeInv, TypeInv', ConnInv, NEW t \in Caller, Call(t) PROVE ConnInv'
BY BeginSafe DEF Call

\* A join() of the thread t waits for the receive thread, and is not ended by an interrupt.
Joins(t) == JoinRx(t) => RxEnded(t)

\* shutdown() and reset(): the steps that end the session.
LEMMA ShutdownSafe ==
  ASSUME TypeInv, TypeInv', ConnInv, NEW t \in Caller, Joins(t),
         \/ ShutdownSocket(t) \/ InterruptRx(t) \/ JoinRx(t) \/ CloseSocket(t) \/ Reset(t)
         \/ ResetSocket(t)
  PROVE  ConnInv'
<1> USE DEF ConnInv, TypeInv, TypeOK
<1>a. socket \in Nat /\ sockets \in Nat /\ stream \in Nat
  BY ConnAssumption DEF FieldTypes
<1>1. CASE ShutdownSocket(t)
  <2>1. CASE socket = None
    <3>1. Moves(t, "reset") BY <1>1, <2>1 DEF ShutdownSocket, Moves, At, Idle
    <3>2. \A s \in Session : ~Alive(s) BY <2>1, ConnAssumption DEF OneSession, Session, None
    <3> QED BY <1>1, <2>1, <3>1, <3>2, QuietSafe
            DEF ShutdownSocket, CallFacts, Alive, flags, peer, rxs, fields
  <2>2. CASE socket # None
    <3> USE <1>1, <2>2 DEF ShutdownSocket
    <3>1. OneCall' /\ CallState'
      <4>1. Moves(t, "interruptRx") BY DEF Moves, At, Idle
      <4> QED BY <4>1, MoveKeeps DEF CallFacts
    <3>2. \A s \in Session : s # socket => link'[s] = link[s] BY DEF NetTypes
    <3>3. OneSession' BY <1>a, <3>2 DEF OneSession, peer, rxs, fields, Alive
    <3>4. AnswersKept' BY DEF AnswersKept, peer, rxs, flags, Promised, Written
    <3>5. FlagState' /\ FlagsOfThisSession' BY DEF FlagState, FlagsOfThisSession, flags, fields, peer, Written
    <3>6. WireOrder' BY DEF WireOrder, Written
    <3> QED BY <3>1, <3>3, <3>4, <3>5, <3>6
  <2> QED BY <2>1, <2>2
<1>2. CASE InterruptRx(t)
  <2>1. CASE rxPacketHandler # None
    <3>1. Moves(t, "joinRx") BY <1>2, <2>1 DEF InterruptRx, Moves, At, Idle
    <3>2. joining'[t] = rxPacketHandler BY <1>2, <2>1 DEF InterruptRx, ThreadTypes
    <3> QED BY <1>2, <2>1, <3>1, <3>2, QuietSafe DEF InterruptRx, CallFacts, flags, net, peer,
               fields
  <2>2. CASE rxPacketHandler = None
    <3>1. Moves(t, "closeSocket") BY <1>2, <2>2 DEF InterruptRx, Moves, At, Idle
    <3>2. \A s \in Session : ~Alive(s) BY <2>2, ConnAssumption DEF OneSession, Session, None
    <3> QED BY <1>2, <2>2, <3>1, <3>2, QuietSafe DEF InterruptRx, CallFacts, Alive, flags, net,
               peer, fields
  <2> QED BY <2>1, <2>2
<1>3. CASE JoinRx(t)
  <2> USE <1>3 DEF JoinRx
  <2>1. RxEnded(t) BY <1>3 DEF Joins
  <2>2. rx[rxPacketHandler] = "dead" BY <2>1 DEF RxEnded, CallState, CallFacts, At
  <2>3. \A s \in Session : ~Alive(s) BY <2>2 DEF OneSession, Alive
  <2>4. OneCall' /\ CallState'
    <3>1. Moves(t, "closeSocket") BY <2>1, <2>2 DEF Moves, At, Idle, RxEnded
    <3> QED BY <2>3, <3>1, MoveKeeps DEF CallFacts, Alive, rxs
  <2>5. OneSession' BY <2>3 DEF OneSession, net, peer, rxs, Alive
  <2>6. AnswersKept' BY DEF AnswersKept, net, peer, rxs, flags, Promised, Written
  <2>7. FlagState' /\ FlagsOfThisSession' BY DEF FlagState, FlagsOfThisSession, flags, net, peer, Written
  <2>8. WireOrder' BY DEF WireOrder, Written, net
  <2> QED BY <2>4, <2>5, <2>6, <2>7, <2>8
<1>4. CASE CloseSocket(t)
  <2> USE <1>4 DEF CloseSocket
  <2>1. \A s \in Session : ~Alive(s) BY DEF CallState, CallFacts, At
  <2>2. \A s \in Session : link'[s] = IF s = socket THEN "closed" ELSE link[s] OBVIOUS
  <2>3. OneCall' /\ CallState'
    <3>1. Moves(t, "reset") BY DEF Moves, At, Idle
    <3>2. socket # None => socket \in Session BY <1>a DEF FieldTypes, Session, None
    <3> QED BY <2>1, <2>2, <3>1, <3>2, MoveKeeps DEF CallFacts, Alive, rxs, fields
  <2>4. OneSession' BY <1>a, <2>2 DEF OneSession, peer, rxs, fields, Alive
  <2>5. AnswersKept' BY DEF AnswersKept, peer, rxs, flags, Promised, Written
  <2>6. FlagState' /\ FlagsOfThisSession' BY DEF FlagState, FlagsOfThisSession, flags, fields, peer, Written
  <2>7. WireOrder' BY DEF WireOrder, Written
  <2> QED BY <2>3, <2>4, <2>5, <2>6, <2>7
<1>5. CASE Reset(t)
  <2> USE <1>5 DEF Reset, ClearFlags
  <2>1. \A s \in Session : ~Alive(s) BY DEF CallState, CallFacts, At
  <2>2. \A s \in Session : s = socket => link[s] = "closed"
    BY ConnAssumption DEF CallState, CallFacts, At, Session, None
  <2>3. \A s \in Session : buffer'[s] = {} /\ wire'[s] = {} /\ answered'[s] = {} /\ inbox'[s] = << >>
    BY DEF OneSession
  <2>4. OneCall' /\ CallState'
    <3>1. Moves(t, "resetSocket") BY DEF Moves, At, Idle
    <3>2. socket # None => socket \in Session BY <1>a DEF FieldTypes, Session, None
    <3> QED BY <2>1, <2>2, <2>3, <3>1, <3>2, MoveKeeps DEF CallFacts, Alive, Written, rxs, fields
  <2>5. OneSession' BY <1>a, <2>1, <2>2, <2>3 DEF OneSession, rxs, fields, Alive, None
  <2>6. AnswersKept' BY <2>1, <2>3 DEF AnswersKept, rxs, Promised, Written, Alive
  <2>7. FlagState' /\ FlagsOfThisSession' BY DEF FlagState, FlagsOfThisSession
  <2>8. WireOrder' BY <2>3 DEF WireOrder, Written
  <2> QED BY <2>4, <2>5, <2>6, <2>7, <2>8
<1>6. CASE ResetSocket(t)
  <2> USE <1>6 DEF ResetSocket
  <2>1. /\ \A s \in Session : ~Alive(s)
        /\ \A s \in Session : Written(s) = {} /\ answered[s] = {} /\ inbox[s] = << >>
        /\ ~connected /\ ~publishPermitted /\ currentStreamId = None
    BY DEF CallState, CallFacts, At
  <2>2. \A s \in Session : s = socket => link[s] = "closed"
    BY ConnAssumption DEF CallState, CallFacts, At, Session, None
  <2>3. OneCall' /\ CallState'
    <3>1. Moves(t, "return") BY DEF Moves, At, Idle
    <3> QED BY <2>1, <3>1, MoveKeeps DEF CallFacts, Alive, rxs
  <2>4. OneSession' BY <1>a, <2>1, <2>2 DEF OneSession, Written, rxs, net, peer, Alive, None
  <2>5. AnswersKept' BY DEF AnswersKept, net, peer, rxs, flags, Promised, Written
  <2>6. FlagState' /\ FlagsOfThisSession' BY <2>1 DEF FlagState, FlagsOfThisSession, flags
  <2>7. WireOrder' BY DEF WireOrder, Written, net
  <2> QED BY <2>3, <2>4, <2>5, <2>6, <2>7
<1> QED BY <1>1, <1>2, <1>3, <1>4, <1>5, <1>6

\* Every step of a call.
LEMMA CallerSafe ==
  ASSUME TypeInv, TypeInv', ConnInv, NEW t \in Caller, Joins(t), CallerStep(t)
  PROVE  ConnInv'
BY ConnectSafe, WriteSafe, WaitSafe, ShutdownSafe DEF CallerStep

\* A step of a receive thread leaves the callers where they are, or ends their waits.
Wakes == \A t \in Caller :
  \/ call'[t] = call[t]
  \/ call[t] \in {"waitConnect", "waitPublish"} /\ call'[t] \in {"checkConnect", "checkPublish"}

LEMMA RxKeepsCalls ==
  ASSUME ConnInv, NEW s \in Session, Alive(s), Wakes, rx' = [rx EXCEPT ![s] = rx'[s]],
         UNCHANGED <<fields, link, joining>>,
         connected => connected', MayPublish => MayPublish'
  PROVE  OneCall' /\ CallState'
<1>1. ASSUME NEW t \in Caller
      PROVE  call'[t] = call[t] \/ (call[t] # "idle" /\ call'[t] \in {"checkConnect", "checkPublish"})
  BY DEF Wakes
<1> USE DEF ConnInv, fields
<1>2. OneCall' BY <1>1 DEF OneCall, Idle, At
<1>3. \A t \in Caller : call[t] \notin {"closeSocket", "reset", "resetSocket", "return"}
  BY DEF CallState, CallFacts
<1>4. CallState'
  <2>1. \A t \in Caller : CallFacts(t) BY DEF CallState
  <2> QED BY <1>1, <1>3, <2>1 DEF CallState, CallFacts
<1> QED BY <1>2, <1>4

\* A receive thread writes the messages M and goes on as RxMoves allows.
LEMMA RxWriteSafe ==
  ASSUME TypeInv', ConnInv, NEW s \in Session, Alive(s), Wakes, rx' = [rx EXCEPT ![s] = rx'[s]],
         NEW M, Grows(M), M = {} \/ InOrder(socket, M), RxMoves(M),
         UNCHANGED <<connected, publishPermitted, currentStreamId, fields, link, answered, inbox, joining>>
  PROVE  ConnInv'
<1>1. stream = socket BY DEF ConnInv, OneSession
<1>2. OneSession' /\ AnswersKept' /\ FlagState' /\ WireOrder' /\ FlagsOfThisSession'
  BY <1>1, WriterKeeps
<1>3. OneCall' /\ CallState' BY RxKeepsCalls DEF MayPublish
<1> QED BY <1>2, <1>3 DEF ConnInv, TypeInv

LEMMA RxSafe ==
  ASSUME TypeInv, TypeInv', ConnInv, NEW s \in Session, RxStep(s)
  PROVE  ConnInv'
<1> USE DEF ConnInv, TypeInv, TypeOK
<1>a. Alive(s) BY DEF RxStep, RxExit, RxRead, RxControl, RxConnectResult, RxNotifyConnect, RxCreateResult,
       RxFmlePublish, RxPublishStart, RxPermit, RxNotifyPublish, RxNullPointer, RxAt, Alive
<1>b. socket = s /\ stream = s BY <1>a DEF OneSession
<1>c. rx \in [Session -> RxPc] BY DEF ThreadTypes
<1>1. CASE RxExit(s)
  <2>1. OneCall' /\ CallState'
    BY <1>1, <1>a, <1>c, RxKeepsCalls DEF RxExit, RxGoto, Wakes, MayPublish, flags, net, threads
  <2>2. OneSession' BY <1>1, <1>a, <1>c DEF RxExit, RxGoto, OneSession, Alive, net, peer, fields
  <2>3. AnswersKept'
    BY <1>1, <1>c DEF RxExit, RxGoto, AnswersKept, net, peer, flags, Promised, Written
  <2>4. FlagState' /\ FlagsOfThisSession' /\ WireOrder'
    BY <1>1 DEF RxExit, FlagState, FlagsOfThisSession, WireOrder, flags, fields, net, peer, Written
  <2> QED BY <2>1, <2>2, <2>3, <2>4
<1>2. CASE RxRead(s)
  <2> USE <1>2 DEF RxRead
  <2>1. OneCall' /\ CallState'
    BY <1>a, <1>c, RxKeepsCalls DEF RxGoto, Wakes, MayPublish, flags, threads
  <2>2. inbox[s] \in Seq(Answer) /\ inbox[s] # << >> /\ inbox \in [Session -> Seq(Answer)]
    BY <1>b DEF NetTypes
  <2>3. /\ inbox'[s] = Tail(inbox[s]) /\ rx'[s] = Head(inbox[s])
        /\ \A r \in Session : r # s => inbox'[r] = inbox[r] /\ rx'[r] = rx[r]
    BY <1>b, <1>c, <2>2 DEF RxGoto
  <2>4. Promised(answered[s], Head(inbox[s])) /\ \A i \in 1 .. Len(Tail(inbox[s])) : Promised(answered[s], Tail(inbox[s])[i])
    <3>1. \A i \in 1 .. Len(inbox[s]) : Promised(answered[s], inbox[s][i]) BY DEF AnswersKept
    <3> QED BY <2>2, <3>1
  <2>5. OneSession' BY <1>a, <1>b, <2>3 DEF OneSession, Alive, fields
  <2>6. Head(inbox[s]) # "permit" BY <2>2 DEF Answer
  <2>7. AnswersKept'
    BY <2>3, <2>4, <2>6 DEF AnswersKept, flags, Promised, Written
  <2>8. FlagState' /\ FlagsOfThisSession' /\ WireOrder'
    BY DEF FlagState, FlagsOfThisSession, WireOrder, flags, fields, Written
  <2> QED BY <2>1, <2>5, <2>7, <2>8
<1>3. CASE RxControl(s)
  <2> USE <1>3 DEF RxControl
  <2>1. Grows({"control"}) /\ InOrder(socket, {"control"}) BY SendGrows DEF InOrder
  <2>2. RxMoves({"control"}) BY <1>a, <1>c DEF RxMoves, RxGoto
  <2> QED BY <1>a, <1>c, <2>1, <2>2, RxWriteSafe DEF RxGoto, Wakes, flags, peer, threads
<1>4. CASE RxConnectResult(s)
  <2> USE <1>4 DEF RxConnectResult
  <2>1. OneCall' /\ CallState'
    BY <1>a, <1>c, RxKeepsCalls DEF RxGoto, Wakes, MayPublish, net, threads
  <2>2. "connect" \in answered[s] BY DEF AnswersKept, Promised, RxAt
  <2>3. OneSession' BY <1>a, <1>c DEF OneSession, Alive, RxGoto, net, peer, fields
  <2>4. AnswersKept' BY <1>c DEF AnswersKept, RxGoto, net, peer, Promised, Written
  <2>5. FlagState' /\ FlagsOfThisSession'
    BY <1>b, <2>2, ConnAssumption DEF FlagState, FlagsOfThisSession, fields, net, peer, Written,
       Session, None
  <2>6. WireOrder' BY DEF WireOrder, net, Written
  <2> QED BY <2>1, <2>3, <2>4, <2>5, <2>6
<1>5. CASE RxNotifyConnect(s)
  <2> USE <1>5 DEF RxNotifyConnect
  <2>1. Grows({}) /\ RxMoves({}) BY <1>a, <1>c, NothingGrows DEF RxMoves, RxGoto, net
  <2> QED BY <1>a, <1>c, <2>1, RxWriteSafe DEF RxGoto, Notify, Wakes, flags, net, peer
<1>6. CASE RxCreateResult(s)
  <2> USE <1>6 DEF RxCreateResult
  <2>1. OneCall' /\ CallState'
    <3>1. currentStreamId' # None BY <1>b, ConnAssumption DEF Session, None
    <3> QED BY <1>a, <1>c, <3>1, RxKeepsCalls DEF RxGoto, Wakes, MayPublish, net, threads
  <2>2. "createStream" \in answered[s] BY DEF AnswersKept, Promised, RxAt
  <2>3. OneSession' BY <1>a, <1>c DEF OneSession, Alive, RxGoto, net, peer, fields
  <2>4. AnswersKept'
    BY <1>b, <1>c, ConnAssumption DEF AnswersKept, RxGoto, net, peer, Promised, Written, Session,
       None
  <2>5. FlagState' /\ FlagsOfThisSession'
    BY <1>b, <2>2, ConnAssumption DEF FlagState, FlagsOfThisSession, fields, net, peer, Written,
       Session, None
  <2>6. WireOrder' BY DEF WireOrder, net, Written
  <2> QED BY <2>1, <2>3, <2>4, <2>5, <2>6
<1>7. CASE RxFmlePublish(s)
  <2> USE <1>7 DEF RxFmlePublish
  <2>1. CASE connected /\ currentStreamId # None
    <3>1. Grows({"publish"}) BY <2>1, SendGrows
    <3>2. InOrder(socket, {"publish"}) BY <1>b, <2>1 DEF InOrder, FlagsOfThisSession, AnswersKept, Written
    <3>3. RxMoves({"publish"}) BY <1>a, <1>c DEF RxMoves, RxGoto
    <3> QED BY <1>a, <1>c, <3>1, <3>2, <3>3, RxWriteSafe DEF RxGoto, Wakes, flags, peer, threads
  <2>2. CASE ~connected \/ currentStreamId = None
    <3>1. Grows({}) /\ RxMoves({}) BY <1>a, <1>c, <2>2, NothingGrows DEF RxMoves, RxGoto
    <3> QED BY <1>a, <1>c, <3>1, RxWriteSafe DEF RxGoto, Wakes, flags, peer, threads
  <2> QED BY <2>1, <2>2
<1>8. CASE RxPublishStart(s)
  <2> USE <1>8 DEF RxPublishStart
  <2>1. "publish" \in answered[s] BY DEF AnswersKept, Promised, RxAt
  <2>2. "publish" \in Written(s) /\ connected /\ currentStreamId # None
    BY <2>1 DEF AnswersKept, Written
  <2>3. Grows({"metadata"}) BY <2>2, SendGrows
  <2>4. InOrder(socket, {"metadata"}) BY <1>b, <2>2 DEF InOrder
  <2>5. RxMoves({"metadata"}) BY <1>a, <1>c, <2>1 DEF RxMoves, RxGoto
  <2> QED BY <1>a, <1>c, <2>3, <2>4, <2>5, RxWriteSafe DEF RxGoto, Wakes, flags, peer, threads
<1>9. CASE RxPermit(s)
  <2> USE <1>9 DEF RxPermit
  <2>1. OneCall' /\ CallState'
    BY <1>a, <1>c, RxKeepsCalls DEF RxGoto, Wakes, MayPublish, net, threads
  <2>2. "publish" \in answered[s] /\ "metadata" \in Written(s) BY DEF AnswersKept, RxAt
  <2>3. OneSession' BY <1>a, <1>c DEF OneSession, Alive, RxGoto, net, peer, fields
  <2>4. AnswersKept' BY <1>c DEF AnswersKept, RxGoto, net, peer, Promised, Written
  <2>5. FlagState' /\ FlagsOfThisSession'
    BY <1>b, <2>2, ConnAssumption DEF FlagState, FlagsOfThisSession, fields, net, peer, Written,
       Session, None
  <2>6. WireOrder' BY DEF WireOrder, net, Written
  <2> QED BY <2>1, <2>3, <2>4, <2>5, <2>6
<1>10. CASE RxNotifyPublish(s)
  <2> USE <1>10 DEF RxNotifyPublish
  <2>1. Grows({}) /\ RxMoves({}) BY <1>a, <1>c, NothingGrows DEF RxMoves, RxGoto, net
  <2> QED BY <1>a, <1>c, <2>1, RxWriteSafe DEF RxGoto, Notify, Wakes, flags, net, peer
<1>11. CASE RxNullPointer(s)
  <2> USE <1>11 DEF RxNullPointer
  <2>1. Grows({}) /\ RxMoves({}) BY NothingGrows DEF RxMoves, net, rxs
  <2> QED BY <1>a, <1>c, <2>1, RxWriteSafe DEF Wakes, flags, net, peer, threads, rxs
<1> QED BY <1>1, <1>2, <1>3, <1>4, <1>5, <1>6, <1>7, <1>8, <1>9, <1>10, <1>11 DEF RxStep

\* The server answers, sends a control message, or the connection is lost.
LEMMA ServerSafe ==
  ASSUME TypeInv, TypeInv', ConnInv, NEW s \in Session, ServerStep(s)
  PROVE  ConnInv'
<1> USE DEF ConnInv, TypeInv, TypeOK
<1>a. link[s] = "open" BY DEF ServerStep, ServerAnswer, ServerControl, LinkLost
<1>b. s <= sockets BY <1>a, ConnAssumption DEF OneSession, FieldTypes, Session
<1>1. s = socket BY <1>a, <1>b DEF OneSession
<1>2. OneCall' /\ CallState'
  <2>1. UNCHANGED <<call, joining, rx, connected, publishPermitted, currentStreamId, fields>>
    BY DEF ServerStep, ServerAnswer, ServerControl, LinkLost, flags, threads, rxs
  <2>2. \A t \in Caller : call[t] \notin {"reset", "resetSocket"}
    BY <1>a, <1>1, ConnAssumption DEF CallState, CallFacts, Session, None
  <2>3. OneCall' BY <2>1 DEF OneCall, Idle, At
  <2>4. ASSUME NEW t \in Caller PROVE CallFacts(t)'
    <3>1. CallFacts(t) BY DEF CallState
    <3> QED BY <2>1, <2>2, <3>1 DEF CallFacts, Alive, MayPublish, fields
  <2> QED BY <2>3, <2>4 DEF CallState
<1>3. CASE ServerAnswer(s)
  <2> USE <1>3 DEF ServerAnswer
  <2>1. PICK m \in (wire[s] \ answered[s]) \cap {"connect", "createStream", "publish"} :
          /\ answered' = [answered EXCEPT ![s] = @ \cup {m}]
          /\ inbox' = [inbox EXCEPT ![s] = Append(@, AnswerTo(m))]
    OBVIOUS
  <2>2. /\ answered'[s] = answered[s] \cup {m}
        /\ \A r \in Session : r # s => answered'[r] = answered[r] /\ inbox'[r] = inbox[r]
        /\ \A r \in Session : answered[r] \subseteq answered'[r]
    BY <2>1 DEF NetTypes
  <2>3. Promised(answered'[s], AnswerTo(m)) BY <2>2 DEF Promised, AnswerTo
  <2>4. inbox[s] \in Seq(Answer) /\ inbox'[s] = Append(inbox[s], AnswerTo(m)) BY <2>1 DEF NetTypes
  <2>5. \A i \in 1 .. Len(inbox'[s]) : Promised(answered'[s], inbox'[s][i])
    <3>1. \A i \in 1 .. Len(inbox[s]) : Promised(answered'[s], inbox[s][i]) BY <2>2 DEF AnswersKept, Promised
    <3>2. AnswerTo(m) \in Answer BY DEF AnswerTo, Answer
    <3>3. ASSUME NEW i \in 1 .. Len(inbox'[s]) PROVE Promised(answered'[s], inbox'[s][i])
      <4>1. CASE i = Len(inbox[s]) + 1
        <5>1. inbox'[s][i] = AnswerTo(m) BY <2>4, <3>2, <4>1
        <5> QED BY <2>3, <5>1 DEF Promised
      <4>2. CASE i # Len(inbox[s]) + 1
        <5>1. i \in 1 .. Len(inbox[s]) /\ inbox'[s][i] = inbox[s][i] BY <2>4, <3>2, <3>3, <4>2
        <5> QED BY <3>1, <5>1 DEF Promised
      <4> QED BY <4>1, <4>2
    <3> QED BY <3>3
  <2>6. OneSession' BY <1>1, <2>2 DEF OneSession, Alive, fields, rxs
  <2>7. AnswersKept' BY <2>2, <2>5 DEF AnswersKept, Promised, Written, flags, rxs
  <2>8. FlagState' /\ FlagsOfThisSession'
    BY <1>1, <2>2 DEF FlagState, FlagsOfThisSession, Written, flags, fields
  <2>9. WireOrder' BY DEF WireOrder, Written
  <2> QED BY <1>2, <2>6, <2>7, <2>8, <2>9
<1>4. CASE ServerControl(s)
  <2> USE <1>4 DEF ServerControl
  <2>1. \A r \in Session : r # s => inbox'[r] = inbox[r] BY DEF NetTypes
  <2>2. inbox[s] \in Seq(Answer) /\ inbox'[s] = Append(inbox[s], "control") BY DEF NetTypes
  <2>3. \A i \in 1 .. Len(inbox'[s]) : Promised(answered'[s], inbox'[s][i])
    <3>1. \A i \in 1 .. Len(inbox[s]) : Promised(answered'[s], inbox[s][i]) BY DEF AnswersKept, Promised
    <3>2. Promised(answered'[s], "control") BY DEF Promised
    <3>3. ASSUME NEW i \in 1 .. Len(inbox'[s]) PROVE Promised(answered'[s], inbox'[s][i])
      <4>1. CASE i = Len(inbox[s]) + 1
        <5>1. inbox'[s][i] = "control" BY <2>2, <4>1 DEF Answer
        <5> QED BY <3>2, <5>1 DEF Promised
      <4>2. CASE i # Len(inbox[s]) + 1
        <5>1. i \in 1 .. Len(inbox[s]) /\ inbox'[s][i] = inbox[s][i] BY <2>2, <3>3, <4>2 DEF Answer
        <5> QED BY <3>1, <5>1 DEF Promised
      <4> QED BY <4>1, <4>2
    <3> QED BY <3>3
  <2>4. OneSession' BY <1>1, <2>1 DEF OneSession, Alive, fields, rxs
  <2>5. AnswersKept' BY <2>1, <2>3 DEF AnswersKept, Promised, Written, flags, rxs
  <2>6. FlagState' /\ FlagsOfThisSession' /\ WireOrder'
    BY DEF FlagState, FlagsOfThisSession, WireOrder, Written, flags, fields
  <2> QED BY <1>2, <2>4, <2>5, <2>6
<1>5. CASE LinkLost(s)
  <2> USE <1>5 DEF LinkLost
  <2>1. \A r \in Session : r # s => link'[r] = link[r] BY DEF NetTypes
  <2>2. OneSession' BY <1>1, <1>b, <2>1 DEF OneSession, Alive, fields, rxs, peer
  <2>3. AnswersKept' BY DEF AnswersKept, Promised, Written, flags, rxs, peer
  <2>4. FlagState' /\ FlagsOfThisSession' /\ WireOrder'
    BY DEF FlagState, FlagsOfThisSession, WireOrder, Written, flags, fields, peer
  <2> QED BY <1>2, <2>2, <2>3, <2>4
<1> QED BY <1>3, <1>4, <1>5 DEF ServerStep

\* No part of the invariant mentions the counter of frames, the interrupt flags, or what was invoked.
LEMMA CacheSafe ==
  ASSUME TypeInv', ConnInv,
         UNCHANGED <<connected, publishPermitted, currentStreamId, fields, net, call, op, ret, joining, rxs>>
  PROVE  ConnInv'
<1> USE DEF ConnInv, fields, net, peer, rxs
<1>1. OneCall' /\ CallState' BY DEF OneCall, CallState, CallFacts, Idle, At, Alive, MayPublish, Written
<1>2. OneSession' /\ AnswersKept' BY DEF OneSession, AnswersKept, Alive, Promised, Written
<1>3. FlagState' /\ FlagsOfThisSession' /\ WireOrder'
  BY DEF FlagState, FlagsOfThisSession, WireOrder, Written
<1> QED BY <1>1, <1>2, <1>3 DEF TypeInv

LEMMA ConnInvInit == ASSUME ConnInit PROVE ConnInv
<1> USE ConnAssumption DEF ConnInit, Session, None
<1>1. TypeOK BY TypeInit DEF TypeInv
<1>2. OneCall /\ CallState BY DEF OneCall, CallState, CallFacts, Idle, At
<1>3. OneSession /\ AnswersKept BY DEF OneSession, AnswersKept, Alive, Promised, Written
<1>4. FlagState /\ FlagsOfThisSession /\ WireOrder
  BY DEF FlagState, FlagsOfThisSession, WireOrder, Written
<1> QED BY <1>1, <1>2, <1>3, <1>4 DEF ConnInv

\* No calling thread has been interrupted.
Uninterrupted == \A t \in Caller : ~interrupted[t]

\* No step of the connection's own threads sets an interrupt flag.
OnlyForgotten == interrupted' = interrupted \/ \E t \in Caller : SetInterrupted(t, FALSE)

LEMMA NoneInterrupted ==
  ASSUME \/ \E t \in Caller : CallerStep(t) \/ Call(t)
         \/ \E s \in Session : RxStep(s) \/ ServerStep(s)
  PROVE  OnlyForgotten
<1> USE DEF OnlyForgotten
<1>1. ASSUME NEW t \in Caller, CallerStep(t) PROVE OnlyForgotten
  BY <1>1 DEF CallerStep, OpenSocket, OpenFails, StartRx, RtmpConnect, FlushConnect, Wait, Timeout,
     WaitInterrupted, CheckConnected, SendCreateStream, FlushCreateStream, CheckPermitted, SendAudio,
     SendVideo, CloseStream, ShutdownSocket, InterruptRx, JoinRx, CloseSocket, Reset, ResetSocket,
     ReturnFlag, NullPointer, threads
<1>2. ASSUME NEW t \in Caller, Call(t) PROVE OnlyForgotten
  BY <1>2 DEF Call, BeginConnect, ConnectBadUrl, BeginPublish, BeginMedia, BeginClose, threads
<1>3. ASSUME NEW s \in Session, RxStep(s) \/ ServerStep(s) PROVE OnlyForgotten
  BY <1>3 DEF RxStep, RxExit, RxRead, RxControl, RxConnectResult, RxNotifyConnect, RxCreateResult,
     RxFmlePublish, RxPublishStart, RxPermit, RxNotifyPublish, RxNullPointer, ServerStep, ServerAnswer,
     ServerControl, LinkLost, threads
<1> QED BY <1>1, <1>2, <1>3

LEMMA UninterruptedNext ==
  ASSUME Interruptible = {}, TypeInv, Uninterrupted, [ConnNext]_connVars
  PROVE  Uninterrupted'
<1>1. interrupted \in [Caller -> BOOLEAN] BY DEF TypeInv, TypeOK, ThreadTypes
<1>2. \A t \in Caller : ~Interrupt(t) BY DEF Interrupt
<1>3. OnlyForgotten \/ UNCHANGED interrupted
  BY <1>2, NoneInterrupted DEF ConnNext, CacheVideoFrame, connVars, threads
<1> QED BY <1>1, <1>3 DEF Uninterrupted, SetInterrupted, OnlyForgotten

LEMMA ConnInvNext ==
  ASSUME Interruptible = {}, TypeInv, TypeInv', ConnInv, Uninterrupted, [ConnNext]_connVars
  PROVE  ConnInv'
<1>1. CASE UNCHANGED connVars
  <2> USE <1>1 DEF connVars, flags, fields, net, peer, threads, rxs, ConnInv
  <2>1. OneCall' /\ CallState' BY DEF OneCall, CallState, CallFacts, Idle, At, Alive, MayPublish, Written
  <2>2. OneSession' /\ AnswersKept' BY DEF OneSession, AnswersKept, Alive, Promised, Written
  <2>3. FlagState' /\ FlagsOfThisSession' /\ WireOrder'
    BY DEF FlagState, FlagsOfThisSession, WireOrder, Written
  <2> QED BY <2>1, <2>2, <2>3 DEF TypeInv
<1>2. ASSUME NEW t \in Caller, Call(t) \/ Interrupt(t) \/ CallerStep(t) PROVE ConnInv'
  <2>1. ~Interrupt(t) BY DEF Interrupt
  <2>2. Joins(t) BY DEF Joins, JoinRx, Uninterrupted
  <2> QED BY <1>2, <2>1, <2>2, CallSafe, CallerSafe
<1>3. ASSUME NEW s \in Session, RxStep(s) \/ ServerStep(s) PROVE ConnInv'
  BY <1>3, RxSafe, ServerSafe
<1>4. CASE CacheVideoFrame BY <1>4, CacheSafe DEF CacheVideoFrame, threads
<1> QED BY <1>1, <1>2, <1>3, <1>4 DEF ConnNext

\* The inductive invariant holds in every state.
LEMMA ConnInvAlways == ASSUME Interruptible = {} PROVE Spec => [](TypeInv /\ ConnInv)
<1> DEFINE Inv == TypeInv /\ ConnInv /\ Uninterrupted
<1>1. ConnInit => Inv BY TypeInit, ConnInvInit DEF ConnInit, Uninterrupted
<1>2. Inv /\ [ConnNext]_connVars => Inv' BY TypeNext, ConnInvNext, UninterruptedNext
<1> QED BY <1>1, <1>2, PTL DEF Spec

\* Whatever the server, the network and the schedule do: when no thread is interrupted inside a
\* call, the messages of every session follow the order of the protocol.
THEOREM WireOrderHolds == ASSUME Interruptible = {} PROVE Spec => []WireOrder
<1>1. ConnInv => WireOrder BY DEF ConnInv
<1> QED BY <1>1, ConnInvAlways, PTL

\* When no thread is interrupted inside a call, connected, currentStreamId and publishPermitted
\* tell what the server of the current session said: reset() leaves nothing that a late answer
\* could fill in.
THEOREM FlagsOfThisSessionHolds == ASSUME Interruptible = {} PROVE Spec => []FlagsOfThisSession
<1>1. ConnInv => FlagsOfThisSession BY DEF ConnInv
<1> QED BY <1>1, ConnInvAlways, PTL

\* When no thread is interrupted inside a call, close() and a failed connect() or publish() leave
\* no receive thread and no open TCP connection behind.
THEOREM ReleasedWhenClosedHolds == ASSUME Interruptible = {} PROVE Spec => []ReleasedWhenClosed
<1>1. ASSUME TypeInv, ConnInv PROVE ReleasedWhenClosed
  <2>1. SUFFICES ASSUME socket = None, NEW s \in 1 .. sockets
                 PROVE  rx[s] \in {"none", "dead"} /\ link[s] = "closed"
    BY DEF ReleasedWhenClosed
  <2>2. s \in Session /\ s # socket
    BY <1>1, <2>1, ConnAssumption DEF TypeInv, TypeOK, FieldTypes, Session, None
  <2> QED BY <1>1, <2>1, <2>2 DEF ConnInv, OneSession, Alive
<1> QED BY <1>1, ConnInvAlways, PTL

\* What the three rest on, and what the run checks on an instance: when no thread is interrupted
\* inside a call, one call runs at a time, only the session of the field socket has a receive
\* thread or an open connection, every answer on its way belongs to a command the server has got,
\* and metadata was written before publishPermitted is set.
THEOREM ConnInvHolds == ASSUME Interruptible = {} PROVE Spec => []ConnInv
<1> QED BY ConnInvAlways, PTL
-----------------------------------------------------------------------------
(* The refinement of RtmpPublisher. *)

\* A step that changes nothing of what the publisher shows is invisible.
LEMMA Invisible ==
  ASSUME UNCHANGED <<socket, connected, publishPermitted, currentStreamId, buffer, wire, answered, rx>>
  PROVE  UNCHANGED Publisher!publisherVars
<1>1. UNCHANGED <<socket # None, Sent, Told, Heard, Listening>>
  BY DEF Sent, Told, Heard, Listening, Written, Alive
<1> QED BY <1>1 DEF Publisher!publisherVars

\* A step that writes the messages M to the session of the field socket.
LEMMA SentGrows ==
  ASSUME TypeInv, NEW M, Grows(M), socket # None, stream = socket, UNCHANGED socket
  PROVE  Sent' = Sent \cup M
<1>1. socket \in Session BY ConnAssumption DEF TypeInv, TypeOK, FieldTypes, Session, None
<1> QED BY <1>1 DEF Grows, Sent, Written

\* A step that writes nothing new is invisible, too.
LEMMA FlushInvisible ==
  ASSUME TypeInv, Grows({}),
         UNCHANGED <<socket, connected, publishPermitted, currentStreamId, answered, rx>>
  PROVE  UNCHANGED Publisher!publisherVars
<1>1. socket # None => socket \in Session
  BY ConnAssumption DEF TypeInv, TypeOK, FieldTypes, Session, None
<1>2. UNCHANGED <<socket # None, Sent, Told, Heard, Listening>>
  BY <1>1 DEF Grows, Sent, Told, Heard, Listening, Written, Alive
<1> QED BY <1>2 DEF Publisher!publisherVars

\* The receive threads that run are the same ones.
RxStays == \A s \in Session : Alive(s)' <=> Alive(s)

\* A step that writes m is the abstract step that sends it.
LEMMA WritingSends ==
  ASSUME TypeInv, NEW m \in Message, Grows({m}), socket # None, stream = socket, RxStays,
         Publisher!HeardFor(m) \subseteq Heard, m = "metadata" => "publish" \in Told,
         UNCHANGED <<socket, connected, publishPermitted, currentStreamId, answered>>
  PROVE  Publisher!PublisherNext
<1>1. Sent' = Sent \cup {m} BY SentGrows
<1>2. UNCHANGED <<Told, Heard, Listening>> BY DEF Told, Heard, Listening, RxStays
<1>3. Publisher!SendMessage(m) BY <1>1, <1>2 DEF Publisher!SendMessage
<1>4. m \in Publisher!Command \cup Publisher!Content \cup {"metadata", "control"}
  BY DEF Message, Publisher!Command, Publisher!Content
<1> QED BY <1>3, <1>4 DEF Publisher!PublisherNext

\* What the flags say was heard.
LEMMA HeardFlags ==
  /\ "connect" \in Heard <=> connected
  /\ "createStream" \in Heard <=> currentStreamId # None
  /\ "publish" \in Heard <=> publishPermitted
BY DEF Heard

\* Media, and the command that ends the stream, may follow all three answers.
LEMMA MayPublishHeard ==
  ASSUME MayPublish, NEW m \in {"audio", "video", "closeStream"}
  PROVE  Publisher!HeardFor(m) \subseteq Heard
BY HeardFlags DEF MayPublish, Publisher!HeardFor, Publisher!Content, Publisher!Command

\* What ConnInv says of a receive thread that runs.
LEMMA AliveHere ==
  ASSUME ConnInv, NEW s \in Session, Alive(s)
  PROVE  /\ s = socket /\ s = stream /\ socket # None
         /\ \A r \in Session : r # s => ~Alive(r)
BY ConnAssumption DEF ConnInv, OneSession, Session, None

LEMMA PublisherCaller ==
  ASSUME TypeInv, ConnInv, NEW t \in Caller, CallerStep(t)
  PROVE  [Publisher!PublisherNext]_(Publisher!publisherVars)
<1> USE DEF fields, flags, net, peer, rxs
<1>a. NetTypes BY DEF TypeInv, TypeOK
<1>0. At(t, "resetSocket") => Sent = {} /\ Told = {} /\ Heard = {}
  BY ConnAssumption DEF ConnInv, CallState, CallFacts, At, Sent, Told, Heard, TypeInv, TypeOK, FieldTypes,
     Session, None
<1>b. /\ connected => stream = socket
      /\ At(t, "startRx") \/ At(t, "sendConnect") => socket # None /\ stream = socket
      /\ At(t, "sendCreate") => connected
      /\ At(t, "sendAudio") \/ At(t, "sendVideo") => MayPublish
      /\ At(t, "reset") \/ At(t, "resetSocket") => ~Listening
      /\ At(t, "resetSocket") => Sent = {} /\ Told = {} /\ Heard = {}
  BY <1>0 DEF ConnInv, FlagState, CallState, CallFacts, At, Listening
<1>1. CASE \/ OpenSocket(t) \/ OpenFails(t)
           \/ Wait(t, "enterConnect", "waitConnect", "checkConnect")
           \/ Timeout(t, "waitConnect", "checkConnect")
           \/ WaitInterrupted(t, "waitConnect", "checkConnect")
           \/ CheckConnected(t)
           \/ Wait(t, "enterPublish", "waitPublish", "checkPublish")
           \/ Timeout(t, "waitPublish", "checkPublish")
           \/ WaitInterrupted(t, "waitPublish", "checkPublish")
           \/ CheckPermitted(t) \/ ShutdownSocket(t) \/ InterruptRx(t) \/ JoinRx(t)
           \/ CloseSocket(t) \/ ReturnFlag(t) \/ NullPointer(t)
  <2>1. UNCHANGED <<socket, connected, publishPermitted, currentStreamId, buffer, wire, answered, rx>>
    BY <1>1 DEF OpenSocket, OpenFails, Wait, Timeout, WaitInterrupted, CheckConnected,
       CheckPermitted, ShutdownSocket, InterruptRx, JoinRx, CloseSocket, ReturnFlag, NullPointer
  <2> QED BY <2>1, Invisible
<1>2. CASE StartRx(t)
  <2>1. socket \in Session /\ stream = socket /\ socket # None
    BY <1>2, <1>b, ConnAssumption DEF StartRx, TypeInv, TypeOK, FieldTypes, Session, None
  <2>2. rx'[stream] = "loop" BY <1>2, <2>1 DEF StartRx, TypeInv, TypeOK, ThreadTypes
  <2>3. Listening' BY <2>1, <2>2 DEF Listening, Alive
  <2>4. UNCHANGED <<socket # None, Sent, Told, Heard>>
    BY <1>2 DEF StartRx, Sent, Told, Heard, Written
  <2>5. Listening' = TRUE BY <2>3 DEF Listening
  <2>6. Publisher!Listen BY <2>1, <2>4, <2>5 DEF Publisher!Listen
  <2> QED BY <2>6 DEF Publisher!PublisherNext
<1>3. CASE RtmpConnect(t)
  <2>1. CASE connected
    BY <1>3, <2>1, Invisible DEF RtmpConnect
  <2>2. CASE ~connected
    <3>1. Grows({"connect"}) BY <1>a, <1>3, <2>2, WriteGrows DEF RtmpConnect
    <3>2. RxStays BY <1>3 DEF RtmpConnect, RxStays, Alive
    <3>3. Publisher!HeardFor("connect") = {} BY DEF Publisher!HeardFor, Publisher!Content
    <3> QED BY <1>3, <2>2, <1>b, <3>1, <3>2, <3>3, WritingSends DEF RtmpConnect, Message
  <2> QED BY <2>1, <2>2
<1>4. CASE FlushConnect(t) \/ FlushCreateStream(t)
  <2>1. Grows({}) BY <1>a, <1>4, FlushGrows DEF FlushConnect, FlushCreateStream
  <2> QED BY <1>4, <2>1, FlushInvisible DEF FlushConnect, FlushCreateStream
<1>5. CASE SendCreateStream(t)
  <2>1. Grows({"createStream"}) BY <1>a, <1>5, WriteGrows DEF SendCreateStream
  <2>2. RxStays BY <1>5 DEF SendCreateStream, RxStays, Alive
  <2>3. Publisher!HeardFor("createStream") = {"connect"}
    BY DEF Publisher!HeardFor, Publisher!Content
  <2>4. connected BY <1>5, <1>b DEF SendCreateStream
  <2> QED BY <1>5, <1>b, <2>1, <2>2, <2>3, <2>4, HeardFlags, WritingSends DEF SendCreateStream, Message
<1>6. ASSUME NEW m \in {"audio", "video", "closeStream"}, Send(m), MayPublish, socket # None,
             UNCHANGED <<socket, connected, publishPermitted, currentStreamId, answered, rx>>
      PROVE  Publisher!PublisherNext
  <2>1. Grows({m}) BY <1>a, <1>6, SendGrows
  <2>2. RxStays BY <1>6 DEF RxStays, Alive
  <2>3. stream = socket BY <1>6, <1>b DEF MayPublish
  <2> QED BY <1>6, <2>1, <2>2, <2>3, MayPublishHeard, WritingSends DEF Message
<1>7. CASE SendAudio(t) BY <1>7, <1>b, <1>6 DEF SendAudio
<1>8. CASE SendVideo(t) BY <1>8, <1>b, <1>6 DEF SendVideo
<1>9. CASE CloseStream(t)
  <2>1. CASE MayPublish BY <1>9, <2>1, <1>6 DEF CloseStream
  <2>2. CASE ~MayPublish BY <1>9, <2>2, Invisible DEF CloseStream
  <2> QED BY <2>1, <2>2
<1>10. CASE Reset(t)
  <2>1. ~Listening /\ UNCHANGED <<Listening, socket>> BY <1>b, <1>10 DEF Reset, Listening, Alive
  <2>2. Sent' = {} /\ Told' = {} /\ Heard' = {}
    <3>1. socket # None => socket \in Session
      BY ConnAssumption DEF TypeInv, TypeOK, FieldTypes, Session, None
    <3> QED BY <1>10, <3>1 DEF Reset, ClearFlags, Sent, Told, Heard, Written
  <2>3. CASE socket # None
    <3>1. Publisher!ForgetSession BY <2>1, <2>2, <2>3 DEF Publisher!ForgetSession
    <3> QED BY <3>1 DEF Publisher!PublisherNext
  <2>4. CASE socket = None
    <3>1. Sent = {} /\ Told = {} /\ Heard = {}
      BY <2>4 DEF Sent, Told, Heard, ConnInv, FlagsOfThisSession
    <3> QED BY <2>1, <2>2, <2>4, <3>1 DEF Publisher!publisherVars
  <2> QED BY <2>3, <2>4
<1>11. CASE ResetSocket(t)
  <2>1. ~Listening /\ UNCHANGED Listening BY <1>b, <1>11 DEF ResetSocket, Listening, Alive
  <2>2. Sent = {} /\ Told = {} /\ Heard = {} BY <1>b, <1>11 DEF ResetSocket
  <2>3. Sent' = {} /\ Told' = {} /\ Heard' = Heard /\ ~(socket # None)'
    BY <1>11 DEF ResetSocket, Sent, Told, Heard
  <2>4. CASE socket # None
    <3>1. Publisher!CloseSession BY <2>1, <2>2, <2>3, <2>4 DEF Publisher!CloseSession
    <3> QED BY <3>1 DEF Publisher!PublisherNext
  <2>5. CASE socket = None
    BY <2>1, <2>2, <2>3, <2>5 DEF Publisher!publisherVars
  <2> QED BY <2>4, <2>5
<1> QED BY <1>1, <1>2, <1>3, <1>4, <1>5, <1>7, <1>8, <1>9, <1>10, <1>11 DEF CallerStep

LEMMA PublisherRx ==
  ASSUME TypeInv, ConnInv, NEW s \in Session, RxStep(s)
  PROVE  [Publisher!PublisherNext]_(Publisher!publisherVars)
<1> USE DEF fields, flags, net, peer, RxAt, RxGoto
<1>a. NetTypes BY DEF TypeInv, TypeOK
<1>b. /\ Alive(s) => s = socket /\ s = stream /\ socket # None
      /\ Promised(answered[s], rx[s])
      /\ rx[s] = "permit" => "publish" \in answered[s] /\ "metadata" \in Written(s)
  BY AliveHere DEF ConnInv, AnswersKept
<1>c. Alive(s) => Told = answered[s] /\ Sent = Written(s) /\ Listening
  BY <1>b DEF Told, Sent, Listening
<1>d. rx \in [Session -> RxPc] BY DEF TypeInv, TypeOK, ThreadTypes
<1>1. CASE RxNullPointer(s)
  BY <1>1, Invisible DEF RxNullPointer, rxs
<1>2. CASE RxExit(s)
  <2>1. Alive(s) /\ \A r \in Session : ~Alive(r)'
    <3>1. Alive(s) BY <1>2 DEF RxExit, Alive
    <3>2. rx'[s] = "dead" /\ \A r \in Session : r # s => rx'[r] = rx[r]
      BY <1>2, <1>d DEF RxExit
    <3> QED BY <3>1, <3>2, AliveHere DEF Alive
  <2>2. Listening' = FALSE BY <2>1 DEF Listening
  <2>3. UNCHANGED <<socket # None, Sent, Told, Heard>>
    BY <1>2 DEF RxExit, Sent, Told, Heard, Written
  <2>4. Publisher!StopListening BY <2>2, <2>3 DEF Publisher!StopListening
  <2> QED BY <2>4 DEF Publisher!PublisherNext
\* All other steps find the thread running and leave it running.
<1>3. CASE ~RxNullPointer(s) /\ ~RxExit(s)
  <2>a. Alive(s)
    BY <1>3 DEF RxStep, RxRead, RxControl, RxConnectResult, RxNotifyConnect, RxCreateResult,
       RxFmlePublish, RxPublishStart, RxPermit, RxNotifyPublish, Alive
  <2>b. \E pc : pc \notin {"none", "dead"} /\ rx' = [rx EXCEPT ![s] = pc]
    <3>1. CASE RxRead(s)
      <4>1. inbox[stream] \in Seq(Answer) /\ inbox[stream] # << >>
        BY <1>a, <1>b, <2>a, <3>1 DEF RxRead, NetTypes
      <4>2. Head(inbox[stream]) \in Answer BY <4>1
      <4> QED BY <3>1, <4>2 DEF RxRead, Answer
    <3> QED
      BY <1>3, <3>1 DEF RxStep, RxControl, RxConnectResult, RxNotifyConnect, RxCreateResult,
         RxFmlePublish, RxPublishStart, RxPermit, RxNotifyPublish
  <2>c. RxStays
    <3>1. PICK pc : pc \notin {"none", "dead"} /\ rx' = [rx EXCEPT ![s] = pc] BY <2>b
    <3> QED BY <1>d, <2>a, <3>1 DEF RxStays, Alive
  <2>d. UNCHANGED Listening BY <2>c DEF Listening, RxStays
  <2>e. /\ s = socket /\ s = stream /\ socket # None
        /\ Told = answered[s] /\ Sent = Written(s) /\ Listening = TRUE
    BY <1>b, <1>c, <2>a DEF Listening
  <2>1. CASE RxRead(s) \/ RxNotifyConnect(s) \/ RxNotifyPublish(s)
    <3>1. UNCHANGED <<socket, connected, publishPermitted, currentStreamId, buffer, wire, answered>>
      BY <2>1 DEF RxRead, RxNotifyConnect, RxNotifyPublish
    <3>2. UNCHANGED <<socket # None, Sent, Told, Heard, Listening>>
      BY <2>d, <3>1 DEF Sent, Told, Heard, Written
    <3> QED BY <3>2 DEF Publisher!publisherVars
  <2>2. CASE RxControl(s)
    <3>1. Grows({"control"}) BY <1>a, <2>2, SendGrows DEF RxControl
    <3>2. Publisher!HeardFor("control") = {} BY DEF Publisher!HeardFor, Publisher!Content
    <3> QED BY <2>2, <2>c, <2>e, <3>1, <3>2, WritingSends DEF RxControl, Message
  <2>3. CASE RxConnectResult(s)
    <3>1. "connect" \in Told BY <1>b, <2>3, <2>e DEF RxConnectResult, Promised
    <3>2. Heard' = Heard \cup {"connect"} BY <2>3 DEF RxConnectResult, Heard
    <3>3. UNCHANGED <<socket # None, Sent, Told>> BY <2>3 DEF RxConnectResult, Sent, Told, Written
    <3>4. Publisher!Hear("connect") BY <2>d, <2>e, <3>1, <3>2, <3>3 DEF Publisher!Hear
    <3> QED BY <3>4 DEF Publisher!PublisherNext, Publisher!Command
  <2>4. CASE RxCreateResult(s)
    <3>1. "createStream" \in Told BY <1>b, <2>4, <2>e DEF RxCreateResult, Promised
    <3>2. Heard' = Heard \cup {"createStream"} BY <2>4, <2>e DEF RxCreateResult, Heard
    <3>3. UNCHANGED <<socket # None, Sent, Told>> BY <2>4 DEF RxCreateResult, Sent, Told, Written
    <3>4. Publisher!Hear("createStream") BY <2>d, <2>e, <3>1, <3>2, <3>3 DEF Publisher!Hear
    <3> QED BY <3>4 DEF Publisher!PublisherNext, Publisher!Command
  <2>5. CASE RxFmlePublish(s)
    <3>1. CASE connected /\ currentStreamId # None
      <4>1. Grows({"publish"}) BY <1>a, <2>5, <3>1, SendGrows DEF RxFmlePublish
      <4>2. Publisher!HeardFor("publish") = {"connect", "createStream"}
    BY DEF Publisher!HeardFor, Publisher!Content
      <4> QED BY <2>5, <2>c, <2>e, <3>1, <4>1, <4>2, HeardFlags, WritingSends DEF RxFmlePublish, Message
    <3>2. CASE ~connected \/ currentStreamId = None
      <4>1. UNCHANGED <<socket # None, Sent, Told, Heard, Listening>>
        BY <2>5, <2>d, <3>2 DEF RxFmlePublish, Sent, Told, Heard, Written
      <4> QED BY <4>1 DEF Publisher!publisherVars
    <3> QED BY <3>1, <3>2
  <2>6. CASE RxPublishStart(s)
    <3>1. CASE connected /\ currentStreamId # None
      <4>1. Grows({"metadata"}) BY <1>a, <2>6, <3>1, SendGrows DEF RxPublishStart
      <4>2. Publisher!HeardFor("metadata") = {"connect", "createStream"}
    BY DEF Publisher!HeardFor, Publisher!Content
      <4>3. "publish" \in Told BY <1>b, <2>6, <2>e DEF RxPublishStart, Promised
      <4> QED BY <2>6, <2>c, <2>e, <3>1, <4>1, <4>2, <4>3, HeardFlags, WritingSends DEF RxPublishStart,
                 Message
    <3>2. CASE ~connected \/ currentStreamId = None
      <4>1. UNCHANGED <<socket # None, Sent, Told, Heard, Listening>>
        BY <2>6, <2>d, <3>2 DEF RxPublishStart, Sent, Told, Heard, Written
      <4> QED BY <4>1 DEF Publisher!publisherVars
    <3> QED BY <3>1, <3>2
  <2>7. CASE RxPermit(s)
    <3>1. "publish" \in Told /\ "metadata" \in Sent BY <1>b, <2>7, <2>e DEF RxPermit
    <3>2. Heard' = Heard \cup {"publish"} BY <2>7 DEF RxPermit, Heard
    <3>3. UNCHANGED <<socket # None, Sent, Told>> BY <2>7 DEF RxPermit, Sent, Told, Written
    <3>4. Publisher!Hear("publish") BY <2>d, <2>e, <3>1, <3>2, <3>3 DEF Publisher!Hear
    <3> QED BY <3>4 DEF Publisher!PublisherNext, Publisher!Command
  <2> QED BY <1>3, <2>1, <2>2, <2>3, <2>4, <2>5, <2>6, <2>7 DEF RxStep
<1> QED BY <1>1, <1>2, <1>3

LEMMA PublisherServer ==
  ASSUME TypeInv, ConnInv, NEW s \in Session, ServerStep(s)
  PROVE  [Publisher!PublisherNext]_(Publisher!publisherVars)
<1> USE DEF fields, flags, net, peer, rxs
<1>1. CASE ServerAnswer(s)
  <2>1. PICK m \in (wire[s] \ answered[s]) \cap {"connect", "createStream", "publish"} :
          answered' = [answered EXCEPT ![s] = @ \cup {m}]
    BY <1>1 DEF ServerAnswer
  <2>2. s = socket /\ socket # None
    BY <2>1, ConnAssumption DEF ConnInv, OneSession, Session, None
  <2>3. Told' = Told \cup {m} /\ m \in Sent \ Told
    BY <1>1, <2>1, <2>2 DEF ServerAnswer, Told, Sent, Written, TypeInv, TypeOK, NetTypes
  <2>4. UNCHANGED <<socket # None, Sent, Heard, Listening>>
    BY <1>1 DEF ServerAnswer, Sent, Heard, Listening, Written, Alive
  <2>5. Publisher!ServerTells(m) BY <2>2, <2>3, <2>4 DEF Publisher!ServerTells
  <2> QED BY <2>1, <2>5 DEF Publisher!PublisherNext, Publisher!Command
<1>2. CASE ServerControl(s) BY <1>2, Invisible DEF ServerControl
<1>3. CASE LinkLost(s) BY <1>3, Invisible DEF LinkLost
<1> QED BY <1>1, <1>2, <1>3 DEF ServerStep

LEMMA PublisherCall ==
  ASSUME TypeInv, ConnInv, NEW t \in Caller, Call(t)
  PROVE  [Publisher!PublisherNext]_(Publisher!publisherVars)
<1> USE DEF fields, flags, net, peer, rxs
<1>1. CASE socket = None /\ BeginConnect(t)
  <2>1. socket' \in Session /\ socket' # None
    BY <1>1, ConnAssumption DEF BeginConnect, TypeInv, TypeOK, FieldTypes, Session, None
  <2>2. \A s \in Session : Written(s) = {} /\ answered[s] = {}
    BY <1>1 DEF ConnInv, OneSession, Written, Session, None
  <2>3. UNCHANGED <<Sent, Told, Heard, Listening>>
    BY <1>1, <2>1, <2>2 DEF BeginConnect, Sent, Told, Heard, Listening, Written, Alive
  <2>4. Publisher!OpenSession BY <1>1, <2>1, <2>3 DEF Publisher!OpenSession
  <2> QED BY <2>4 DEF Publisher!PublisherNext
<1>2. CASE \/ ConnectBadUrl(t) \/ BeginPublish(t) \/ BeginClose(t)
           \/ \E pc \in {"sendAudio", "sendVideo"} : BeginMedia(t, pc)
  <2>1. UNCHANGED <<socket, connected, publishPermitted, currentStreamId, buffer, wire, answered, rx>>
    BY <1>2 DEF ConnectBadUrl, BeginPublish, BeginMedia, BeginClose
  <2> QED BY <2>1, Invisible
<1> QED BY <1>1, <1>2 DEF Call

\* Every step of the connection is a step of the publisher or invisible.
LEMMA PublisherStep ==
  ASSUME Interruptible = {}, TypeInv, ConnInv, [ConnNext]_connVars
  PROVE  [Publisher!PublisherNext]_(Publisher!publisherVars)
<1>1. CASE UNCHANGED connVars
  BY <1>1, Invisible DEF connVars, flags, fields, net, peer, rxs
<1>2. ASSUME NEW t \in Caller, Call(t) \/ Interrupt(t) \/ CallerStep(t)
      PROVE  [Publisher!PublisherNext]_(Publisher!publisherVars)
  <2>1. ~Interrupt(t) BY DEF Interrupt
  <2> QED BY <1>2, <2>1, PublisherCall, PublisherCaller
<1>3. ASSUME NEW s \in Session, RxStep(s) \/ ServerStep(s)
      PROVE  [Publisher!PublisherNext]_(Publisher!publisherVars)
  BY <1>3, PublisherRx, PublisherServer
<1>4. CASE CacheVideoFrame
  BY <1>4, Invisible DEF CacheVideoFrame, fields, net, peer, rxs
<1> QED BY <1>1, <1>2, <1>3, <1>4 DEF ConnNext

\* RtmpConnection keeps the promise of the interface RtmpPublisher whatever the server, the network
\* and the schedule of the two threads do, when no thread is interrupted inside a call: commands
\* follow the answers, an answer is never counted for another session, and a session ends only
\* after its receive thread has (RtmpConnection:157-377, 424-425, 579-623).
THEOREM ConnectionIsPublisher == ASSUME Interruptible = {} PROVE Spec => KeepsProtocol
<1>1. ConnInit => Publisher!PublisherInit
  BY DEF ConnInit, Publisher!PublisherInit, Sent, Told, Heard, Listening, Alive, Session, None
<1>2. TypeInv /\ ConnInv /\ [ConnNext]_connVars => [Publisher!PublisherNext]_(Publisher!publisherVars)
  BY PublisherStep
<1> QED
  BY <1>1, <1>2, ConnInvAlways, PTL DEF Spec, KeepsProtocol, Publisher!PublisherSpec
=============================================================================
