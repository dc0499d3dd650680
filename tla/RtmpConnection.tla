--------------------------- MODULE RtmpConnection ---------------------------
(***************************************************************************)
(* The RTMP publishing client of rtmppusher: RtmpConnection with the state *)
(* of RtmpSessionInfo it owns, the threads that call it, the receive       *)
(* thread that each connect() starts, the TCP connection and the server.   *)
(*                                                                         *)
(* Every field of the object is shared by all of these threads and only    *)
(* the two condition variables are guarded by a lock, so a method is a     *)
(* sequence of steps: call[t] is the next step of the calling thread t and *)
(* rx[s] the next step of the receive thread of session s.  A session is   *)
(* the life of one Socket object; sessions are numbered in the order in    *)
(* which connect() creates them and 0 stands for the null reference.       *)
(*                                                                         *)
(* Abstractions.  rtmpSessionInfo, rtmpDecoder, streamName and socket are  *)
(* assigned together in connect() and cleared together in reset(), so      *)
(* `socket' stands for the four.  Reads of a field within one step are one *)
(* read.  A transaction id names its command.                              *)
(* releaseStream and FCPublish, whose answers are only logged, are part of *)
(* the step that writes createStream.  The server numbers its stream after *)
(* the session.  Notifications to the UI handler are left out.             *)
(***************************************************************************)
EXTENDS Integers, Sequences

CONSTANTS
  Caller,         \* the threads that call the RtmpPublisher interface
  Interruptible,  \* those of them that Thread.interrupt() may hit during a call
  MaxSession,     \* bound: how many sockets connect() creates
  MaxControl,     \* bound: pings and bandwidth messages the server sends, per session
  Lossy,          \* may an established TCP connection be closed by the server or break?
  MaxCache        \* bound: |videoFrameCacheNumber|

ASSUME ConnAssumption ==
  /\ Interruptible \subseteq Caller
  /\ MaxSession \in Nat \ {0}
  /\ MaxControl \in Nat
  /\ MaxCache \in Nat
  /\ Lossy \in BOOLEAN

Session == 1 .. MaxSession
None    == 0
Message == {"connect", "createStream", "publish", "metadata", "audio", "video",
            "closeStream", "control"}
Answer  == {"connectResult", "createResult", "publishStart", "control"}

VARIABLES
  \* fields of the RtmpConnection object
  socket,          \* the session of the fields socket, rtmpSessionInfo and rtmpDecoder
  stream,          \* the session of the fields inputStream and outputStream
  rxPacketHandler, \* the session whose receive thread the field refers to
  connected, publishPermitted, currentStreamId, videoFrameCacheNumber,
  invoked,         \* RtmpSessionInfo.invokedMethods: commands waiting for a result
  sockets,         \* how many sessions exist
  \* the network and the server, per session
  link,            \* state of the TCP connection
  buffer, wire,    \* messages written but not flushed, and messages the server got
  answered,        \* commands the server has answered
  inbox,           \* messages on their way to the client
  controls,        \* how many unsolicited control messages the server has sent
  \* threads
  call, op, ret,   \* next step, operation and last result of a calling thread
  interrupted,     \* its interrupt flag
  joining,         \* the session whose receive thread it joins
  rx, rxInterrupted, \* next step of a receive thread (an Answer it handles, ...), its interrupt flag
  crashed          \* an uncaught NullPointerException has ended the process

flags   == <<connected, publishPermitted, currentStreamId, videoFrameCacheNumber>>
fields  == <<socket, stream, rxPacketHandler, sockets>>
peer    == <<answered, inbox, controls>>
net     == <<link, buffer, wire, peer>>
threads == <<call, op, ret, interrupted, joining>>
rxs     == <<rx, rxInterrupted>>
connVars == <<flags, fields, invoked, net, threads, rxs, crashed>>

FieldTypes ==
  /\ socket \in 0 .. MaxSession
  /\ stream \in 0 .. MaxSession
  /\ rxPacketHandler \in 0 .. MaxSession
  /\ sockets \in 0 .. MaxSession
  /\ connected \in BOOLEAN
  /\ publishPermitted \in BOOLEAN
  /\ currentStreamId \in 0 .. MaxSession
  /\ videoFrameCacheNumber \in Int
  /\ invoked \subseteq {"connect", "createStream"}
  /\ crashed \in BOOLEAN

NetTypes ==
  /\ link \in [Session -> {"new", "open", "shut", "eof", "broken", "failed", "closed"}]
  /\ buffer \in [Session -> SUBSET Message]
  /\ wire \in [Session -> SUBSET Message]
  /\ answered \in [Session -> SUBSET Message]
  /\ inbox \in [Session -> Seq(Answer)]
  /\ controls \in [Session -> Nat]

Step   == {"idle", "open", "startRx", "sendConnect", "flushConnect", "enterConnect", "waitConnect",
           "checkConnect", "sendCreate", "flushCreate", "enterPublish", "waitPublish",
           "checkPublish", "sendAudio", "sendVideo", "closeStream", "shutdown", "interruptRx",
           "joinRx", "closeSocket", "reset", "resetSocket", "return"}
RxPc   == Answer \cup {"none", "loop", "notifyConnect", "fmlePublish", "permit", "notifyPublish",
                       "dead"}

ThreadTypes ==
  /\ call \in [Caller -> Step]
  /\ op \in [Caller -> {"connect", "publish", "close"}]
  /\ ret \in [Caller -> BOOLEAN]
  /\ interrupted \in [Caller -> BOOLEAN]
  /\ joining \in [Caller -> 0 .. MaxSession]
  /\ rx \in [Session -> RxPc]
  /\ rxInterrupted \in [Session -> BOOLEAN]

TypeOK == FieldTypes /\ NetTypes /\ ThreadTypes

ConnInit ==
  /\ socket = None /\ stream = None /\ rxPacketHandler = None /\ sockets = 0
  /\ connected = FALSE /\ publishPermitted = FALSE
  /\ currentStreamId = None /\ videoFrameCacheNumber = 0
  /\ invoked = {}
  /\ link = [s \in Session |-> "new"]
  /\ buffer = [s \in Session |-> {}]
  /\ wire = [s \in Session |-> {}]
  /\ answered = [s \in Session |-> {}]
  /\ inbox = [s \in Session |-> << >>]
  /\ controls = [s \in Session |-> 0]
  /\ call = [t \in Caller |-> "idle"]
  /\ op = [t \in Caller |-> "connect"]
  /\ ret = [t \in Caller |-> FALSE]
  /\ interrupted = [t \in Caller |-> FALSE]
  /\ joining = [t \in Caller |-> None]
  /\ rx = [s \in Session |-> "none"]
  /\ rxInterrupted = [s \in Session |-> FALSE]
  /\ crashed = FALSE

-----------------------------------------------------------------------------
(* Control of the calling threads. *)

At(t, pc)   == call[t] = pc
Goto(t, pc) == call' = [call EXCEPT ![t] = pc]
Idle(t)     == At(t, "idle")

\* The method returns r.
Return(t, r) == Goto(t, "idle") /\ ret' = [ret EXCEPT ![t] = r]

\* The method operation begins at step pc.
Begin(t, operation, pc) == Goto(t, pc) /\ op' = [op EXCEPT ![t] = operation]

SetInterrupted(t, b) == interrupted' = [interrupted EXCEPT ![t] = b]

-----------------------------------------------------------------------------
(* sendRtmpPacket.  Writing only fills the BufferedOutputStream; flushing   *)
(* delivers it unless the output was shut down (then it is skipped) or the  *)
(* connection is gone (then a SocketException is caught and the packet is   *)
(* lost).  The chunks of a packet are written in one step; what two threads *)
(* at such a step would do to each other's chunks is what WritesApart is    *)
(* about.                                                                   *)

Deliverable == link[socket] \notin {"shut", "closed"} /\ link[stream] = "open"

Flush ==
  IF Deliverable
    THEN /\ wire' = [wire EXCEPT ![stream] = @ \cup buffer[stream]]
         /\ buffer' = [buffer EXCEPT ![stream] = {}]
    ELSE UNCHANGED <<buffer, wire>>

\* writeTo() and flush() of a packet whose result nobody waits for.
Send(m) ==
  IF Deliverable
    THEN /\ wire' = [wire EXCEPT ![stream] = @ \cup buffer[stream] \cup {m}]
         /\ buffer' = [buffer EXCEPT ![stream] = {}]
    ELSE /\ buffer' = [buffer EXCEPT ![stream] = @ \cup {m}]
         /\ UNCHANGED wire

\* Mutant: a command is flushed before it is registered.
WriteThrough(m) == Send(m)

\* writeTo() alone, of a command.
Write(m) ==
  /\ buffer' = [buffer EXCEPT ![stream] = @ \cup {m}]
  /\ UNCHANGED wire

-----------------------------------------------------------------------------
(* connect(url)                                                             *)

\* The URL does not match rtmpUrlPattern, or has no stream name.
ConnectBadUrl(t) ==
  /\ Idle(t)
  /\ Return(t, FALSE)
  /\ op' = [op EXCEPT ![t] = "connect"]
  /\ UNCHANGED <<interrupted, joining, flags, fields, invoked, net, rxs, crashed>>

BeginConnect(t) ==
  /\ Idle(t)
  /\ sockets < MaxSession
  /\ sockets' = sockets + 1
  /\ socket' = sockets + 1
  /\ invoked' = {}
  /\ Begin(t, "connect", "open")
  /\ UNCHANGED <<ret, interrupted, joining, flags, stream, rxPacketHandler, net, rxs, crashed>>

\* socket.connect(..., 3000) and handshake() succeed.
OpenSocket(t) ==
  /\ At(t, "open")
  /\ socket # None
  /\ link[socket] = "new"
  /\ link' = [link EXCEPT ![socket] = "open"]
  /\ stream' = socket
  /\ Goto(t, "startRx")
  /\ UNCHANGED <<op, ret, interrupted, joining, flags, socket, rxPacketHandler, sockets, invoked,
                 buffer, wire, peer, rxs, crashed>>

\* An IOException of socket.connect(), or of the handshake after the streams were made, ends
\* connect(); the fields keep the dead socket.  "failed" is also a connection whose handshake failed.
OpenFails(t) ==
  /\ At(t, "open")
  /\ socket # None
  /\ link' = [link EXCEPT ![socket] = IF @ = "new" THEN "failed" ELSE @]
  /\ stream' \in {stream, socket}
  /\ Return(t, FALSE)
  /\ UNCHANGED <<op, interrupted, joining, flags, socket, rxPacketHandler, sockets, invoked,
                 buffer, wire, peer, rxs, crashed>>

StartRx(t) ==
  /\ At(t, "startRx")
  /\ rxPacketHandler' = stream
  /\ rx' = [rx EXCEPT ![stream] = "loop"]
  /\ Goto(t, "sendConnect")
  /\ UNCHANGED <<op, ret, interrupted, joining, flags, socket, stream, sockets, invoked, net, rxInterrupted, crashed>>

\* rtmpConnect(): refused when connected is already set, else "connect" is written.
RtmpConnect(t) ==
  /\ At(t, "sendConnect")
  /\ \/ connected /\ Return(t, FALSE) /\ UNCHANGED <<buffer, wire>>
     \/ ~connected /\ socket # None /\ Write("connect") /\ Goto(t, "flushConnect") /\ UNCHANGED ret
  /\ UNCHANGED <<op, interrupted, joining, flags, fields, invoked, link, peer, rxs, crashed>>

\* addInvokedCommand() and flush() of "connect".
FlushConnect(t) ==
  /\ At(t, "flushConnect")
  /\ socket # None
  /\ invoked' = invoked \cup {"connect"}
  /\ Flush
  /\ Goto(t, "enterConnect")
  /\ UNCHANGED <<op, ret, interrupted, joining, flags, fields, link, peer, rxs, crashed>>

\* connectingLock.wait(5000) and publishLock.wait(5000): no predicate is tested before waiting,
\* and an interrupt that is already pending ends the wait at once and is forgotten.
Wait(t, enter, wait, check) ==
  /\ At(t, enter)
  /\ SetInterrupted(t, FALSE)
  /\ Goto(t, IF interrupted[t] THEN check ELSE wait)
  /\ UNCHANGED <<op, ret, joining, flags, fields, invoked, net, rxs, crashed>>

\* Mutant: wait() without a timeout.
WaitForever(t, wait, check) == FALSE

\* The five seconds are over.
Timeout(t, wait, check) ==
  /\ At(t, wait)
  /\ Goto(t, check)
  /\ UNCHANGED <<op, ret, interrupted, joining, flags, fields, invoked, net, rxs, crashed>>

\* InterruptedException: "do nothing", the interrupt is forgotten.
WaitInterrupted(t, wait, check) ==
  /\ At(t, wait)
  /\ interrupted[t]
  /\ SetInterrupted(t, FALSE)
  /\ Goto(t, check)
  /\ UNCHANGED <<op, ret, joining, flags, fields, invoked, net, rxs, crashed>>

CheckConnected(t) ==
  /\ At(t, "checkConnect")
  /\ \/ connected /\ Return(t, TRUE)
     \/ ~connected /\ Goto(t, "shutdown") /\ UNCHANGED ret
  /\ UNCHANGED <<op, interrupted, joining, flags, fields, invoked, net, rxs, crashed>>

-----------------------------------------------------------------------------
(* publish(type), that is createStream()                                    *)

BeginPublish(t) ==
  /\ Idle(t)
  /\ \/ /\ connected /\ currentStreamId = None
        /\ Begin(t, "publish", "sendCreate") /\ UNCHANGED ret
     \/ /\ ~connected \/ currentStreamId # None
        /\ Return(t, FALSE) /\ op' = [op EXCEPT ![t] = "publish"]
  /\ UNCHANGED <<interrupted, joining, flags, fields, invoked, net, rxs, crashed>>

SendCreateStream(t) ==
  /\ At(t, "sendCreate")
  /\ socket # None
  /\ Write("createStream")
  /\ Goto(t, "flushCreate")
  /\ UNCHANGED <<op, ret, interrupted, joining, flags, fields, invoked, link, peer, rxs, crashed>>

FlushCreateStream(t) ==
  /\ At(t, "flushCreate")
  /\ socket # None
  /\ invoked' = invoked \cup {"createStream"}
  /\ Flush
  /\ Goto(t, "enterPublish")
  /\ UNCHANGED <<op, ret, interrupted, joining, flags, fields, link, peer, rxs, crashed>>

\* Mutant: a publish() that was not permitted in time does not shut the session down.
CheckWithoutShutdown(t) ==
  /\ At(t, "checkPublish")
  /\ Return(t, publishPermitted)
  /\ UNCHANGED <<op, interrupted, joining, flags, fields, invoked, net, rxs, crashed>>

CheckPermitted(t) ==
  /\ At(t, "checkPublish")
  /\ \/ publishPermitted /\ Return(t, TRUE)
     \/ ~publishPermitted /\ Goto(t, "shutdown") /\ UNCHANGED ret
  /\ UNCHANGED <<op, interrupted, joining, flags, fields, invoked, net, rxs, crashed>>

-----------------------------------------------------------------------------
(* publishAudioData(...) and publishVideoData(...)                          *)

\* Mutant: media may follow the answer to connect.
ConnectedIsEnough == connected

MayPublish == connected /\ currentStreamId # None /\ publishPermitted

BeginMedia(t, pc) ==
  /\ Idle(t)
  /\ Goto(t, IF MayPublish THEN pc ELSE "idle")
  /\ UNCHANGED <<op, ret, interrupted, joining, flags, fields, invoked, net, rxs, crashed>>

SendAudio(t) ==
  /\ At(t, "sendAudio")
  /\ socket # None
  /\ Send("audio")
  /\ Goto(t, "idle")
  /\ UNCHANGED <<op, ret, interrupted, joining, flags, fields, invoked, link, peer, rxs, crashed>>

\* Mutant: the number of a frame is taken twice.
DecrementTwice == videoFrameCacheNumber' = videoFrameCacheNumber - 2

GetAndDecrement == videoFrameCacheNumber' = videoFrameCacheNumber - 1

\* Only a video frame that was sent leaves videoFrameCacheNumber.
SendVideo(t) ==
  /\ At(t, "sendVideo")
  /\ socket # None
  /\ Send("video")
  /\ GetAndDecrement
  /\ Goto(t, "idle")
  /\ UNCHANGED <<op, ret, interrupted, joining, connected, publishPermitted, currentStreamId, fields,
                 invoked, link, peer, rxs, crashed>>

-----------------------------------------------------------------------------
(* close(), shutdown() and reset()                                          *)

BeginClose(t) ==
  /\ Idle(t)
  /\ Begin(t, "close", IF socket # None THEN "closeStream" ELSE "shutdown")
  /\ UNCHANGED <<ret, interrupted, joining, flags, fields, invoked, net, rxs, crashed>>

CloseStream(t) ==
  /\ At(t, "closeStream")
  /\ \/ MayPublish /\ socket # None /\ Send("closeStream")
     \/ ~MayPublish /\ UNCHANGED <<buffer, wire>>
  /\ Goto(t, "shutdown")
  /\ UNCHANGED <<op, ret, interrupted, joining, flags, fields, invoked, link, peer, rxs, crashed>>

\* shutdownInput() and shutdownOutput(); they throw, caught, on a socket that is not connected.
ShutdownSocket(t) ==
  /\ At(t, "shutdown")
  /\ \/ /\ socket # None
        /\ link' = [link EXCEPT ![socket] = IF @ \in {"open", "eof", "broken"} THEN "shut" ELSE @]
        /\ Goto(t, "interruptRx")
     \/ socket = None /\ Goto(t, "reset") /\ UNCHANGED link
  /\ UNCHANGED <<op, ret, interrupted, joining, flags, fields, invoked, buffer, wire, peer, rxs, crashed>>

InterruptRx(t) ==
  /\ At(t, "interruptRx")
  /\ \/ /\ rxPacketHandler # None
        /\ rxInterrupted' = [rxInterrupted EXCEPT ![rxPacketHandler] = TRUE]
        /\ joining' = [joining EXCEPT ![t] = rxPacketHandler]
        /\ Goto(t, "joinRx")
     \/ rxPacketHandler = None /\ Goto(t, "closeSocket") /\ UNCHANGED <<joining, rxInterrupted>>
  /\ UNCHANGED <<op, ret, interrupted, flags, fields, invoked, net, rx, crashed>>

\* Mutant: the thread is interrupted and not waited for.
NotJoined(t) == TRUE

RxEnded(t) == rx[joining[t]] = "dead"

\* join() returns when the thread has ended, or throws when the caller is interrupted; that the
\* receive thread is interrupted once more then changes nothing.
JoinRx(t) ==
  /\ At(t, "joinRx")
  /\ \/ RxEnded(t) /\ UNCHANGED interrupted
     \/ ~RxEnded(t) /\ interrupted[t] /\ SetInterrupted(t, FALSE)
  /\ rxPacketHandler' = None
  /\ joining' = [joining EXCEPT ![t] = None]
  /\ Goto(t, "closeSocket")
  /\ UNCHANGED <<op, ret, flags, socket, stream, sockets, invoked, net, rxs, crashed>>

CloseSocket(t) ==
  /\ At(t, "closeSocket")
  /\ link' = [s \in Session |-> IF s = socket THEN "closed" ELSE link[s]]
  /\ Goto(t, "reset")
  /\ UNCHANGED <<op, ret, interrupted, joining, flags, fields, invoked, buffer, wire, peer, rxs, crashed>>

\* Mutant: the counter is forgotten.
KeepCounter == connected' = FALSE /\ publishPermitted' = FALSE /\ currentStreamId' = None
               /\ UNCHANGED videoFrameCacheNumber

ClearFlags ==
  /\ connected' = FALSE
  /\ publishPermitted' = FALSE
  /\ currentStreamId' = None
  /\ videoFrameCacheNumber' = 0

\* reset() clears the flags first.  The socket is closed: data in flight is lost and the server
\* forgets the session.
Reset(t) ==
  /\ At(t, "reset")
  /\ ClearFlags
  /\ buffer' = [s \in Session |-> IF s = socket THEN {} ELSE buffer[s]]
  /\ wire' = [s \in Session |-> IF s = socket THEN {} ELSE wire[s]]
  /\ answered' = [s \in Session |-> IF s = socket THEN {} ELSE answered[s]]
  /\ inbox' = [s \in Session |-> IF s = socket THEN << >> ELSE inbox[s]]
  /\ controls' = [s \in Session |-> IF s = socket THEN 0 ELSE controls[s]]
  /\ Goto(t, "resetSocket")
  /\ UNCHANGED <<op, ret, interrupted, joining, fields, invoked, link, rxs, crashed>>

\* Then the references to the socket, the session and its decoder.
ResetSocket(t) ==
  /\ At(t, "resetSocket")
  /\ socket' = None
  /\ invoked' = {}
  /\ Goto(t, "return")
  /\ UNCHANGED <<op, ret, interrupted, joining, flags, stream, rxPacketHandler, sockets, net, rxs, crashed>>

\* connect() and publish() return the flag as it is after shutdown().
ReturnFlag(t) ==
  /\ At(t, "return")
  /\ Return(t, CASE op[t] = "connect" -> connected
                 [] op[t] = "publish" -> publishPermitted
                 [] op[t] = "close"   -> ret[t])
  /\ UNCHANGED <<op, interrupted, joining, flags, fields, invoked, net, rxs, crashed>>

\* A step that dereferences socket, rtmpSessionInfo or rtmpDecoder after another thread's reset(),
\* or rxPacketHandler after its join, throws a NullPointerException that nothing catches.
NullPointer(t) ==
  /\ \/ /\ socket = None
        /\ \/ call[t] \in {"open", "flushConnect", "sendCreate", "flushCreate", "sendAudio",
                            "sendVideo"}
           \/ At(t, "sendConnect") /\ ~connected
           \/ At(t, "closeStream") /\ MayPublish
     \/ At(t, "joinRx") /\ rxPacketHandler = None
  /\ crashed' = TRUE
  /\ UNCHANGED <<flags, fields, invoked, net, threads, rxs>>

-----------------------------------------------------------------------------
(* handleRxPacketLoop: the receive thread of session s.  It reads whatever  *)
(* the fields rtmpDecoder and inputStream refer to.                         *)

RxAt(s, pc)   == rx[s] = pc
RxGoto(s, pc) == rx' = [rx EXCEPT ![s] = pc]

\* Thread.interrupted() at the head of the loop, or EOFException from readPacket().
RxExit(s) ==
  /\ RxAt(s, "loop")
  /\ \/ rxInterrupted[s]
     \/ socket # None /\ link[stream] = "shut"
     \/ socket # None /\ link[stream] = "eof" /\ inbox[stream] = << >>
  /\ RxGoto(s, "dead")
  /\ rxInterrupted' = [rxInterrupted EXCEPT ![s] = FALSE]
  /\ UNCHANGED <<flags, fields, invoked, net, threads, crashed>>

\* readPacket() returns a message; after shutdownInput() one may still be in the stream's buffer.
RxRead(s) ==
  /\ RxAt(s, "loop")
  /\ ~rxInterrupted[s]
  /\ socket # None
  /\ link[stream] \in {"open", "eof", "shut"}
  /\ inbox[stream] # << >>
  /\ inbox' = [inbox EXCEPT ![stream] = Tail(@)]
  /\ RxGoto(s, Head(inbox[stream]))
  /\ UNCHANGED <<flags, fields, invoked, link, buffer, wire, answered, controls, threads,
                 rxInterrupted, crashed>>

\* A ping is answered by a pong, SET_PEER_BANDWIDTH by a window acknowledgement size (after which
\* the thread reads `socket' once more, 557: in the same step here).
RxControl(s) ==
  /\ RxAt(s, "control")
  /\ socket # None
  /\ Send("control")
  /\ RxGoto(s, "loop")
  /\ UNCHANGED <<flags, fields, invoked, link, peer, threads, rxInterrupted, crashed>>

\* "_result" of "connect": the flag first, then the notification.
RxConnectResult(s) ==
  /\ RxAt(s, "connectResult")
  /\ "connect" \in invoked
  /\ invoked' = invoked \ {"connect"}
  /\ connected' = TRUE
  /\ RxGoto(s, "notifyConnect")
  /\ UNCHANGED <<publishPermitted, currentStreamId, videoFrameCacheNumber, fields, net, threads, rxInterrupted, crashed>>

\* notifyAll() on a lock: it wakes only threads that are already waiting.
Notify(wait, check) ==
  call' = [t \in Caller |-> IF call[t] = wait THEN check ELSE call[t]]

RxNotifyConnect(s) ==
  /\ RxAt(s, "notifyConnect")
  /\ Notify("waitConnect", "checkConnect")
  /\ RxGoto(s, "loop")
  /\ UNCHANGED <<flags, fields, invoked, net, op, ret, interrupted, joining, rxInterrupted,
                 crashed>>

\* "_result" of "createStream" carries the stream id.
RxCreateResult(s) ==
  /\ RxAt(s, "createResult")
  /\ "createStream" \in invoked
  /\ invoked' = invoked \ {"createStream"}
  /\ currentStreamId' = stream
  /\ RxGoto(s, IF socket # None THEN "fmlePublish" ELSE "loop")
  /\ UNCHANGED <<connected, publishPermitted, videoFrameCacheNumber, fields, net, threads, rxInterrupted, crashed>>

RxFmlePublish(s) ==
  /\ RxAt(s, "fmlePublish")
  /\ \/ connected /\ currentStreamId # None /\ socket # None /\ Send("publish")
     \/ (~connected \/ currentStreamId = None) /\ UNCHANGED <<buffer, wire>>
  /\ RxGoto(s, "loop")
  /\ UNCHANGED <<flags, fields, invoked, link, peer, threads, rxInterrupted, crashed>>

\* Mutant: the permission comes without the metadata.
PermitWithoutMetaData(s) ==
  /\ RxAt(s, "publishStart")
  /\ RxGoto(s, "permit")
  /\ UNCHANGED <<flags, fields, invoked, net, threads, rxInterrupted, crashed>>

\* onStatus NetStream.Publish.Start: onMetaData() first, then the permission.
RxPublishStart(s) ==
  /\ RxAt(s, "publishStart")
  /\ \/ connected /\ currentStreamId # None /\ socket # None /\ Send("metadata")
     \/ (~connected \/ currentStreamId = None) /\ UNCHANGED <<buffer, wire>>
  /\ RxGoto(s, "permit")
  /\ UNCHANGED <<flags, fields, invoked, link, peer, threads, rxInterrupted, crashed>>

RxPermit(s) ==
  /\ RxAt(s, "permit")
  /\ publishPermitted' = TRUE
  /\ RxGoto(s, "notifyPublish")
  /\ UNCHANGED <<connected, currentStreamId, videoFrameCacheNumber, fields, invoked, net, threads, rxInterrupted, crashed>>

RxNotifyPublish(s) ==
  /\ RxAt(s, "notifyPublish")
  /\ Notify("waitPublish", "checkPublish")
  /\ RxGoto(s, "loop")
  /\ UNCHANGED <<flags, fields, invoked, net, op, ret, interrupted, joining, rxInterrupted,
                 crashed>>

\* The receive thread dies of a NullPointerException: a field was reset under it, or no command
\* is registered for a result and "createStream".contains(null) throws.
RxNullPointer(s) ==
  /\ \/ /\ socket = None
        /\ \/ RxAt(s, "loop") /\ ~rxInterrupted[s]
           \/ RxAt(s, "control")
           \/ RxAt(s, "fmlePublish") /\ connected /\ currentStreamId # None
           \/ RxAt(s, "publishStart") /\ connected /\ currentStreamId # None
           \/ rx[s] \in {"connectResult", "createResult"}
     \/ RxAt(s, "connectResult") /\ "connect" \notin invoked
     \/ RxAt(s, "createResult") /\ "createStream" \notin invoked
  /\ crashed' = TRUE
  /\ UNCHANGED <<flags, fields, invoked, net, threads, rxs>>

-----------------------------------------------------------------------------
(* The server and the network, as far as the client depends on them: every  *)
(* command is answered at most once and only after it arrived; an answer    *)
(* may never come; the connection may be closed or broken at any time.      *)

AnswerTo(m) == CASE m = "connect"      -> "connectResult"
                 [] m = "createStream" -> "createResult"
                 [] m = "publish"      -> "publishStart"

ServerAnswer(s) ==
  /\ link[s] = "open"
  /\ \E m \in (wire[s] \ answered[s]) \cap {"connect", "createStream", "publish"} :
       /\ answered' = [answered EXCEPT ![s] = @ \cup {m}]
       /\ inbox' = [inbox EXCEPT ![s] = Append(@, AnswerTo(m))]
  /\ UNCHANGED <<flags, fields, invoked, link, buffer, wire, controls, threads, rxs, crashed>>

ServerControl(s) ==
  /\ link[s] = "open"
  /\ controls[s] < MaxControl
  /\ controls' = [controls EXCEPT ![s] = @ + 1]
  /\ inbox' = [inbox EXCEPT ![s] = Append(@, "control")]
  /\ UNCHANGED <<flags, fields, invoked, link, buffer, wire, answered, threads, rxs, crashed>>

LinkLost(s) ==
  /\ Lossy
  /\ link[s] = "open"
  /\ \E l \in {"eof", "broken"} : link' = [link EXCEPT ![s] = l]
  /\ UNCHANGED <<flags, fields, invoked, buffer, wire, peer, threads, rxs, crashed>>

-----------------------------------------------------------------------------
(* The client this module is checked with makes the calls SrsFlvMuxer makes, *)
(* one at a time: connect() on a closed connection, publish(), media, and    *)
(* close().                                                                  *)

\* The producers count a frame they put into the muxer's cache.
CacheVideoFrame ==
  /\ videoFrameCacheNumber < MaxCache
  /\ videoFrameCacheNumber' = videoFrameCacheNumber + 1
  /\ UNCHANGED <<connected, publishPermitted, currentStreamId, fields, invoked, net, threads, rxs,
                 crashed>>

Call(t) ==
  /\ \A u \in Caller : Idle(u)
  /\ \/ socket = None /\ (BeginConnect(t) \/ ConnectBadUrl(t))
     \/ socket # None /\ BeginPublish(t)
     \/ socket # None /\ BeginMedia(t, "sendAudio")
     \/ videoFrameCacheNumber > 0 /\ BeginMedia(t, "sendVideo")
     \/ BeginClose(t)

Interrupt(t) ==
  /\ t \in Interruptible
  /\ ~Idle(t)
  /\ SetInterrupted(t, TRUE)
  /\ UNCHANGED <<call, op, ret, joining, flags, fields, invoked, net, rxs, crashed>>

\* The steps of a calling thread inside connect(), publish(), a media call or close().
CallerStep(t) ==
  \/ OpenSocket(t) \/ OpenFails(t) \/ StartRx(t) \/ RtmpConnect(t) \/ FlushConnect(t)
  \/ Wait(t, "enterConnect", "waitConnect", "checkConnect")
  \/ Timeout(t, "waitConnect", "checkConnect")
  \/ WaitInterrupted(t, "waitConnect", "checkConnect")
  \/ CheckConnected(t)
  \/ SendCreateStream(t) \/ FlushCreateStream(t)
  \/ Wait(t, "enterPublish", "waitPublish", "checkPublish")
  \/ Timeout(t, "waitPublish", "checkPublish")
  \/ WaitInterrupted(t, "waitPublish", "checkPublish")
  \/ CheckPermitted(t)
  \/ SendAudio(t) \/ SendVideo(t) \/ CloseStream(t)
  \/ ShutdownSocket(t) \/ InterruptRx(t) \/ JoinRx(t) \/ CloseSocket(t) \/ Reset(t)
  \/ ResetSocket(t) \/ ReturnFlag(t) \/ NullPointer(t)

RxStep(s) ==
  \/ RxExit(s) \/ RxRead(s) \/ RxControl(s)
  \/ RxConnectResult(s) \/ RxNotifyConnect(s)
  \/ RxCreateResult(s) \/ RxFmlePublish(s)
  \/ RxPublishStart(s) \/ RxPermit(s) \/ RxNotifyPublish(s)
  \/ RxNullPointer(s)

ServerStep(s) == ServerAnswer(s) \/ ServerControl(s) \/ LinkLost(s)

ConnNext ==
  /\ ~crashed
  /\ \/ \E t \in Caller : Call(t) \/ Interrupt(t) \/ CallerStep(t)
     \/ \E s \in Session : RxStep(s) \/ ServerStep(s)
     \/ CacheVideoFrame

Spec == ConnInit /\ [][ConnNext]_connVars

\* A write to an open connection: flush() blocks while the peer takes no more data, for ever if
\* need be, and no interrupt ends it.  The end of the connection does.
MayBlock == socket # None /\ Deliverable

\* The next step of the thread writes to the stream.
AtWrite(t) ==
  \/ call[t] \in {"flushConnect", "sendCreate", "flushCreate", "sendAudio", "sendVideo"}
  \/ At(t, "closeStream") /\ MayPublish

RxAtWrite(s) ==
  \/ RxAt(s, "control")
  \/ rx[s] \in {"fmlePublish", "publishStart"} /\ connected /\ currentStreamId # None

\* Every thread runs, unless it writes; the two waits time out; the TCP connection is made or
\* refused.
FairSpec ==
  /\ Spec
  /\ \A t \in Caller : WF_connVars(~crashed /\ ~(AtWrite(t) /\ MayBlock) /\ CallerStep(t))
  /\ \A s \in Session : WF_connVars(~crashed /\ ~(RxAtWrite(s) /\ MayBlock) /\ RxStep(s))

-----------------------------------------------------------------------------
(* Properties. *)

Written(s) == buffer[s] \cup wire[s]

\* The messages of a session reach the server in the order the protocol asks for: createStream
\* after connect, publish after createStream, the metadata after publish, and audio, video and
\* closeStream only after the metadata, although two threads write them (RtmpConnection:183,
\* 240, 276, 305, 334, 422, 449).
WireOrder ==
  \A s \in Session :
    /\ "createStream" \in Written(s) => "connect" \in Written(s)
    /\ "publish" \in Written(s) => "createStream" \in Written(s)
    /\ "metadata" \in Written(s) => "publish" \in Written(s)
    /\ Written(s) \cap {"audio", "video", "closeStream"} # {} => "metadata" \in Written(s)

\* The flags tell what the server of the current session said: an answer that arrives after
\* the wait has timed out is never taken for an answer of a later session.
FlagsOfThisSession ==
  /\ connected => socket # None /\ "connect" \in answered[socket]
  /\ currentStreamId # None => currentStreamId = socket /\ "createStream" \in answered[socket]
  /\ publishPermitted => socket # None /\ "publish" \in answered[socket]

\* The answer a is there while the writer of its command is still between writing and registering
\* it: the receive thread has flushed the command with its own reply to a control message.
Overtaken(a, m, flush) ==
  /\ m \notin invoked
  /\ \E s \in Session : rx[s] = a /\ controls[s] > 0
  /\ \E t \in Caller : At(t, flush)

\* No step dereferences a field that another thread has reset, and "the result of one of the
\* methods invoked by us" finds its method (RtmpConnection:379, 493-501, 582), unless the result
\* overtakes the registration of its command.
NoCrash ==
  crashed =>
    /\ socket # None
    /\ \/ Overtaken("connectResult", "connect", "flushConnect")
       \/ Overtaken("createResult", "createStream", "flushCreate")

\* The one BufferedOutputStream has no lock, and the header and the chunks of a packet are several
\* writes to it (RtmpConnection:493, RtmpPacket:33-51).  The receive thread and a calling thread are
\* never at a write together, unless the receive thread replies to a control message: it asks for
\* publishing and sends the metadata only while publish() waits, or gives up, also when it does so
\* late.
WritesApart ==
  \A t \in Caller, s \in Session :
    AtWrite(t) /\ RxAtWrite(s) => RxAt(s, "control")

\* Once close() has returned, and whenever connect() or publish() gave up after a timeout, no
\* receive thread runs and the TCP connection of every earlier session is closed.
ReleasedWhenClosed ==
  (socket = None /\ \A t \in Caller : Idle(t)) =>
    \A s \in 1 .. sockets : rx[s] \in {"none", "dead"} /\ link[s] = "closed"

Alive(s) == rx[s] \notin {"none", "dead"}

\* What the publisher has heard is what its flags say.
Heard ==
  (IF connected THEN {"connect"} ELSE {})
    \cup (IF currentStreamId # None THEN {"createStream"} ELSE {})
    \cup (IF publishPermitted THEN {"publish"} ELSE {})

\* The session of the field socket: what was written for it, what the server answered, and
\* whether its receive thread runs.
Sent      == IF socket = None THEN {} ELSE Written(socket)
Told      == IF socket = None THEN {} ELSE answered[socket]
Listening == \E s \in Session : Alive(s)

Publisher == INSTANCE RtmpPublisher WITH
  open <- socket # None, sent <- Sent, told <- Told, heard <- Heard, listening <- Listening

\* The promise of the interface (RtmpPublisher), kept by two threads that share every field
\* without a lock: a step of connect(), publish(), close() or the receive thread is one of the
\* session's steps there, or invisible (RtmpConnection:157-377, 424-425, 579-623).
KeepsProtocol == Publisher!PublisherSpec

\* Every call returns, unless a write of it never does: connect() and publish() because of their
\* timeouts, close() because the receive thread it joins notices the interrupt or the end of its
\* input, even if it was blocked in a write (RtmpConnection:185-197, 242-255, 339-377).
CallsReturn == \A t \in Caller : []<>~AtWrite(t) => (~Idle(t) ~> (Idle(t) \/ crashed))
-----------------------------------------------------------------------------
(* The inductive invariant behind WireOrder, FlagsOfThisSession and         *)
(* ReleasedWhenClosed, as long as no calling thread is interrupted in its   *)
(* join.                                                                    *)

\* One call at a time.
OneCall == \A t, u \in Caller : ~Idle(t) /\ ~Idle(u) => t = u

\* Only the session of the field socket holds data, has a receive thread or an open connection.
OneSession ==
  /\ socket <= sockets /\ stream <= sockets
  /\ \A s \in Session : Alive(s) => s = socket /\ s = stream /\ s = rxPacketHandler
  /\ \A s \in Session : s > sockets => link[s] = "new" /\ rx[s] = "none"
  /\ \A s \in Session : s # socket =>
       /\ buffer[s] = {} /\ wire[s] = {} /\ answered[s] = {} /\ inbox[s] = << >>
       /\ s <= sockets => link[s] = "closed"

\* What the step a calling thread has reached says of the fields.
CallFacts(t) ==
  /\ call[t] \in {"startRx", "sendConnect", "flushConnect"} => socket # None /\ stream = socket
  /\ call[t] \in {"sendCreate", "flushCreate"} => connected
  /\ call[t] \in {"sendAudio", "sendVideo"} => MayPublish
  /\ call[t] = "joinRx" => joining[t] = rxPacketHandler /\ rxPacketHandler # None
  /\ call[t] \in {"closeSocket", "reset", "resetSocket", "return"} => \A s \in Session : ~Alive(s)
  /\ call[t] \in {"reset", "resetSocket"} /\ socket # None => link[socket] = "closed"
  /\ call[t] = "resetSocket" =>
       /\ ~connected /\ ~publishPermitted /\ currentStreamId = None
       /\ \A s \in Session : Written(s) = {} /\ answered[s] = {} /\ inbox[s] = << >>
  /\ call[t] = "return" => socket = None

CallState == \A t \in Caller : CallFacts(t)

\* The answer a is one to a command in done.
Promised(done, a) ==
  /\ a = "connectResult" => "connect" \in done
  /\ a = "createResult"  => "createStream" \in done
  /\ a = "publishStart"  => "publish" \in done

AnswersKept ==
  \A s \in Session :
    /\ answered[s] \subseteq wire[s]
    /\ \A i \in 1 .. Len(inbox[s]) : Promised(answered[s], inbox[s][i])
    /\ Promised(answered[s], rx[s])
    /\ rx[s] = "permit" => "publish" \in answered[s] /\ "metadata" \in Written(s)
    /\ "publish" \in Written(s) => connected /\ currentStreamId # None

FlagState ==
  /\ connected => stream = socket
  /\ publishPermitted => "metadata" \in Written(socket)

ConnInv ==
  /\ TypeOK /\ OneCall /\ OneSession /\ CallState /\ AnswersKept /\ FlagState
  /\ WireOrder /\ FlagsOfThisSession
=============================================================================
