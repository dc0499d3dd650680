--------------------- MODULE RtmpConnectionCrash_proofs ---------------------
(***************************************************************************)
(* NoCrash and WritesApart for every value of the bounds.  A command is    *)
(* registered before its answer can arrive, unless the receive thread has  *)
(* replied to a control message between the write of the command and its   *)
(* registration: only then does somebody else flush the stream.  And the   *)
(* receive thread asks for publishing, and sends the metadata, at most     *)
(* once in a session and before the permission to publish.                 *)
(***************************************************************************)
EXTENDS RtmpConnection_proofs

\* The message a of session s is in the client's input or is the one the receive thread handles.
OnTheWay(s, a) == rx[s] = a \/ \E i \in 1 .. Len(inbox[s]) : inbox[s][i] = a

AtMostOnce(s, a) ==
  /\ \A i, j \in 1 .. Len(inbox[s]) : inbox[s][i] = a /\ inbox[s][j] = a => i = j
  /\ rx[s] = a => \A i \in 1 .. Len(inbox[s]) : inbox[s][i] # a

\* A thread has written a command and not registered it.
Flushes(flush) == \E t \in Caller : call[t] = flush

\* The command m is registered before its answer a can arrive, unless its writer is still at flush;
\* then a control message has come, too, if the answer is there already.
Registered(m, a, flush) ==
  \A s \in Session :
    /\ m \in Written(s) \ answered[s] => m \in invoked \/ Flushes(flush)
    /\ OnTheWay(s, a) => m \in invoked \/ (controls[s] > 0 /\ Flushes(flush))
    /\ AtMostOnce(s, a)

BothRegistered ==
  /\ Registered("connect", "connectResult", "flushConnect")
  /\ Registered("createStream", "createResult", "flushCreate")

ControlSent == \A s \in Session : OnTheWay(s, "control") => controls[s] > 0

\* The steps before a command is on its way.
Connecting == {"open", "startRx", "sendConnect", "flushConnect"}
Creating   == {"sendCreate", "flushCreate"}
Early      == Connecting \cup Creating

\* The server has a command that was not flushed by its writer only if the receive thread has
\* replied to a control message; and no answer to it counts.
NotYetSent ==
  \A t \in Caller, s \in Session :
    /\ call[t] \in Connecting =>
         ~connected /\ "connect" \notin invoked /\ Written(s) \subseteq {"connect", "control"}
    /\ call[t] \in {"open", "startRx", "sendConnect"} => "connect" \notin Written(s)
    /\ call[t] = "flushConnect" /\ "connect" \in wire[s] => controls[s] > 0
    /\ call[t] \in Creating => currentStreamId = None /\ "createStream" \notin invoked
    /\ call[t] = "sendCreate" => "createStream" \notin Written(s)
    /\ call[t] = "flushCreate" /\ "createStream" \in wire[s] => controls[s] > 0

\* The steps from which publish() returns with a stream or after a reset().
PublishSteps == {"flushCreate", "enterPublish", "waitPublish", "checkPublish", "shutdown",
               "interruptRx", "joinRx", "closeSocket", "reset"}

\* There is no second createStream in a session: while its result is missing, publish() has not
\* returned; and none is registered, or about to be, that was not written.
CreatedOnce ==
  /\ \A s \in Session : "createStream" \in Written(s) /\ currentStreamId = None =>
       \E t \in Caller : call[t] \in PublishSteps
  /\ "createStream" \in invoked \/ Flushes("flushCreate") =>
       \/ \E s \in Session : "createStream" \in Written(s)
       \/ \E t \in Caller : call[t] = "resetSocket"

Registry == ControlSent /\ BothRegistered /\ NotYetSent /\ CreatedOnce

\* The server is asked once to publish, after the result of createStream, and permits it once.
Published ==
  \A s \in Session :
    /\ AtMostOnce(s, "publishStart")
    /\ OnTheWay(s, "publishStart") => ~publishPermitted /\ rx[s] # "permit"
    /\ rx[s] = "fmlePublish" => "createStream" \in answered[s] /\ ~OnTheWay(s, "createResult")
    /\ "createStream" \notin answered[s] \/ OnTheWay(s, "createResult") \/ rx[s] = "fmlePublish"
         => "publish" \notin Written(s)

\* connect() has a socket until it gives up.
OpenHasSocket == \A t \in Caller : call[t] = "open" => socket # None

RegistryInv == Registry /\ Published /\ OpenHasSocket /\ NoCrash

\* No step towards a new command, and none away from a publish() that waits for its result.
Later ==
  \A t \in Caller :
    \/ call'[t] = call[t]
    \/ /\ call[t] \notin {"flushConnect", "flushCreate", "resetSocket"} /\ call'[t] \notin Early
       /\ call[t] \in PublishSteps => call'[t] \in PublishSteps \/ currentStreamId # None

\* A receive thread turns to no answer.
NoAnswer == \A s \in Session : rx'[s] = rx[s] \/ rx'[s] \notin Answer

\* Then no answer comes nearer.
LEMMA NoneNearer ==
  ASSUME NoAnswer, inbox' = inbox, NEW s \in Session, NEW a \in Answer
  PROVE  (OnTheWay(s, a)' => OnTheWay(s, a)) /\ (AtMostOnce(s, a) => AtMostOnce(s, a)')
BY DEF NoAnswer, OnTheWay, AtMostOnce

\* A step that writes nothing and begins no command keeps the register.
LEMMA QuietRegistry ==
  ASSUME Registry, Later, NoAnswer,
         UNCHANGED <<buffer, wire, answered, inbox, controls, invoked, connected, currentStreamId>>
  PROVE  Registry'
<1> USE DEF Registry, BothRegistered
<1>1. \A s \in Session : Written(s)' = Written(s) BY DEF Written
<1>2. ASSUME NEW s \in Session, NEW a \in Answer
      PROVE  (OnTheWay(s, a)' => OnTheWay(s, a)) /\ (AtMostOnce(s, a) => AtMostOnce(s, a)')
  BY NoneNearer
<1>3. ControlSent' BY <1>2 DEF ControlSent, Answer
<1>4. NotYetSent'  BY <1>1 DEF NotYetSent, Later, Early, Connecting, Creating
<1>5. CreatedOnce' BY <1>1 DEF CreatedOnce, Later, Flushes, Early, Creating
<1>6. (Flushes("flushConnect") => Flushes("flushConnect")') /\ (Flushes("flushCreate") => Flushes("flushCreate")')
  BY DEF Flushes, Later
<1>7. BothRegistered' BY <1>1, <1>2, <1>6 DEF Registered, Answer
<1> QED BY <1>3, <1>4, <1>5, <1>7

\* A step that writes other messages keeps it, too: while no command is about to be flushed, or in
\* a session in which a control message has come.
LEMMA WriteRegistry ==
  ASSUME Registry, NEW M, Grows(M), "connect" \notin M, "createStream" \notin M, Later, NoAnswer,
         \/ \A t \in Caller : call[t] \notin Early
         \/ M = {"control"} /\ call' = call /\ (stream \in Session => controls[stream] > 0),
         UNCHANGED <<answered, inbox, controls, invoked, connected, currentStreamId>>
  PROVE  Registry'
<1> USE DEF Registry, BothRegistered
<1>1. \A s \in Session, m \in {"connect", "createStream"} : m \in Written(s)' <=> m \in Written(s)
  BY DEF Written, Grows
<1>2. ASSUME NEW s \in Session, NEW a \in Answer
      PROVE  (OnTheWay(s, a)' => OnTheWay(s, a)) /\ (AtMostOnce(s, a) => AtMostOnce(s, a)')
  BY NoneNearer
<1>3. ControlSent' BY <1>2 DEF ControlSent, Answer
<1>4. NotYetSent'
  <2>1. CASE \A t \in Caller : call[t] \notin Early
    <3>1. \A t \in Caller : call'[t] \notin Early BY <2>1 DEF Later
    <3> QED BY <3>1 DEF NotYetSent, Early, Connecting, Creating
  <2>2. CASE M = {"control"} /\ call' = call /\ (stream \in Session => controls[stream] > 0)
    <3>1. \A s \in Session : /\ Written(s)' \subseteq Written(s) \cup {"control"}
                             /\ wire'[s] # wire[s] => controls[s] > 0
      BY <2>2 DEF Grows, Written
    <3> QED BY <1>1, <2>2, <3>1 DEF NotYetSent
  <2> QED BY <2>1, <2>2
<1>5. CreatedOnce' BY <1>1 DEF CreatedOnce, Later, Flushes, Early, Creating
<1>6. (Flushes("flushConnect") => Flushes("flushConnect")') /\ (Flushes("flushCreate") => Flushes("flushCreate")')
  BY DEF Flushes, Later
<1>7. BothRegistered' BY <1>1, <1>2, <1>6 DEF Registered, Answer
<1> QED BY <1>3, <1>4, <1>5, <1>7

\* Reading a message moves it from the input to the hands of the receive thread.
LEMMA ReadMoves ==
  ASSUME ConnInv, NEW s \in Session, RxRead(s), NEW u \in Session, NEW a \in Answer
  PROVE  (OnTheWay(u, a)' => OnTheWay(u, a)) /\ (AtMostOnce(u, a) => AtMostOnce(u, a)')
<1> USE DEF RxRead, RxAt, RxGoto
<1>1. stream = s
  BY DEF ConnInv, OneSession, Alive
<1>2. inbox \in [Session -> Seq(Answer)] /\ rx \in [Session -> RxPc]
  BY DEF ConnInv, TypeOK, NetTypes, ThreadTypes
<1>3. DEFINE q == inbox[s]
             r == Tail(q)
<1>4. q \in Seq(Answer) /\ q # << >> /\ rx[s] = "loop"
  BY <1>1, <1>2
<1>5. /\ inbox'[s] = r /\ rx'[s] = q[1]
      /\ \A v \in Session : v # s => inbox'[v] = inbox[v] /\ rx'[v] = rx[v]
  BY <1>1, <1>2
<1>6. /\ Len(r) = Len(q) - 1 /\ Len(q) \in Nat \ {0}
      /\ \A i \in 1 .. Len(q) - 1 : r[i] = q[i + 1]
  <2> HIDE DEF q
  <2> QED BY <1>4
<1>7. CASE u # s
  BY <1>5, <1>7 DEF OnTheWay, AtMostOnce
<1>8. CASE u = s
  <2>1. \A i \in 1 .. Len(q) - 1 : i + 1 \in 1 .. Len(q) /\ i + 1 # 1
    BY <1>6
  <2>2. 1 \in 1 .. Len(q)
    BY <1>6
  <2>3. OnTheWay(s, a)' => OnTheWay(s, a)
    BY <1>4, <1>5, <1>6, <2>1, <2>2 DEF OnTheWay
  <2>4. ASSUME AtMostOnce(s, a) PROVE AtMostOnce(s, a)'
    <3>1. ASSUME NEW i \in 1 .. Len(r), NEW j \in 1 .. Len(r),
                 r[i] = a, r[j] = a
          PROVE  i = j
      <4>1. i \in 1 .. Len(q) - 1 /\ j \in 1 .. Len(q) - 1
        BY <1>6
      <4>2. q[i + 1] = a /\ q[j + 1] = a
        BY <1>6, <3>1, <4>1
      <4>3. i + 1 = j + 1
        BY <2>1, <2>4, <4>1, <4>2 DEF AtMostOnce
      <4> QED
        BY <4>1, <4>3, <1>6
    <3>2. ASSUME q[1] = a, NEW i \in 1 .. Len(r) PROVE r[i] # a
      <4>1. i \in 1 .. Len(q) - 1
        BY <1>6
      <4> QED
        BY <1>6, <2>1, <2>2, <2>4, <3>2, <4>1 DEF AtMostOnce
    <3>3. inbox'[s] = r /\ (rx'[s] = a => q[1] = a)
      BY <1>5
    <3> DEFINE p == inbox'[s]
    <3> HIDE DEF q, r
    <3>4. \A i, j \in 1 .. Len(p) : p[i] = a /\ p[j] = a => i = j
      BY <3>1, <3>3
    <3>5. rx'[s] = a => \A i \in 1 .. Len(p) : p[i] # a
      BY <3>2, <3>3
    <3> QED
      BY <3>4, <3>5 DEF AtMostOnce
  <2> QED
    BY <1>8, <2>3, <2>4
<1> QED
  BY <1>7, <1>8

LEMMA ReadRegistry ==
  ASSUME ConnInv, Registry, NEW s \in Session, RxRead(s)
  PROVE  Registry'
<1> USE DEF Registry, BothRegistered
<1>1. UNCHANGED <<buffer, wire, answered, controls, invoked, connected, currentStreamId, call>>
  BY DEF RxRead, flags, threads
<1>2. \A u \in Session, a \in Answer :
        (OnTheWay(u, a)' => OnTheWay(u, a)) /\ (AtMostOnce(u, a) => AtMostOnce(u, a)')
  BY ReadMoves
<1>3. ControlSent' BY <1>1, <1>2 DEF ControlSent, Answer
<1>4. NotYetSent' /\ CreatedOnce' BY <1>1 DEF NotYetSent, CreatedOnce, Written, Flushes
<1>5. BothRegistered' BY <1>1, <1>2 DEF Registered, Written, Flushes, Answer
<1> QED BY <1>3, <1>4, <1>5

\* The server sends the message b.
LEMMA Appended ==
  ASSUME ConnInv, NEW s \in Session, NEW b \in Answer,
         inbox' = [inbox EXCEPT ![s] = Append(@, b)], rx' = rx,
         NEW u \in Session, NEW a \in Answer
  PROVE  /\ OnTheWay(u, a)' => OnTheWay(u, a) \/ (u = s /\ a = b)
         /\ AtMostOnce(u, a) /\ (u = s /\ a = b => ~OnTheWay(u, a)) => AtMostOnce(u, a)'
<1>1. inbox \in [Session -> Seq(Answer)]
  BY DEF ConnInv, TypeOK, NetTypes
<1>2. DEFINE q == inbox[s]
<1>3. q \in Seq(Answer) BY <1>1
<1>4. /\ inbox'[s] = Append(q, b)
      /\ \A v \in Session : v # s => inbox'[v] = inbox[v]
  BY <1>1
<1>5. /\ Len(q) \in Nat /\ Len(Append(q, b)) = Len(q) + 1 /\ Append(q, b)[Len(q) + 1] = b
      /\ \A i \in 1 .. Len(q) : Append(q, b)[i] = q[i]
  <2> HIDE DEF q
  <2> QED BY <1>3
<1>6. \A i \in 1 .. Len(q) + 1 : i \in 1 .. Len(q) \/ i = Len(q) + 1
  BY <1>5
<1>7. OnTheWay(u, a)' => OnTheWay(u, a) \/ (u = s /\ a = b)
  <2> HIDE DEF q
  <2>1. CASE u # s
    BY <1>4, <2>1 DEF OnTheWay
  <2>2. CASE u = s
    BY <1>4, <1>5, <1>6, <2>2 DEF OnTheWay, q
  <2> QED BY <2>1, <2>2
<1>8. ASSUME AtMostOnce(u, a), u = s /\ a = b => ~OnTheWay(u, a)
      PROVE  AtMostOnce(u, a)'
  <2>1. CASE u # s
    BY <1>4, <1>8, <2>1 DEF AtMostOnce
  <2>2. CASE u = s
    <3>1. \A i, j \in 1 .. Len(q) : q[i] = a /\ q[j] = a => i = j
      BY <1>8, <2>2 DEF AtMostOnce
    <3>2. a = b => \A i \in 1 .. Len(q) : q[i] # a
      BY <1>8, <2>2 DEF OnTheWay
    <3>3. rx[s] = a => a # b /\ \A i \in 1 .. Len(q) : q[i] # a
      BY <1>8, <2>2 DEF OnTheWay, AtMostOnce
    <3> HIDE DEF q
    <3> QED
      BY <1>4, <1>5, <1>6, <2>2, <3>1, <3>2, <3>3 DEF AtMostOnce
  <2> QED BY <2>1, <2>2
<1> QED BY <1>7, <1>8

\* The answers to a command follow its registration, since the server answers what it got.
LEMMA AnswerRegistry ==
  ASSUME ConnInv, Registry, NEW s \in Session, ServerAnswer(s)
  PROVE  Registry'
<1> USE DEF Registry, BothRegistered
<1>1. PICK m \in (wire[s] \ answered[s]) \cap {"connect", "createStream", "publish"} :
        /\ answered' = [answered EXCEPT ![s] = @ \cup {m}]
        /\ inbox' = [inbox EXCEPT ![s] = Append(@, AnswerTo(m))]
  BY DEF ServerAnswer
<1>2. UNCHANGED <<call, rx, buffer, wire, controls, invoked, connected, currentStreamId>>
  BY DEF ServerAnswer, threads, rxs, flags
<1>3. answered \in [Session -> SUBSET Message]
  BY DEF ConnInv, TypeOK, NetTypes
<1> DEFINE b == AnswerTo(m)
<1>4. b \in Answer \ {"control"}
  BY <1>1 DEF AnswerTo, Answer
<1>5. /\ answered'[s] = answered[s] \cup {m}
      /\ \A u \in Session : u # s => answered'[u] = answered[u]
  BY <1>1, <1>3
<1>6. ~OnTheWay(s, b)
  BY <1>1 DEF ConnInv, AnswersKept, Promised, OnTheWay, AnswerTo
<1>7. \A u \in Session, a \in Answer :
        /\ OnTheWay(u, a)' => OnTheWay(u, a) \/ (u = s /\ a = b)
        /\ AtMostOnce(u, a) => AtMostOnce(u, a)'
  <2>1. inbox' = [inbox EXCEPT ![s] = Append(@, b)] /\ b \in Answer /\ rx' = rx BY <1>1, <1>2, <1>4
  <2> HIDE DEF b
  <2> QED BY <1>6, <2>1, Appended
<1>8. /\ m = "connect" => m \in invoked \/ (controls[s] > 0 /\ Flushes("flushConnect"))
      /\ m = "createStream" => m \in invoked \/ (controls[s] > 0 /\ Flushes("flushCreate"))
  <2>1. m \in Written(s) \ answered[s] /\ m \in wire[s]
    BY <1>1 DEF Written
  <2> QED
    BY <2>1 DEF Registered, NotYetSent, Flushes
<1>9. ControlSent'
  BY <1>2, <1>4, <1>7 DEF ControlSent, Answer
<1>10. NotYetSent' /\ CreatedOnce'
  BY <1>2 DEF NotYetSent, CreatedOnce, Written, Flushes
<1>11. (b = "connectResult" => m = "connect") /\ (b = "createResult" => m = "createStream")
  BY <1>1 DEF AnswerTo
<1>12. \A u \in Session : Written(u)' = Written(u) /\ answered[u] \subseteq answered'[u]
  BY <1>2, <1>5 DEF Written
<1>13. (Flushes("flushConnect") => Flushes("flushConnect")') /\ (Flushes("flushCreate") => Flushes("flushCreate")')
  BY <1>2 DEF Flushes
<1>14. BothRegistered'
  <2> HIDE DEF b
  <2> QED BY <1>2, <1>7, <1>8, <1>11, <1>12, <1>13 DEF Registered, Answer
<1> QED
  BY <1>9, <1>10, <1>14

\* A control message is counted when it is sent.
LEMMA ControlRegistry ==
  ASSUME ConnInv, Registry, NEW s \in Session, ServerControl(s)
  PROVE  Registry'
<1> USE DEF Registry, BothRegistered
<1>1. UNCHANGED <<call, rx, buffer, wire, answered, invoked, connected, currentStreamId>>
  BY DEF ServerControl, threads, rxs, flags
<1>2. \A u \in Session : controls'[u] >= controls[u] /\ controls[u] \in Nat /\ controls'[u] \in Nat
  BY DEF ServerControl, ConnInv, TypeOK, NetTypes
<1>3. controls'[s] > 0
  BY DEF ServerControl, ConnInv, TypeOK, NetTypes
<1>4. ASSUME NEW u \in Session, NEW a \in Answer
      PROVE  /\ OnTheWay(u, a)' => OnTheWay(u, a) \/ (u = s /\ a = "control")
             /\ a # "control" /\ AtMostOnce(u, a) => AtMostOnce(u, a)'
  <2>1. inbox' = [inbox EXCEPT ![s] = Append(@, "control")] /\ "control" \in Answer
    BY DEF ServerControl, Answer
  <2> QED BY <1>1, <2>1, Appended
<1>5. \A u \in Session : controls[u] > 0 => controls'[u] > 0
  BY <1>2
<1>6. ControlSent'
  BY <1>3, <1>4, <1>5 DEF ControlSent, Answer
<1>7. NotYetSent' /\ CreatedOnce'
  BY <1>1, <1>5 DEF NotYetSent, CreatedOnce, Written, Flushes
<1>8. BothRegistered'
  BY <1>1, <1>4, <1>5 DEF Registered, Written, Flushes, Answer
<1> QED
  BY <1>6, <1>7, <1>8

\* The result of a command removes its registration; there is no second one on its way.
LEMMA ResultRegistry ==
  ASSUME ConnInv, Registry, NEW s \in Session, RxConnectResult(s) \/ RxCreateResult(s)
  PROVE  Registry'
<1> USE DEF Registry, BothRegistered
<1>1. UNCHANGED <<call, buffer, wire, answered, inbox, controls>>
  BY DEF RxConnectResult, RxCreateResult, net, peer, threads
<1>2. /\ rx[s] \in {"connectResult", "createResult"}
      /\ rx'[s] \notin Answer
      /\ \A u \in Session : u # s => rx'[u] = rx[u] /\ rx[u] \in {"none", "dead"} /\ inbox[u] = << >>
                                     /\ Written(u) = {}
  BY DEF RxConnectResult, RxCreateResult, RxAt, RxGoto, ConnInv, TypeOK, ThreadTypes, OneSession,
         Alive, Written, Answer
<1>3. ASSUME NEW u \in Session, NEW a \in Answer
      PROVE  (OnTheWay(u, a)' => OnTheWay(u, a)) /\ (AtMostOnce(u, a) => AtMostOnce(u, a)')
  BY <1>1, <1>2 DEF OnTheWay, AtMostOnce
<1>4. ControlSent'
  BY <1>1, <1>3 DEF ControlSent, Answer
<1>5. stream = s /\ s # None
  BY <1>2 DEF ConnInv, OneSession, Alive, Session, None
<1>6. /\ \A u \in Session : Written(u)' = Written(u)
      /\ Flushes("flushConnect")' = Flushes("flushConnect")
      /\ Flushes("flushCreate")' = Flushes("flushCreate")
  BY <1>1 DEF Written, Flushes
<1>7. CASE RxConnectResult(s)
  <2>1. /\ rx[s] = "connectResult" /\ "connect" \in answered[s] /\ "connect" \in invoked
        /\ invoked' = invoked \ {"connect"} /\ currentStreamId' = currentStreamId
    BY <1>7 DEF RxConnectResult, RxAt, ConnInv, AnswersKept, Promised
  <2>2. \A u \in Session : ~OnTheWay(u, "connectResult")'
    BY <1>1, <1>2, <2>1 DEF Registered, AtMostOnce, OnTheWay, Answer
  <2>3. NotYetSent'
    BY <1>1, <1>6, <2>1 DEF NotYetSent
  <2>4. CreatedOnce'
    BY <1>1, <1>6, <2>1 DEF CreatedOnce
  <2>5. Registered("connect", "connectResult", "flushConnect")'
    BY <1>1, <1>2, <1>3, <1>6, <2>1, <2>2 DEF Registered, Answer
  <2>6. Registered("createStream", "createResult", "flushCreate")'
    BY <1>1, <1>3, <1>6, <2>1 DEF Registered, Answer
  <2> QED
    BY <1>4, <2>3, <2>4, <2>5, <2>6
<1>8. CASE RxCreateResult(s)
  <2>1. /\ rx[s] = "createResult" /\ "createStream" \in answered[s] /\ "createStream" \in wire[s]
        /\ "createStream" \in invoked /\ invoked' = invoked \ {"createStream"} /\ currentStreamId' = s
        /\ connected' = connected
    BY <1>5, <1>8 DEF RxCreateResult, RxAt, ConnInv, AnswersKept, Promised
  <2>2. \A u \in Session : ~OnTheWay(u, "createResult")'
    BY <1>1, <1>2, <2>1 DEF Registered, AtMostOnce, OnTheWay, Answer
  <2>3. NotYetSent'
    BY <1>1, <1>6, <2>1 DEF NotYetSent
  <2>4. CreatedOnce'
    BY <1>5, <1>6, <2>1 DEF CreatedOnce, Written
  <2>5. Registered("createStream", "createResult", "flushCreate")'
    BY <1>1, <1>2, <1>3, <1>6, <2>1, <2>2 DEF Registered, Answer
  <2>6. Registered("connect", "connectResult", "flushConnect")'
    BY <1>1, <1>3, <1>6, <2>1 DEF Registered, Answer
  <2> QED
    BY <1>4, <2>3, <2>4, <2>5, <2>6
<1> QED
  BY <1>7, <1>8

\* The receive thread asks for publishing, or sends the metadata, only when both commands have been
\* answered.
LEMMA ReceiverNotEarly ==
  ASSUME ConnInv, NotYetSent, connected, currentStreamId # None
  PROVE  \A t \in Caller : call[t] \notin Early
<1>1. socket \in Session
  BY ConnAssumption DEF ConnInv, FlagsOfThisSession, TypeOK, FieldTypes, Session, None
<1> QED
  BY <1>1 DEF NotYetSent, Early

\* A receive thread keeps the register.
LEMMA RxRegistry ==
  ASSUME TypeInv, ConnInv, Registry, NEW s \in Session, RxStep(s)
  PROVE  Registry'
<1> USE DEF flags, net, peer, threads, rxs, RxAt, RxGoto
<1>0. rx \in [Session -> RxPc] /\ NetTypes
  BY DEF TypeInv, TypeOK, ThreadTypes
<1>1. CASE RxExit(s)
  BY <1>0, <1>1, QuietRegistry DEF RxExit, Later, NoAnswer, Answer
<1>2. CASE RxRead(s)
  BY <1>2, ReadRegistry
<1>3. CASE RxControl(s)
  <2>1. NoAnswer /\ Later /\ call' = call
    BY <1>0, <1>3 DEF RxControl, NoAnswer, Later, Answer
  <2>2. Grows({"control"})
    BY <1>0, <1>3, SendGrows DEF RxControl
  <2>3. stream = s /\ controls[s] > 0
    BY <1>3 DEF RxControl, Registry, ControlSent, OnTheWay, ConnInv, OneSession, Alive
  <2> QED
    BY <1>3, <2>1, <2>2, <2>3, WriteRegistry DEF RxControl
<1>4. CASE RxConnectResult(s) \/ RxCreateResult(s)
  BY <1>4, ResultRegistry
<1>5. CASE RxNotifyConnect(s)
  <2>1. NoAnswer /\ Later
    BY <1>0, <1>5 DEF RxNotifyConnect, NoAnswer, Later, Notify, Early, Connecting, Creating, PublishSteps, Answer
  <2> QED
    BY <1>5, <2>1, QuietRegistry DEF RxNotifyConnect
<1>6. CASE RxFmlePublish(s)
  <2>1. NoAnswer /\ Later
    BY <1>0, <1>6 DEF RxFmlePublish, NoAnswer, Later, Answer
  <2>2. CASE UNCHANGED <<buffer, wire>>
    BY <1>6, <2>1, <2>2, QuietRegistry DEF RxFmlePublish
  <2>3. CASE connected /\ currentStreamId # None /\ Send("publish")
    <3>1. \A t \in Caller : call[t] \notin Early
      BY <2>3, ReceiverNotEarly DEF Registry
    <3>2. Grows({"publish"})
      BY <1>0, <2>3, SendGrows
    <3> QED
      BY <1>6, <2>1, <3>1, <3>2, WriteRegistry DEF RxFmlePublish
  <2> QED
    BY <1>6, <2>2, <2>3 DEF RxFmlePublish
<1>7. CASE RxPublishStart(s)
  <2>0. NoAnswer
    BY <1>0, <1>7 DEF RxPublishStart, NoAnswer, Answer
  <2>1. Later
    BY <1>0, <1>7 DEF RxPublishStart, Later
  <2>2. connected /\ currentStreamId # None /\ Send("metadata")
    BY <1>7 DEF RxPublishStart, ConnInv, AnswersKept, Promised, Written
  <2>3. \A t \in Caller : call[t] \notin Early
    BY <2>2, ReceiverNotEarly DEF Registry
  <2>4. Grows({"metadata"})
    BY <1>0, <2>2, SendGrows
  <2> QED
    BY <1>7, <2>0, <2>1, <2>3, <2>4, WriteRegistry DEF RxPublishStart
<1>8. CASE RxPermit(s)
  BY <1>0, <1>8, QuietRegistry DEF RxPermit, Later, NoAnswer, Answer
<1>9. CASE RxNotifyPublish(s)
  <2>1. NoAnswer /\ Later
    BY <1>0, <1>9 DEF RxNotifyPublish, NoAnswer, Later, Notify, Early, Connecting, Creating, PublishSteps, Answer
  <2> QED
    BY <1>9, <2>1, QuietRegistry DEF RxNotifyPublish
<1>10. CASE RxNullPointer(s)
  BY <1>10, QuietRegistry DEF RxNullPointer, Later, NoAnswer
<1> QED
  BY <1>1, <1>2, <1>3, <1>4, <1>5, <1>6, <1>7, <1>8, <1>9, <1>10 DEF RxStep

\* The other threads are idle while one is inside a call.
LEMMA OthersIdle ==
  ASSUME TypeInv, ConnInv, NEW t \in Caller, ~Idle(t), NEW pc, Goto(t, pc)
  PROVE  /\ call'[t] = pc
         /\ \A u \in Caller : u # t => call[u] = "idle" /\ call'[u] = "idle"
BY DEF TypeInv, TypeOK, ThreadTypes, ConnInv, OneCall, Idle, At, Goto

\* connect() and publish(): a command is written, then registered, then flushed.
LEMMA CommandRegistry ==
  ASSUME TypeInv, ConnInv, Registry, NEW t \in Caller,
         \/ OpenSocket(t) \/ StartRx(t) \/ RtmpConnect(t) \/ FlushConnect(t)
         \/ SendCreateStream(t) \/ FlushCreateStream(t)
  PROVE  Registry'
<1> USE DEF flags, net, peer, rxs, At, Idle, Registry, BothRegistered
<1>1. NetTypes /\ rx \in [Session -> RxPc]
  BY DEF TypeInv, TypeOK, ThreadTypes
<1>2. UNCHANGED <<answered, inbox, controls, connected, currentStreamId>>
  BY DEF OpenSocket, StartRx, RtmpConnect, FlushConnect, SendCreateStream, FlushCreateStream
<1>3. NoAnswer
  BY <1>1 DEF OpenSocket, StartRx, RtmpConnect, FlushConnect, SendCreateStream, FlushCreateStream,
              NoAnswer, Answer
<1>4. \A s \in Session, a \in Answer :
        (OnTheWay(s, a)' => OnTheWay(s, a)) /\ (AtMostOnce(s, a) => AtMostOnce(s, a)')
  BY <1>2, <1>3, NoneNearer
<1>5. ControlSent'
  BY <1>2, <1>4 DEF ControlSent, Answer
<1>a. 1 \in Session
  BY ConnAssumption DEF Session
<1>6. CASE OpenSocket(t) \/ StartRx(t)
  <2>1. PICK pc \in {"startRx", "sendConnect"} : Goto(t, pc)
    BY <1>6 DEF OpenSocket, StartRx
  <2>2. ~Idle(t) /\ call[t] \in {"open", "startRx"}
    BY <1>6 DEF OpenSocket, StartRx
  <2>3. /\ call'[t] \in {"startRx", "sendConnect"}
        /\ \A u \in Caller : u # t => call[u] = "idle" /\ call'[u] = "idle"
    BY <2>1, <2>2, OthersIdle
  <2>4. UNCHANGED <<invoked, buffer, wire>>
    BY <1>6 DEF OpenSocket, StartRx
  <2>5. \A s \in Session : Written(s)' = Written(s) /\ Written(s) \subseteq {"control"}
    BY <2>2, <2>4 DEF NotYetSent, Connecting, Written
  <2>6. \A s \in Session, a \in {"connectResult", "createResult"} : ~OnTheWay(s, a)
    <3>1. ~Flushes("flushConnect") /\ ~Flushes("flushCreate") BY <2>2, <2>3 DEF Flushes
    <3>2. "connect" \notin invoked BY <1>a, <2>2 DEF NotYetSent, Connecting
    <3>3. "createStream" \notin invoked
      <4>1. \A s \in Session : "createStream" \notin Written(s) BY <2>5
      <4>2. \A u \in Caller : call[u] # "resetSocket" BY <2>2, <2>3
      <4> QED BY <4>1, <4>2 DEF CreatedOnce
    <3> QED BY <3>1, <3>2, <3>3 DEF Registered
  <2>7. NotYetSent'
    BY <1>2, <2>2, <2>3, <2>4, <2>5 DEF NotYetSent, Connecting, Creating
  <2>8. CreatedOnce'
    <3>1. \A s \in Session : "createStream" \notin Written(s) BY <2>5
    <3>2. \A u \in Caller : call[u] \notin {"resetSocket", "flushCreate"} /\ call'[u] # "flushCreate" BY <2>2, <2>3
    <3>3. "createStream" \notin invoked BY <3>1, <3>2 DEF CreatedOnce
    <3> QED BY <2>4, <2>5, <3>1, <3>2, <3>3 DEF CreatedOnce, Flushes
  <2>9. BothRegistered'
    BY <1>4, <2>5, <2>6 DEF Registered, Answer
  <2> QED
    BY <1>5, <2>7, <2>8, <2>9
<1>7. CASE RtmpConnect(t)
  <2>1. call[t] = "sendConnect" /\ ~connected
    BY <1>7 DEF RtmpConnect, NotYetSent, Connecting, ConnInv, FlagsOfThisSession, TypeOK, FieldTypes, Session, None
  <2>2. /\ call'[t] = "flushConnect"
        /\ \A u \in Caller : u # t => call[u] = "idle" /\ call'[u] = "idle"
    BY <1>7, <2>1, OthersIdle DEF RtmpConnect
  <2>3. Grows({"connect"}) /\ wire' = wire /\ invoked' = invoked
    BY <1>1, <1>7, <2>1, WriteGrows DEF RtmpConnect, Write
  <2>4. \A s \in Session : /\ Written(s) \subseteq {"control"} /\ wire[s] \subseteq {"control"}
                           /\ Written(s)' \subseteq {"connect", "control"}
    BY <2>1, <2>3 DEF NotYetSent, Connecting, Grows, Written
  <2>5. "connect" \notin invoked /\ "createStream" \notin invoked
    <3>1. \A s \in Session : "createStream" \notin Written(s) BY <2>4
    <3>2. \A u \in Caller : call[u] # "resetSocket" BY <2>1, <2>2
    <3> QED BY <1>a, <2>1, <3>1, <3>2 DEF NotYetSent, Connecting, CreatedOnce
  <2>6. NotYetSent'
    BY <1>2, <2>1, <2>2, <2>3, <2>4, <2>5 DEF NotYetSent, Connecting, Creating
  <2>7. CreatedOnce'
    BY <2>2, <2>3, <2>4, <2>5 DEF CreatedOnce, Flushes
  <2>8. Flushes("flushConnect")' /\ ~Flushes("flushConnect") /\ ~Flushes("flushCreate")
    BY <2>1, <2>2 DEF Flushes
  <2>9. \A s \in Session : ~OnTheWay(s, "connectResult") /\ ~OnTheWay(s, "createResult")
    BY <2>5, <2>8 DEF Registered
  <2>10. BothRegistered'
    BY <1>4, <2>4, <2>8, <2>9 DEF Registered, Answer
  <2> QED
    BY <1>5, <2>6, <2>7, <2>10
<1>8. CASE FlushConnect(t)
  <2>1. /\ call'[t] = "enterConnect" /\ call[t] = "flushConnect"
        /\ \A u \in Caller : u # t => call[u] = "idle" /\ call'[u] = "idle"
    BY <1>8, OthersIdle DEF FlushConnect
  <2>2. Grows({}) /\ invoked' = invoked \cup {"connect"}
    BY <1>1, <1>8, FlushGrows DEF FlushConnect
  <2>3. \A s \in Session : Written(s)' = Written(s) /\ Written(s) \subseteq {"connect", "control"}
    BY <2>1, <2>2 DEF NotYetSent, Connecting, Grows, Written
  <2>4. NotYetSent'
    BY <2>1 DEF NotYetSent, Connecting, Creating
  <2>5. "createStream" \notin invoked /\ ~Flushes("flushCreate")
    BY <2>1, <2>3 DEF CreatedOnce, Flushes
  <2>6. CreatedOnce'
    BY <2>1, <2>2, <2>3, <2>5 DEF CreatedOnce, Flushes
  <2>7. \A s \in Session : ~OnTheWay(s, "createResult")
    BY <2>5 DEF Registered
  <2>8. BothRegistered'
    BY <1>4, <2>2, <2>3, <2>7 DEF Registered, Answer
  <2> QED
    BY <1>5, <2>4, <2>6, <2>8
<1>9. CASE SendCreateStream(t)
  <2>1. /\ call'[t] = "flushCreate" /\ call[t] = "sendCreate"
        /\ \A u \in Caller : u # t => call[u] = "idle" /\ call'[u] = "idle"
    BY <1>9, OthersIdle DEF SendCreateStream
  <2>2. Grows({"createStream"}) /\ wire' = wire /\ invoked' = invoked
    BY <1>1, <1>9, WriteGrows DEF SendCreateStream, Write
  <2>3. \A s \in Session : "createStream" \notin wire[s] /\ ("connect" \in Written(s)' => "connect" \in Written(s))
    BY <2>1, <2>2 DEF NotYetSent, Grows, Written
  <2>4. NotYetSent'
    BY <1>2, <2>1, <2>2, <2>3 DEF NotYetSent, Connecting, Creating
  <2>5. CreatedOnce'
    <3>1. stream \in Session
      BY <2>1, ConnAssumption DEF ConnInv, CallState, CallFacts, FlagState, FlagsOfThisSession, TypeOK, FieldTypes,
         Session, None
    <3>2. \E s \in Session : "createStream" \in Written(s)' BY <2>2, <3>1 DEF Grows, Written
    <3>3. \E u \in Caller : call'[u] \in PublishSteps BY <2>1 DEF PublishSteps
    <3> QED BY <3>2, <3>3 DEF CreatedOnce
  <2>6. Flushes("flushCreate")' /\ ~Flushes("flushConnect") /\ ~Flushes("flushCreate")
    BY <2>1 DEF Flushes
  <2>7. BothRegistered'
    BY <1>2, <1>4, <2>2, <2>3, <2>6 DEF Registered, Answer
  <2> QED
    BY <1>5, <2>4, <2>5, <2>7
<1>10. CASE FlushCreateStream(t)
  <2>1. /\ call'[t] = "enterPublish" /\ call[t] = "flushCreate"
        /\ \A u \in Caller : u # t => call[u] = "idle" /\ call'[u] = "idle"
    BY <1>10, OthersIdle DEF FlushCreateStream
  <2>2. Grows({}) /\ invoked' = invoked \cup {"createStream"}
    BY <1>1, <1>10, FlushGrows DEF FlushCreateStream
  <2>3. \A s \in Session : Written(s)' = Written(s)
    BY <2>2 DEF Grows, Written
  <2>4. NotYetSent'
    BY <2>1 DEF NotYetSent, Connecting, Creating
  <2>5. stream \in Session /\ stream = socket
    BY <2>1, ConnAssumption DEF ConnInv, CallState, CallFacts, FlagState, FlagsOfThisSession, TypeOK, FieldTypes,
       Session, None
  <2>6. CreatedOnce'
    <3>1. \E u \in Caller : call'[u] \in PublishSteps BY <2>1 DEF PublishSteps
    <3>2. \E s \in Session : "createStream" \in Written(s)'
      <4>1. Flushes("flushCreate") /\ \A u \in Caller : call[u] # "resetSocket" BY <2>1 DEF Flushes
      <4> QED BY <2>3, <4>1 DEF CreatedOnce
    <3> QED BY <3>1, <3>2 DEF CreatedOnce
  <2>7. ~Flushes("flushConnect")
    BY <2>1 DEF Flushes
  <2>8. BothRegistered'
    BY <1>2, <1>4, <2>2, <2>3, <2>7 DEF Registered, Answer
  <2> QED
    BY <1>5, <2>4, <2>6, <2>8
<1> QED
  BY <1>6, <1>7, <1>8, <1>9, <1>10

\* Everything else a caller does inside a call.
LEMMA CallerRegistry ==
  ASSUME TypeInv, ConnInv, Registry, NEW t \in Caller, CallerStep(t)
  PROVE  Registry'
<1> USE DEF flags, net, peer, rxs, At, Goto, Return, Early, Connecting, Creating
<1>0. /\ NetTypes /\ call \in [Caller -> Step]
      /\ \A u \in Caller : call[t] # "idle" /\ u # t => call[u] = "idle"
  BY DEF TypeInv, TypeOK, ThreadTypes, ConnInv, OneCall, Idle
<1> DEFINE Still == Later /\ NoAnswer
<1>1. CASE OpenSocket(t) \/ StartRx(t) \/ RtmpConnect(t) \/ FlushConnect(t) \/ SendCreateStream(t)
           \/ FlushCreateStream(t)
  BY <1>1, CommandRegistry
<1>2. CASE OpenFails(t) \/ CheckConnected(t)
  <2>1. Still
    BY <1>0, <1>2 DEF OpenFails, CheckConnected, Later, NoAnswer, Early, PublishSteps
  <2> QED
    BY <1>2, <2>1, QuietRegistry DEF OpenFails, CheckConnected
<1>3. ASSUME \/ Wait(t, "enterConnect", "waitConnect", "checkConnect")
             \/ Timeout(t, "waitConnect", "checkConnect")
             \/ WaitInterrupted(t, "waitConnect", "checkConnect")
             \/ Wait(t, "enterPublish", "waitPublish", "checkPublish")
             \/ Timeout(t, "waitPublish", "checkPublish")
             \/ WaitInterrupted(t, "waitPublish", "checkPublish")
      PROVE  Registry'
  <2>1. Still
    BY <1>0, <1>3 DEF Wait, Timeout, WaitInterrupted, Later, NoAnswer, Early, PublishSteps
  <2> QED
    BY <1>3, <2>1, QuietRegistry DEF Wait, Timeout, WaitInterrupted
<1>4. CASE CheckPermitted(t)
  <2>1. publishPermitted => currentStreamId # None
    BY ConnAssumption DEF ConnInv, TypeOK, FieldTypes, FlagsOfThisSession, AnswersKept, Written,
                          Session, None
  <2>2. Still
    BY <1>0, <1>4, <2>1 DEF CheckPermitted, Later, NoAnswer, Early, PublishSteps
  <2> QED
    BY <1>4, <2>2, QuietRegistry DEF CheckPermitted
<1>5. ASSUME SendAudio(t) \/ SendVideo(t) PROVE Registry'
  <2>1. PICK m \in {"audio", "video"} : Send(m)
    BY <1>5 DEF SendAudio, SendVideo
  <2>2. Grows({m})
    BY <1>0, <2>1, SendGrows
  <2>3. Still /\ \A u \in Caller : call[u] \notin Early
    BY <1>0, <1>5 DEF SendAudio, SendVideo, Later, NoAnswer, Early, PublishSteps
  <2> QED
    BY <1>5, <2>2, <2>3, WriteRegistry DEF SendAudio, SendVideo
<1>6. CASE CloseStream(t)
  <2>1. Still /\ \A u \in Caller : call[u] \notin Early
    BY <1>0, <1>6 DEF CloseStream, Later, NoAnswer, Early, PublishSteps
  <2>2. CASE Send("closeStream")
    <3>1. Grows({"closeStream"})
      BY <1>0, <2>2, SendGrows
    <3> QED
      BY <1>6, <2>1, <3>1, WriteRegistry DEF CloseStream
  <2>3. CASE UNCHANGED <<buffer, wire>>
    BY <1>6, <2>1, <2>3, QuietRegistry DEF CloseStream
  <2> QED
    BY <1>6, <2>2, <2>3 DEF CloseStream
<1>7. CASE ShutdownSocket(t) \/ InterruptRx(t) \/ JoinRx(t) \/ CloseSocket(t)
  <2>1. Still
    BY <1>0, <1>7 DEF ShutdownSocket, InterruptRx, JoinRx, CloseSocket, Later, NoAnswer, Early,
                      PublishSteps
  <2> QED
    BY <1>7, <2>1, QuietRegistry DEF ShutdownSocket, InterruptRx, JoinRx, CloseSocket
<1>8. CASE Reset(t) \/ ResetSocket(t)
  <2>1. \A s \in Session : /\ buffer'[s] = {} /\ wire'[s] = {} /\ inbox'[s] = << >>
                           /\ rx'[s] \in {"none", "dead"}
    <3>1. CASE Reset(t) BY <3>1 DEF Reset, ConnInv, OneSession, CallState, CallFacts, Alive
    <3>2. CASE ResetSocket(t)
      <4>1. CallFacts(t) BY DEF ConnInv, CallState
      <4> QED BY <3>2, <4>1 DEF ResetSocket, CallFacts, Written, Alive
    <3> QED BY <1>8, <3>1, <3>2
  <2>2. \A u \in Caller : call'[u] \notin Early
    BY <1>0, <1>8 DEF Reset, ResetSocket
  <2>3. \A s \in Session, a \in {"connectResult", "createResult", "control"} :
          ~OnTheWay(s, a)' /\ AtMostOnce(s, a)'
    BY <2>1 DEF OnTheWay, AtMostOnce
  <2>a. call'[t] = "resetSocket" \/ invoked' = {}
    BY <1>0, <1>8 DEF Reset, ResetSocket
  <2>4. ControlSent' /\ NotYetSent' /\ CreatedOnce'
    BY <2>1, <2>2, <2>3, <2>a DEF ControlSent, NotYetSent, CreatedOnce, Written, Flushes
  <2>5. Registered("connect", "connectResult", "flushConnect")'
    BY <2>1, <2>3 DEF Registered, Written
  <2>6. Registered("createStream", "createResult", "flushCreate")'
    BY <2>1, <2>3 DEF Registered, Written
  <2> QED
    BY <2>4, <2>5, <2>6 DEF Registry, BothRegistered
<1>9. CASE ReturnFlag(t)
  <2>1. Still
    BY <1>0, <1>9 DEF ReturnFlag, Later, NoAnswer, Early, PublishSteps
  <2> QED
    BY <1>9, <2>1, QuietRegistry DEF ReturnFlag
<1>10. CASE NullPointer(t)
  BY <1>10, QuietRegistry DEF NullPointer, Later, NoAnswer, threads
<1> QED
  BY <1>1, <1>2, <1>3, <1>4, <1>5, <1>6, <1>7, <1>8, <1>9, <1>10 DEF CallerStep

\* A call begins when all threads are idle, and with a new session the register is empty.
LEMMA BeginRegistry ==
  ASSUME TypeInv, ConnInv, Registry, NEW t \in Caller, Call(t)
  PROVE  Registry'
<1> USE DEF flags, net, peer, rxs, At, Goto, Return, Begin, Idle, Early, Connecting, Creating
<1>0. /\ call \in [Caller -> Step] /\ \A u \in Caller : call[u] = "idle"
      /\ sockets \in Nat
  BY DEF TypeInv, TypeOK, ThreadTypes, FieldTypes, Call
<1>1. CASE socket = None /\ BeginConnect(t)
  <2>1. \A s \in Session : /\ buffer'[s] = {} /\ wire'[s] = {} /\ inbox'[s] = << >>
                           /\ rx'[s] \in {"none", "dead"}
    BY <1>1 DEF BeginConnect, ConnInv, OneSession, Alive, Session, None
  <2>2. \A s \in Session, a \in {"connectResult", "createResult", "control"} :
          ~OnTheWay(s, a)' /\ AtMostOnce(s, a)'
    BY <2>1 DEF OnTheWay, AtMostOnce
  <2>3. \A u \in Caller : call'[u] \in {"idle", "open"}
    BY <1>0, <1>1 DEF BeginConnect
  <2>a. ~connected' /\ invoked' = {}
    BY <1>1 DEF BeginConnect, ConnInv, FlagsOfThisSession
  <2>4. ControlSent' /\ NotYetSent' /\ CreatedOnce'
    BY <2>1, <2>2, <2>3, <2>a DEF ControlSent, NotYetSent, CreatedOnce, Written, Flushes
  <2>5. Registered("connect", "connectResult", "flushConnect")'
    BY <2>1, <2>2 DEF Registered, Written
  <2>6. Registered("createStream", "createResult", "flushCreate")'
    BY <2>1, <2>2 DEF Registered, Written
  <2> QED
    BY <2>4, <2>5, <2>6 DEF Registry, BothRegistered
<1>2. CASE ConnectBadUrl(t)
  <2>1. Later /\ NoAnswer
    BY <1>0, <1>2 DEF ConnectBadUrl, Later, NoAnswer
  <2> QED
    BY <1>2, <2>1, QuietRegistry DEF ConnectBadUrl
<1>3. CASE BeginPublish(t)
  <2>1. CASE connected /\ currentStreamId = None
    <3> USE DEF Registry, BothRegistered
    <3>1. /\ \A u \in Caller : call'[u] \in {"idle", "sendCreate"}
          /\ UNCHANGED <<buffer, wire, answered, inbox, controls, invoked, connected, currentStreamId, rx>>
      BY <1>0, <1>3, <2>1 DEF BeginPublish
    <3>2. \A s \in Session : "createStream" \notin Written(s)
      BY <1>0, <2>1 DEF CreatedOnce, PublishSteps
    <3>3. ControlSent'
      BY <3>1 DEF ControlSent, OnTheWay
    <3>4. "createStream" \notin invoked /\ ~Flushes("flushConnect") /\ ~Flushes("flushCreate")
      BY <1>0, <3>2 DEF CreatedOnce, Flushes
    <3>5. NotYetSent' /\ CreatedOnce'
      BY <2>1, <3>1, <3>2, <3>4 DEF NotYetSent, CreatedOnce, Written, Flushes
    <3>6. Registered("connect", "connectResult", "flushConnect")'
      BY <3>1, <3>4 DEF Registered, OnTheWay, AtMostOnce, Written
    <3>7. Registered("createStream", "createResult", "flushCreate")'
      BY <3>1, <3>4 DEF Registered, OnTheWay, AtMostOnce, Written
    <3> QED
      BY <3>3, <3>5, <3>6, <3>7
  <2>2. CASE ~connected \/ currentStreamId # None
    <3>1. Later /\ NoAnswer
      BY <1>0, <1>3, <2>2 DEF BeginPublish, Later, NoAnswer
    <3> QED
      BY <1>3, <3>1, QuietRegistry DEF BeginPublish
  <2> QED
    BY <2>1, <2>2
<1>4. CASE BeginMedia(t, "sendAudio") \/ BeginMedia(t, "sendVideo")
  <2>1. Later /\ NoAnswer
    BY <1>0, <1>4 DEF BeginMedia, Later, NoAnswer, Early, PublishSteps
  <2> QED
    BY <1>4, <2>1, QuietRegistry DEF BeginMedia
<1>5. CASE BeginClose(t)
  <2>1. Later /\ NoAnswer
    BY <1>0, <1>5 DEF BeginClose, Later, NoAnswer, Early, PublishSteps
  <2> QED
    BY <1>5, <2>1, QuietRegistry DEF BeginClose
<1> QED
  BY <1>1, <1>2, <1>3, <1>4, <1>5 DEF Call

\* The server and the network.
LEMMA ServerRegistry ==
  ASSUME TypeInv, ConnInv, Registry, NEW s \in Session, ServerStep(s)
  PROVE  Registry'
<1>1. CASE ServerAnswer(s)
  BY <1>1, AnswerRegistry
<1>2. CASE ServerControl(s)
  BY <1>2, ControlRegistry
<1>3. CASE LinkLost(s)
  BY <1>3, QuietRegistry DEF LinkLost, Later, NoAnswer, flags, peer, threads, rxs
<1> QED
  BY <1>1, <1>2, <1>3 DEF ServerStep

\* Only the thread inside the call resets the socket.
LEMMA OpenStep ==
  ASSUME TypeInv, ConnInv, OpenHasSocket, [ConnNext]_connVars
  PROVE  OpenHasSocket'
<1> USE DEF flags, fields, net, peer, threads, rxs, At, Goto, Return, Begin, Idle, OpenHasSocket
<1>0. /\ call \in [Caller -> Step] /\ sockets \in Nat
      /\ \A t, u \in Caller : call[t] # "idle" /\ call[u] # "idle" => t = u
  BY DEF TypeInv, TypeOK, ThreadTypes, FieldTypes, ConnInv, OneCall
<1>1. ASSUME NEW t \in Caller, Call(t) PROVE OpenHasSocket'
  BY <1>0, <1>1 DEF Call, BeginConnect, ConnectBadUrl, BeginPublish, BeginMedia, BeginClose, None
<1>2. ASSUME NEW t \in Caller, Interrupt(t) PROVE OpenHasSocket'
  BY <1>2 DEF Interrupt
<1>3. ASSUME NEW t \in Caller, CallerStep(t) PROVE OpenHasSocket'
  <2>1. CASE ResetSocket(t)
    BY <1>0, <2>1 DEF ResetSocket
  <2>2. CASE ~ResetSocket(t)
    <3>1. socket' = socket
      BY <1>3, <2>2 DEF CallerStep, OpenSocket, OpenFails, StartRx, RtmpConnect, FlushConnect, Wait,
           Timeout, WaitInterrupted, CheckConnected, SendCreateStream, FlushCreateStream,
           CheckPermitted, SendAudio, SendVideo, CloseStream, ShutdownSocket, InterruptRx, JoinRx,
           CloseSocket, Reset, ReturnFlag, NullPointer
    <3>2. \A u \in Caller : call'[u] = "open" => call[u] = "open"
      BY <1>0, <1>3, <2>2 DEF CallerStep, OpenSocket, OpenFails, StartRx, RtmpConnect, FlushConnect,
           Wait, Timeout, WaitInterrupted, CheckConnected, SendCreateStream, FlushCreateStream,
           CheckPermitted, SendAudio, SendVideo, CloseStream, ShutdownSocket, InterruptRx, JoinRx,
           CloseSocket, Reset, ReturnFlag, NullPointer
    <3> QED
      BY <3>1, <3>2
  <2> QED
    BY <2>1, <2>2
<1>4. ASSUME NEW s \in Session, RxStep(s) PROVE OpenHasSocket'
  BY <1>0, <1>4 DEF RxStep, RxExit, RxRead, RxControl, RxConnectResult, RxNotifyConnect,
       RxCreateResult, RxFmlePublish, RxPublishStart, RxPermit, RxNotifyPublish, RxNullPointer,
            Notify
<1>5. ASSUME NEW s \in Session, ServerStep(s) PROVE OpenHasSocket'
  BY <1>5 DEF ServerStep, ServerAnswer, ServerControl, LinkLost
<1>6. CASE CacheVideoFrame
  BY <1>6 DEF CacheVideoFrame
<1>7. CASE UNCHANGED connVars
  BY <1>7 DEF connVars
<1> QED
  BY <1>1, <1>2, <1>3, <1>4, <1>5, <1>6, <1>7 DEF ConnNext

\* No thread meets a field that was reset, and only a result that overtakes the registration of its
\* command finds none.
LEMMA NoNullPointer ==
  ASSUME TypeInv, ConnInv, Registry, OpenHasSocket
  PROVE  /\ \A t \in Caller : ~NullPointer(t)
         /\ \A s \in Session : RxNullPointer(s) =>
              /\ socket # None
              /\ \/ Overtaken("connectResult", "connect", "flushConnect")
                 \/ Overtaken("createResult", "createStream", "flushCreate")
<1>1. connected => socket # None
  BY DEF ConnInv, FlagsOfThisSession
<1>2. ASSUME NEW t \in Caller PROVE ~NullPointer(t)
  BY <1>1 DEF NullPointer, OpenHasSocket, ConnInv, CallState, CallFacts, MayPublish, At
<1>3. ASSUME NEW s \in Session, RxNullPointer(s)
      PROVE  /\ socket # None
             /\ \/ Overtaken("connectResult", "connect", "flushConnect")
                \/ Overtaken("createResult", "createStream", "flushCreate")
  <2>1. Alive(s) => socket # None
    BY DEF ConnInv, OneSession, Session, None
  <2>2. Alive(s)
    BY <1>3 DEF RxNullPointer, RxAt, Alive
  <2>3. \/ rx[s] = "connectResult" /\ "connect" \notin invoked
        \/ rx[s] = "createResult" /\ "createStream" \notin invoked
    BY <1>3, <2>1, <2>2 DEF RxNullPointer, RxAt
  <2>4. CASE rx[s] = "connectResult" /\ "connect" \notin invoked
    <3>1. controls[s] > 0 /\ Flushes("flushConnect")
      BY <2>4 DEF Registry, BothRegistered, Registered, OnTheWay
    <3> QED BY <2>1, <2>2, <2>4, <3>1 DEF Overtaken, Flushes, At
  <2>5. CASE rx[s] = "createResult" /\ "createStream" \notin invoked
    <3>1. controls[s] > 0 /\ Flushes("flushCreate")
      BY <2>5 DEF Registry, BothRegistered, Registered, OnTheWay
    <3> QED BY <2>1, <2>2, <2>5, <3>1 DEF Overtaken, Flushes, At
  <2> QED
    BY <2>3, <2>4, <2>5
<1> QED
  BY <1>2, <1>3

\* Every other step leaves the process alive.
LEMMA CrashStep ==
  ASSUME TypeInv, TypeInv', ConnInv, RegistryInv, [ConnNext]_connVars
  PROVE  NoCrash'
<1> USE DEF flags, fields, net, peer, threads, rxs, RegistryInv
<1>2. CASE UNCHANGED connVars
  BY <1>2 DEF connVars, NoCrash, Overtaken, At
<1>3. CASE ConnNext
  <2>1. crashed' => \E s \in Session : RxNullPointer(s)
    <3>1. ~crashed
      BY <1>3 DEF ConnNext
    <3>2. ASSUME NEW t \in Caller, Call(t) \/ Interrupt(t) PROVE crashed' = crashed
      BY <3>2 DEF Call, BeginConnect, ConnectBadUrl, BeginPublish, BeginMedia, BeginClose, Interrupt
    <3>3. ASSUME NEW t \in Caller, CallerStep(t) PROVE crashed' = crashed
      BY <3>3, NoNullPointer DEF CallerStep, OpenSocket, OpenFails, StartRx, RtmpConnect,
                                 FlushConnect,
           Wait, Timeout, WaitInterrupted, CheckConnected, SendCreateStream, FlushCreateStream,
           CheckPermitted, SendAudio, SendVideo, CloseStream, ShutdownSocket, InterruptRx, JoinRx,
           CloseSocket, Reset, ResetSocket, ReturnFlag
    <3>4. ASSUME NEW s \in Session, RxStep(s) PROVE crashed' = crashed \/ RxNullPointer(s)
      BY <3>4 DEF RxStep, RxExit, RxRead, RxControl, RxConnectResult, RxNotifyConnect,
           RxCreateResult, RxFmlePublish, RxPublishStart, RxPermit, RxNotifyPublish
    <3>5. ASSUME NEW s \in Session, ServerStep(s) PROVE crashed' = crashed
      BY <3>5 DEF ServerStep, ServerAnswer, ServerControl, LinkLost
    <3>6. CASE CacheVideoFrame
      BY <3>1, <3>6 DEF CacheVideoFrame
    <3> QED
      BY <1>3, <3>1, <3>2, <3>3, <3>4, <3>5, <3>6 DEF ConnNext
  <2>2. ASSUME NEW s \in Session, RxNullPointer(s) PROVE NoCrash'
    <3>1. UNCHANGED <<socket, invoked, rx, controls, call>> BY <2>2 DEF RxNullPointer
    <3>2. /\ socket # None
          /\ \/ Overtaken("connectResult", "connect", "flushConnect")
             \/ Overtaken("createResult", "createStream", "flushCreate")
      BY <2>2, NoNullPointer
    <3> QED BY <3>1, <3>2 DEF NoCrash, Overtaken, At
  <2> QED
    BY <2>1, <2>2 DEF NoCrash
<1> QED
  BY <1>2, <1>3

\* A step that asks for nothing, and after which no receive thread is about to do so.
LEMMA QuietPublished ==
  ASSUME Published, NEW M, Grows(M), "publish" \notin M,
         \A s \in Session : rx'[s] = rx[s] \/ rx'[s] \notin Answer \cup {"fmlePublish", "permit"},
         UNCHANGED <<answered, inbox, publishPermitted>>
  PROVE  Published'
<1>1. \A s \in Session : "publish" \in Written(s)' <=> "publish" \in Written(s)
  BY DEF Written, Grows
<1>2. NoAnswer
  BY DEF NoAnswer
<1>3. ASSUME NEW s \in Session, NEW a \in Answer
      PROVE  (OnTheWay(s, a)' => OnTheWay(s, a)) /\ (AtMostOnce(s, a) => AtMostOnce(s, a)')
  BY <1>2, NoneNearer
<1> QED
  BY <1>1, <1>3 DEF Published, Answer

\* No calling thread asks to publish, and reset() forgets everything that was asked.
LEMMA PublishedCaller ==
  ASSUME TypeInv, ConnInv, Published, NEW t \in Caller, CallerStep(t)
  PROVE  Published'
<1> USE DEF flags, net, peer, rxs
<1>1. NetTypes
  BY DEF TypeInv, TypeOK
<1>2. CASE Reset(t)
  <2>1. \A s \in Session : /\ buffer'[s] = {} /\ wire'[s] = {} /\ inbox'[s] = << >>
                           /\ rx'[s] \in {"none", "dead"}
    BY <1>2 DEF Reset, ConnInv, OneSession, CallState, CallFacts, Alive, At
  <2> QED
    BY <2>1 DEF Published, OnTheWay, AtMostOnce, Written
<1>3. CASE StartRx(t)
  <2>1. Grows({}) BY <1>3, NothingGrows DEF StartRx
  <2>2. rx \in [Session -> RxPc] BY DEF TypeInv, TypeOK, ThreadTypes
  <2> QED BY <1>3, <2>1, <2>2, QuietPublished DEF StartRx, Answer
<1>4. CASE ~Reset(t) /\ ~StartRx(t)
  <2>1. UNCHANGED <<rx, answered, inbox, publishPermitted>>
    BY <1>4 DEF CallerStep, OpenSocket, OpenFails, RtmpConnect, FlushConnect, Wait, Timeout,
       WaitInterrupted, CheckConnected, SendCreateStream, FlushCreateStream, CheckPermitted, SendAudio,
       SendVideo, CloseStream, ShutdownSocket, InterruptRx, JoinRx, CloseSocket, ResetSocket,
       ReturnFlag, NullPointer
  <2>2. \/ UNCHANGED <<buffer, wire>> \/ Flush
        \/ \E m \in {"connect", "createStream", "audio", "video", "closeStream"} : Write(m) \/ Send(m)
    BY <1>4 DEF CallerStep, OpenSocket, OpenFails, RtmpConnect, FlushConnect, Wait, Timeout,
       WaitInterrupted, CheckConnected, SendCreateStream, FlushCreateStream, CheckPermitted, SendAudio,
       SendVideo, CloseStream, ShutdownSocket, InterruptRx, JoinRx, CloseSocket, ResetSocket,
       ReturnFlag, NullPointer
  <2>3. CASE UNCHANGED <<buffer, wire>> \/ Flush
    <3>1. Grows({}) BY <1>1, <2>3, NothingGrows, FlushGrows
    <3> QED BY <2>1, <3>1, QuietPublished
  <2>4. ASSUME NEW m \in {"connect", "createStream", "audio", "video", "closeStream"}, Write(m) \/ Send(m)
        PROVE  Published'
    <3>1. Grows({m}) BY <1>1, <2>4, WriteGrows, SendGrows
    <3> QED BY <2>1, <3>1, QuietPublished
  <2> QED
    BY <2>2, <2>3, <2>4
<1> QED
  BY <1>2, <1>3, <1>4

\* The receive thread asks once, when it has the result of createStream, and there is one result.
LEMMA PublishedRx ==
  ASSUME TypeInv, ConnInv, Registry, Published, NEW s \in Session, RxStep(s)
  PROVE  Published'
<1> USE DEF flags, net, peer, threads, rxs, RxAt, RxGoto
<1>0. rx \in [Session -> RxPc] /\ NetTypes
  BY DEF TypeInv, TypeOK, ThreadTypes
<1>a. Alive(s) => \A u \in Session : u # s => rx[u] \in {"none", "dead"} /\ inbox[u] = << >>
  BY DEF ConnInv, OneSession, Alive
<1>1. CASE RxExit(s) \/ RxConnectResult(s) \/ RxNotifyConnect(s) \/ RxNotifyPublish(s) \/ RxNullPointer(s)
  <2>1. UNCHANGED <<buffer, wire, answered, inbox, publishPermitted>>
    BY <1>1 DEF RxExit, RxConnectResult, RxNotifyConnect, RxNotifyPublish, RxNullPointer
  <2>2. \A u \in Session : rx'[u] = rx[u] \/ rx'[u] \notin Answer \cup {"fmlePublish", "permit"}
    BY <1>0, <1>1 DEF RxExit, RxConnectResult, RxNotifyConnect, RxNotifyPublish, RxNullPointer, Answer
  <2>3. Grows({}) BY <2>1, NothingGrows
  <2> QED BY <2>1, <2>2, <2>3, QuietPublished
<1>2. CASE RxControl(s)
  <2>1. Grows({"control"}) BY <1>0, <1>2, SendGrows DEF RxControl
  <2>2. \A u \in Session : rx'[u] = rx[u] \/ rx'[u] \notin Answer \cup {"fmlePublish", "permit"}
    BY <1>0, <1>2 DEF RxControl, Answer
  <2> QED BY <1>2, <2>1, <2>2, QuietPublished DEF RxControl
<1>3. CASE RxRead(s)
  <2>1. UNCHANGED <<buffer, wire, answered, publishPermitted>>
    BY <1>3 DEF RxRead
  <2>2. \A u \in Session, a \in Answer :
          (OnTheWay(u, a)' => OnTheWay(u, a)) /\ (AtMostOnce(u, a) => AtMostOnce(u, a)')
    BY <1>3, ReadMoves
  <2>3. /\ stream \in Session /\ inbox[stream] \in Seq(Answer) /\ inbox[stream] # << >>
    BY <1>0, <1>3 DEF RxRead, TypeInv, RxHasStream, NetTypes
  <2>4. Head(inbox[stream]) \in Answer
    BY <2>3
  <2>5. \A u \in Session : rx'[u] = rx[u] \/ rx'[u] \in Answer
    BY <1>0, <1>3, <2>4 DEF RxRead
  <2> QED
    BY <2>1, <2>2, <2>5 DEF Published, Written, Answer
<1>4. CASE RxCreateResult(s)
  <2>1. /\ rx[s] = "createResult" /\ rx'[s] \in {"fmlePublish", "loop"}
        /\ \A u \in Session : u # s => rx'[u] = rx[u]
        /\ UNCHANGED <<buffer, wire, answered, inbox, publishPermitted>>
    BY <1>0, <1>4 DEF RxCreateResult
  <2>2. "createStream" \in answered[s] /\ OnTheWay(s, "createResult")
    BY <2>1 DEF ConnInv, AnswersKept, Promised, OnTheWay
  <2>3. \A u \in Session : ~OnTheWay(u, "createResult")'
    BY <1>a, <2>1 DEF Registry, BothRegistered, Registered, AtMostOnce, OnTheWay, Alive
  <2>4. "publish" \notin Written(s)
    BY <2>2 DEF Published
  <2>5. NoAnswer BY <2>1 DEF NoAnswer, Answer
  <2>6. \A u \in Session, a \in Answer :
          (OnTheWay(u, a)' => OnTheWay(u, a)) /\ (AtMostOnce(u, a) => AtMostOnce(u, a)')
    BY <2>1, <2>5, NoneNearer
  <2> QED
    BY <2>1, <2>2, <2>3, <2>4, <2>6 DEF Published, Written, Answer
<1>5. CASE RxFmlePublish(s)
  <2>1. /\ rx[s] = "fmlePublish" /\ rx'[s] = "loop"
        /\ \A u \in Session : u # s => rx'[u] = rx[u] /\ rx[u] \in {"none", "dead"}
        /\ UNCHANGED <<answered, inbox, publishPermitted>>
    BY <1>0, <1>5, <1>a DEF RxFmlePublish, Alive
  <2>2. NoAnswer BY <2>1 DEF NoAnswer, Answer
  <2>3. \A u \in Session, a \in Answer :
          (OnTheWay(u, a)' => OnTheWay(u, a)) /\ (AtMostOnce(u, a) => AtMostOnce(u, a)')
    BY <2>1, <2>2, NoneNearer
  <2>4. Grows({"publish"}) \/ Grows({})
    BY <1>0, <1>5, SendGrows, NothingGrows DEF RxFmlePublish
  <2>5. s = stream
    BY <2>1 DEF ConnInv, OneSession, Alive
  <2>6. \A u \in Session : u # s => Written(u)' = Written(u)
    BY <2>4, <2>5 DEF Grows, Written
  <2> QED
    BY <2>1, <2>3, <2>6 DEF Published, Answer
<1>6. CASE RxPublishStart(s)
  <2>1. /\ rx[s] = "publishStart" /\ rx'[s] = "permit"
        /\ \A u \in Session : u # s => rx'[u] = rx[u]
        /\ UNCHANGED <<answered, inbox, publishPermitted>>
    BY <1>0, <1>6 DEF RxPublishStart
  <2>2. NoAnswer BY <2>1 DEF NoAnswer, Answer
  <2>3. \A u \in Session, a \in Answer :
          (OnTheWay(u, a)' => OnTheWay(u, a)) /\ (AtMostOnce(u, a) => AtMostOnce(u, a)')
    BY <2>1, <2>2, NoneNearer
  <2>4. Grows({"metadata"}) \/ Grows({})
    BY <1>0, <1>6, SendGrows, NothingGrows DEF RxPublishStart
  <2>5. \A u \in Session : "publish" \in Written(u)' <=> "publish" \in Written(u)
    BY <2>4 DEF Grows, Written
  <2>6. ~OnTheWay(s, "publishStart")'
    BY <2>1 DEF Published, AtMostOnce, OnTheWay
  <2> QED
    BY <2>1, <2>3, <2>5, <2>6 DEF Published, Answer
<1>7. CASE RxPermit(s)
  <2>1. /\ rx[s] = "permit" /\ rx'[s] = "notifyPublish"
        /\ \A u \in Session : u # s => rx'[u] = rx[u]
        /\ UNCHANGED <<buffer, wire, answered, inbox>>
    BY <1>0, <1>7 DEF RxPermit
  <2>2. NoAnswer BY <2>1 DEF NoAnswer, Answer
  <2>3. \A u \in Session, a \in Answer :
          (OnTheWay(u, a)' => OnTheWay(u, a)) /\ (AtMostOnce(u, a) => AtMostOnce(u, a)')
    BY <2>1, <2>2, NoneNearer
  <2>4. \A u \in Session : ~OnTheWay(u, "publishStart")
    BY <1>a, <2>1 DEF Published, OnTheWay, Alive
  <2> QED
    BY <2>1, <2>3, <2>4 DEF Published, Written, Answer
<1> QED
  BY <1>1, <1>2, <1>3, <1>4, <1>5, <1>6, <1>7 DEF RxStep

\* The server permits publishing once, after it was asked.
LEMMA PublishedServer ==
  ASSUME TypeInv, ConnInv, Published, NEW s \in Session, ServerStep(s)
  PROVE  Published'
<1> USE DEF flags, threads, rxs
<1>1. CASE ServerAnswer(s)
  <2>1. PICK m \in (wire[s] \ answered[s]) \cap {"connect", "createStream", "publish"} :
          /\ answered' = [answered EXCEPT ![s] = @ \cup {m}]
          /\ inbox' = [inbox EXCEPT ![s] = Append(@, AnswerTo(m))]
    BY <1>1 DEF ServerAnswer
  <2>2. UNCHANGED <<rx, buffer, wire, publishPermitted>>
    BY <1>1 DEF ServerAnswer
  <2>3. /\ answered'[s] = answered[s] \cup {m}
        /\ \A u \in Session : u # s => answered'[u] = answered[u]
    BY <2>1 DEF TypeInv, TypeOK, NetTypes
  <2> DEFINE b == AnswerTo(m)
  <2>4. b \in Answer /\ (b = "publishStart" <=> m = "publish") /\ (b = "createResult" <=> m = "createStream")
    BY <2>1 DEF AnswerTo, Answer
  <2>5. ~OnTheWay(s, b)
    BY <2>1 DEF ConnInv, AnswersKept, Promised, OnTheWay, AnswerTo
  <2>6. \A u \in Session, a \in Answer :
          /\ OnTheWay(u, a)' => OnTheWay(u, a) \/ (u = s /\ a = b)
          /\ AtMostOnce(u, a) => AtMostOnce(u, a)'
    <3>1. inbox' = [inbox EXCEPT ![s] = Append(@, b)] /\ b \in Answer /\ rx' = rx BY <2>1, <2>2, <2>4
    <3> HIDE DEF b
    <3> QED BY <2>5, <3>1, Appended
  <2>7. m = "publish" => ~publishPermitted /\ rx[s] # "permit"
    <3>1. wire[s] # {} BY <2>1
    <3>2. s = socket BY <3>1 DEF ConnInv, OneSession
    <3> QED BY <2>1, <3>2 DEF ConnInv, FlagsOfThisSession, AnswersKept
  <2>8. \A u \in Session : Written(u)' = Written(u)
    BY <2>2 DEF Written
  <2>9. m = "createStream" => rx[s] # "fmlePublish" /\ "publish" \notin Written(s)
    BY <2>1 DEF Published
  <2> HIDE DEF b
  <2> QED
    BY <2>2, <2>3, <2>4, <2>6, <2>7, <2>8, <2>9 DEF Published, Answer
<1>2. CASE ServerControl(s)
  <2>1. UNCHANGED <<rx, buffer, wire, answered, publishPermitted>>
    BY <1>2 DEF ServerControl
  <2>2. inbox' = [inbox EXCEPT ![s] = Append(@, "control")] /\ "control" \in Answer /\ rx' = rx
    BY <1>2 DEF ServerControl, Answer
  <2>3. ASSUME NEW u \in Session, NEW a \in Answer \ {"control"}
        PROVE  (OnTheWay(u, a)' => OnTheWay(u, a)) /\ (AtMostOnce(u, a) => AtMostOnce(u, a)')
    BY <2>2, Appended
  <2>4. {"createResult", "publishStart"} \subseteq Answer \ {"control"} BY DEF Answer
  <2> QED
    BY <2>1, <2>3, <2>4 DEF Published, Written
<1>3. CASE LinkLost(s)
  <2>1. Grows({}) BY <1>3, NothingGrows DEF LinkLost
  <2> QED BY <1>3, <2>1, QuietPublished DEF LinkLost, peer
<1> QED
  BY <1>1, <1>2, <1>3 DEF ServerStep

\* What all threads together do.
LEMMA PublishedNext ==
  ASSUME TypeInv, ConnInv, Registry, Published, [ConnNext]_connVars
  PROVE  Published'
<1>1. ASSUME NEW t \in Caller, Call(t) \/ Interrupt(t) PROVE Published'
  <2>1. UNCHANGED <<buffer, wire, rx, answered, inbox, publishPermitted>>
    BY <1>1 DEF Call, BeginConnect, ConnectBadUrl, BeginPublish, BeginMedia, BeginClose, Interrupt,
       flags, net, peer, rxs
  <2>2. Grows({}) BY <2>1, NothingGrows
  <2> QED BY <2>1, <2>2, QuietPublished
<1>2. ASSUME NEW t \in Caller, CallerStep(t) PROVE Published'
  BY <1>2, PublishedCaller
<1>3. ASSUME NEW s \in Session, RxStep(s) \/ ServerStep(s) PROVE Published'
  BY <1>3, PublishedRx, PublishedServer
<1>4. CASE CacheVideoFrame \/ UNCHANGED connVars
  <2>1. UNCHANGED <<buffer, wire, rx, answered, inbox, publishPermitted>>
    BY <1>4 DEF CacheVideoFrame, connVars, flags, net, peer, rxs
  <2>2. Grows({}) BY <2>1, NothingGrows
  <2> QED BY <2>1, <2>2, QuietPublished
<1> QED
  BY <1>1, <1>2, <1>3, <1>4 DEF ConnNext

\* Together: the register is kept by every step.
LEMMA RegistryInvNext ==
  ASSUME Interruptible = {}, TypeInv, TypeInv', ConnInv, RegistryInv, [ConnNext]_connVars
  PROVE  RegistryInv'
<1>1. Registry'
  <2> USE DEF RegistryInv
  <2>1. ASSUME NEW t \in Caller, Call(t) \/ Interrupt(t) \/ CallerStep(t) PROVE Registry'
    <3>1. ~Interrupt(t)
      BY DEF Interrupt
    <3> QED
      BY <2>1, <3>1, BeginRegistry, CallerRegistry
  <2>2. ASSUME NEW s \in Session, RxStep(s) \/ ServerStep(s) PROVE Registry'
    BY <2>2, RxRegistry, ServerRegistry
  <2>3. CASE CacheVideoFrame \/ UNCHANGED connVars
    BY <2>3, QuietRegistry
       DEF CacheVideoFrame, connVars, Later, NoAnswer, flags, fields, net, peer, threads, rxs
  <2> QED
    BY <2>1, <2>2, <2>3 DEF ConnNext
<1>2. Published'
  BY PublishedNext DEF RegistryInv
<1>3. OpenHasSocket' /\ NoCrash'
  BY OpenStep, CrashStep DEF RegistryInv
<1> QED
  BY <1>1, <1>2, <1>3 DEF RegistryInv

\* At the beginning nothing is registered and nothing is on its way.
LEMMA RegistryInvInit == ASSUME ConnInit PROVE RegistryInv
<1> USE DEF ConnInit
<1>1. \A s \in Session : Written(s) = {} /\ rx[s] = "none" /\ inbox[s] = << >>
  BY DEF Written
<1>2. \A t \in Caller : call[t] = "idle"
  OBVIOUS
<1>3. ControlSent /\ NotYetSent /\ CreatedOnce
  BY <1>1, <1>2 DEF ControlSent, OnTheWay, NotYetSent, Connecting, Creating, CreatedOnce, Flushes
<1>4. BothRegistered
  BY <1>1 DEF BothRegistered, Registered, OnTheWay, AtMostOnce
<1>5. Published
  BY <1>1 DEF Published, OnTheWay, AtMostOnce
<1>6. OpenHasSocket /\ NoCrash
  BY <1>2 DEF OpenHasSocket, NoCrash
<1> QED
  BY <1>3, <1>4, <1>5, <1>6 DEF RegistryInv, Registry

\* The invariants behind the two theorems hold together.
LEMMA RegistryInvAlways ==
  ASSUME Interruptible = {} PROVE Spec => [](TypeInv /\ ConnInv /\ RegistryInv)
<1> DEFINE Inv == TypeInv /\ ConnInv /\ Uninterrupted /\ RegistryInv
<1>1. ConnInit => Inv
  BY TypeInit, ConnInvInit, RegistryInvInit DEF ConnInit, Uninterrupted
<1>2. Inv /\ [ConnNext]_connVars => Inv'
  BY TypeNext, ConnInvNext, UninterruptedNext, RegistryInvNext
<1> QED
  BY <1>1, <1>2, PTL DEF Spec

\* When no thread is interrupted inside a call, the client never dies of a field that was reset
\* under it; and a result finds its command, whatever the server sends besides, unless a reply to a
\* control message has flushed the command before it was registered and its writer is still there
\* (RtmpConnection:379, 493-501, 582).
THEOREM NoCrashHolds == ASSUME Interruptible = {} PROVE Spec => []NoCrash
<1>1. RegistryInv => NoCrash
  BY DEF RegistryInv
<1> QED
  BY <1>1, RegistryInvAlways, PTL

\* Then, too, the receive thread and a calling thread never write their messages into each other,
\* except for the replies to control messages: commands are written before the answers that make the
\* receive thread write, and it has asked to publish, and sent the metadata, before anybody may send
\* media (RtmpConnection:493, 599-606, 616-623).
THEOREM WritesApartHolds == ASSUME Interruptible = {} PROVE Spec => []WritesApart
<1>1. TypeInv /\ ConnInv /\ RegistryInv => WritesApart
  <2> SUFFICES ASSUME TypeInv, ConnInv, RegistryInv, NEW t \in Caller, NEW s \in Session,
                      AtWrite(t), RxAtWrite(s), ~RxAt(s, "control")
               PROVE  FALSE
    BY DEF WritesApart
  <2>1. rx[s] \in {"fmlePublish", "publishStart"} /\ connected /\ currentStreamId # None
    BY DEF RxAtWrite
  <2>2. call[t] \notin Early
    BY <2>1, ReceiverNotEarly DEF RegistryInv, Registry
  <2>3. publishPermitted
    BY <2>2 DEF AtWrite, At, MayPublish, Early, Connecting, Creating, ConnInv, CallState, CallFacts
  <2>4. s = socket
    BY <2>1 DEF ConnInv, OneSession, Alive
  <2>5. "publish" \in answered[s] /\ answered[s] \subseteq Written(s)
    BY <2>3, <2>4 DEF ConnInv, FlagsOfThisSession, AnswersKept, Written
  <2>6. rx[s] # "fmlePublish" /\ ~OnTheWay(s, "publishStart")
    BY <2>3, <2>5 DEF RegistryInv, Published
  <2> QED
    BY <2>1, <2>6 DEF OnTheWay
<1> QED
  BY <1>1, RegistryInvAlways, PTL
=============================================================================
