-------------------------- MODULE UsbEvents_proofs -------------------------
(***************************************************************************)
(* The safety properties of UsbEvents, for every number of threads, calls  *)
(* and openings of the device.                                             *)
(***************************************************************************)
EXTENDS UsbEvents, TLAPS

\* The two fields that libusb_event_handler_active() reads say truly that a broadcast is to come.
FlagsOK ==
  /\ modify = 1 <=> pc[Owner] \in {"write", "lock", "read", "closing", "closed", "modified"}
  /\ ctrlPipe = 1 <=> pc[Owner] \in {"lock", "read"}
  /\ active => lock # Nobody
  /\ \A t \in Thread : pc[t] \in {"unlock", "unlockClose"} => ~active

\* The handler thread is started while there is none.
OneHandlerThread ==
  /\ open => pc[Owner] = "idle"
  /\ ~open /\ pc[Owner] = "idle" => pc[Handler] = "gone"

EventsInv ==
  /\ EventsTypeOK
  /\ FlagsOK
  /\ OneHandlerThread
  /\ NoStrandedWaiter
  /\ CompletedIsWoken

\* The invariant holds before the device is opened.
LEMMA EventsInitInv == EventsInit => EventsInv
<1> SUFFICES ASSUME EventsInit PROVE EventsInv
  OBVIOUS
<1> USE EventsAssumption DEF EventsInit, Thread, Handles, HandlerStep, OwnerStep, Locked, Closing
<1>1. \A t \in Thread : pc[t] \in {"idle", "gone"}
  OBVIOUS
<1>2. pc[Owner] = "idle" /\ pc[Handler] = "gone"
  OBVIOUS
<1>3. EventsTypeOK
  <2>1. pc \in [Thread -> HandlerStep \cup OwnerStep]
    OBVIOUS
  <2>2. \A t \in Thread : pc[t] \in Locked \cup Closing <=> lock = t
    BY <1>1
  <2>3. \A t \in Handles : pc[t] \in HandlerStep
    BY <1>1
  <2>4. pc[Owner] \in OwnerStep /\ lock \in Thread \cup {Nobody}
    BY <1>2
  <2>5. /\ active \in BOOLEAN /\ open \in BOOLEAN /\ attached \in BOOLEAN /\ killed \in BOOLEAN
        /\ modify \in {0, 1} /\ ctrlPipe \in {0, 1}
        /\ flying \subseteq Caller /\ reapable \subseteq flying /\ completed \subseteq Caller \ flying
    OBVIOUS
  <2>6. calls \in 0 .. MaxCall /\ opens \in 0 .. MaxOpen
    OBVIOUS
  <2> HIDE DEF EventsInit, Thread, Handles, HandlerStep, OwnerStep, Locked, Closing
  <2> QED
    BY <2>1, <2>2, <2>3, <2>4, <2>5, <2>6 DEF EventsTypeOK
<1>4. FlagsOK /\ OneHandlerThread
  BY <1>2 DEF FlagsOK, OneHandlerThread
<1>5. NoStrandedWaiter /\ CompletedIsWoken
  BY <1>1 DEF NoStrandedWaiter, CompletedIsWoken
<1> QED
  BY <1>3, <1>4, <1>5 DEF EventsInv

\* Every step keeps the types, and the lock its one owner.
LEMMA TypeStep == EventsInv /\ [EventsNext]_eventVars => EventsTypeOK'
<1> SUFFICES ASSUME EventsInv, [EventsNext]_eventVars PROVE EventsTypeOK'
  OBVIOUS
<1> USE EventsAssumption
<1> USE DEF EventsInv, EventsTypeOK, FlagsOK, OneHandlerThread, Thread, Handles, HandlerStep,
            OwnerStep, Locked, Closing, Goto, BroadcastThen, ctlVars, urbs
<1>1. ASSUME NEW c \in Caller, Submit(c) PROVE EventsTypeOK'
  BY <1>1 DEF Submit
<1>2. ASSUME NEW c \in Caller, UrbDone(c) PROVE EventsTypeOK'
  BY <1>2 DEF UrbDone
<1>3. ASSUME NEW t \in Handles, HandleEvents(t) PROVE EventsTypeOK'
  <2>1. CASE Enter(t)
    BY <1>3, <2>1 DEF Enter
  <2>2. CASE TryLock(t)
    BY <1>3, <2>2 DEF TryLock
  <2>3. CASE LockEvents(t)
    <3>1. CASE lock = Nobody
      BY <1>3, <2>3, <3>1 DEF LockEvents, LockIsFree
    <3>2. CASE lock # Nobody
      BY <1>3, <2>3, <3>2 DEF LockEvents, LockIsFree
    <3> QED
      BY <3>1, <3>2
  <2>4. CASE LookAgain(t)
    BY <1>3, <2>4 DEF LookAgain
  <2>5. CASE Poll(t)
    BY <1>3, <2>5 DEF Poll
  <2>6. CASE Reap(t)
    BY <1>3, <2>6 DEF Reap
  <2>7. CASE BroadcastCompletion(t)
    BY <1>3, <2>7 DEF BroadcastCompletion
  <2>8. CASE Deactivate(t)
    BY <1>3, <2>8 DEF Deactivate
  <2>9. CASE Unlock(t)
    BY <1>3, <2>9 DEF Unlock
  <2>10. CASE Notify(t)
    BY <1>3, <2>10 DEF Notify
  <2>11. CASE CheckAndWait(t)
    BY <1>3, <2>11 DEF CheckAndWait
  <2> QED
    BY <1>3, <2>1, <2>2, <2>3, <2>4, <2>5, <2>6, <2>7, <2>8, <2>9, <2>10, <2>11 DEF HandleEvents
<1>4. ASSUME NEW t \in Handles, PollTimesOut(t) PROVE EventsTypeOK'
  BY <1>4 DEF PollTimesOut
<1>5. CASE Unplug
  BY <1>5 DEF Unplug
<1>6. CASE Open
  BY <1>6 DEF Open
<1>7. CASE Close
  BY <1>7 DEF Close
<1>8. CASE CloseStep
  <2>1. CASE RecordModify
    BY <2>1 DEF RecordModify
  <2>2. CASE InterruptHandlers
    BY <2>2 DEF InterruptHandlers
  <2>3. CASE LockToClose
    BY <2>3 DEF LockToClose, LockIsFree
  <2>4. CASE ReadDummy
    BY <2>4 DEF ReadDummy
  <2>5. CASE DoClose
    <3>1. CASE pc[Owner] = "closing"
      BY <2>5, <3>1 DEF DoClose
    <3>2. CASE pc[Owner] = "closed"
      BY <2>5, <3>2 DEF DoClose
    <3> QED
      BY <2>5, <3>1, <3>2 DEF DoClose
  <2>6. CASE EndModify
    BY <2>6 DEF EndModify
  <2>7. CASE UnlockClosed
    <3>1. CASE pc[Owner] = "deactivateClose"
      BY <2>7, <3>1 DEF UnlockClosed
    <3>2. CASE pc[Owner] = "unlockClose"
      BY <2>7, <3>2 DEF UnlockClosed
    <3>3. CASE pc[Owner] = "notifyClose"
      BY <2>7, <3>3 DEF UnlockClosed
    <3> QED
      BY <2>7, <3>1, <3>2, <3>3 DEF UnlockClosed
  <2>8. CASE JoinHandler
    BY <2>8 DEF JoinHandler
  <2> QED
    BY <1>8, <2>1, <2>2, <2>3, <2>4, <2>5, <2>6, <2>7, <2>8 DEF CloseStep
<1>9. CASE UNCHANGED eventVars
  BY <1>9 DEF eventVars
<1> QED
  BY <1>1, <1>2, <1>3, <1>4, <1>5, <1>6, <1>7, <1>8, <1>9 DEF EventsNext

\* Every step keeps the meaning of the flags.
LEMMA FlagsStep == EventsInv /\ [EventsNext]_eventVars => FlagsOK'
<1> SUFFICES ASSUME EventsInv, [EventsNext]_eventVars PROVE FlagsOK'
  OBVIOUS
<1> USE EventsAssumption
<1> USE DEF EventsInv, EventsTypeOK, FlagsOK, OneHandlerThread, Thread, Handles, HandlerStep,
            OwnerStep, Locked, Closing, Goto, BroadcastThen, ctlVars, urbs
<1>1. ASSUME NEW c \in Caller, Submit(c) PROVE FlagsOK'
  BY <1>1 DEF Submit
<1>2. ASSUME NEW c \in Caller, UrbDone(c) PROVE FlagsOK'
  BY <1>2 DEF UrbDone
<1>3. ASSUME NEW t \in Handles, HandleEvents(t) PROVE FlagsOK'
  <2>1. CASE Enter(t)
    BY <1>3, <2>1 DEF Enter
  <2>2. CASE TryLock(t)
    BY <1>3, <2>2 DEF TryLock
  <2>3. CASE LockEvents(t)
    <3>1. CASE lock = Nobody
      BY <1>3, <2>3, <3>1 DEF LockEvents, LockIsFree
    <3>2. CASE lock # Nobody
      BY <1>3, <2>3, <3>2 DEF LockEvents, LockIsFree
    <3> QED
      BY <3>1, <3>2
  <2>4. CASE LookAgain(t)
    BY <1>3, <2>4 DEF LookAgain
  <2>5. CASE Poll(t)
    BY <1>3, <2>5 DEF Poll
  <2>6. CASE Reap(t)
    BY <1>3, <2>6 DEF Reap
  <2>7. CASE BroadcastCompletion(t)
    BY <1>3, <2>7 DEF BroadcastCompletion
  <2>8. CASE Deactivate(t)
    BY <1>3, <2>8 DEF Deactivate
  <2>9. CASE Unlock(t)
    BY <1>3, <2>9 DEF Unlock
  <2>10. CASE Notify(t)
    BY <1>3, <2>10 DEF Notify
  <2>11. CASE CheckAndWait(t)
    BY <1>3, <2>11 DEF CheckAndWait
  <2> QED
    BY <1>3, <2>1, <2>2, <2>3, <2>4, <2>5, <2>6, <2>7, <2>8, <2>9, <2>10, <2>11 DEF HandleEvents
<1>4. ASSUME NEW t \in Handles, PollTimesOut(t) PROVE FlagsOK'
  BY <1>4 DEF PollTimesOut
<1>5. CASE Unplug
  BY <1>5 DEF Unplug
<1>6. CASE Open
  BY <1>6 DEF Open
<1>7. CASE Close
  BY <1>7 DEF Close
<1>8. CASE CloseStep
  <2>1. CASE RecordModify
    BY <2>1 DEF RecordModify
  <2>2. CASE InterruptHandlers
    BY <2>2 DEF InterruptHandlers
  <2>3. CASE LockToClose
    BY <2>3 DEF LockToClose, LockIsFree
  <2>4. CASE ReadDummy
    BY <2>4 DEF ReadDummy
  <2>5. CASE DoClose
    <3>1. CASE pc[Owner] = "closing"
      BY <2>5, <3>1 DEF DoClose
    <3>2. CASE pc[Owner] = "closed"
      BY <2>5, <3>2 DEF DoClose
    <3> QED
      BY <2>5, <3>1, <3>2 DEF DoClose
  <2>6. CASE EndModify
    BY <2>6 DEF EndModify
  <2>7. CASE UnlockClosed
    <3>1. CASE pc[Owner] = "deactivateClose"
      BY <2>7, <3>1 DEF UnlockClosed
    <3>2. CASE pc[Owner] = "unlockClose"
      BY <2>7, <3>2 DEF UnlockClosed
    <3>3. CASE pc[Owner] = "notifyClose"
      BY <2>7, <3>3 DEF UnlockClosed
    <3> QED
      BY <2>7, <3>1, <3>2, <3>3 DEF UnlockClosed
  <2>8. CASE JoinHandler
    BY <2>8 DEF JoinHandler
  <2> QED
    BY <1>8, <2>1, <2>2, <2>3, <2>4, <2>5, <2>6, <2>7, <2>8 DEF CloseStep
<1>9. CASE UNCHANGED eventVars
  BY <1>9 DEF eventVars
<1> QED
  BY <1>1, <1>2, <1>3, <1>4, <1>5, <1>6, <1>7, <1>8, <1>9 DEF EventsNext

\* Every step keeps that there is at most one handler thread.
LEMMA HandlerThreadStep == EventsInv /\ [EventsNext]_eventVars => OneHandlerThread'
<1> SUFFICES ASSUME EventsInv, [EventsNext]_eventVars PROVE OneHandlerThread'
  OBVIOUS
<1> USE EventsAssumption
<1> USE DEF EventsInv, EventsTypeOK, FlagsOK, OneHandlerThread, Thread, Handles, HandlerStep,
            OwnerStep, Locked, Closing, Goto, BroadcastThen, ctlVars, urbs
<1>1. ASSUME NEW c \in Caller, Submit(c) PROVE OneHandlerThread'
  BY <1>1 DEF Submit
<1>2. ASSUME NEW c \in Caller, UrbDone(c) PROVE OneHandlerThread'
  BY <1>2 DEF UrbDone
<1>3. ASSUME NEW t \in Handles, HandleEvents(t) PROVE OneHandlerThread'
  <2>1. CASE Enter(t)
    BY <1>3, <2>1 DEF Enter
  <2>2. CASE TryLock(t)
    BY <1>3, <2>2 DEF TryLock
  <2>3. CASE LockEvents(t)
    <3>1. CASE lock = Nobody
      BY <1>3, <2>3, <3>1 DEF LockEvents, LockIsFree
    <3>2. CASE lock # Nobody
      BY <1>3, <2>3, <3>2 DEF LockEvents, LockIsFree
    <3> QED
      BY <3>1, <3>2
  <2>4. CASE LookAgain(t)
    BY <1>3, <2>4 DEF LookAgain
  <2>5. CASE Poll(t)
    BY <1>3, <2>5 DEF Poll
  <2>6. CASE Reap(t)
    BY <1>3, <2>6 DEF Reap
  <2>7. CASE BroadcastCompletion(t)
    BY <1>3, <2>7 DEF BroadcastCompletion
  <2>8. CASE Deactivate(t)
    BY <1>3, <2>8 DEF Deactivate
  <2>9. CASE Unlock(t)
    BY <1>3, <2>9 DEF Unlock
  <2>10. CASE Notify(t)
    BY <1>3, <2>10 DEF Notify
  <2>11. CASE CheckAndWait(t)
    BY <1>3, <2>11 DEF CheckAndWait
  <2> QED
    BY <1>3, <2>1, <2>2, <2>3, <2>4, <2>5, <2>6, <2>7, <2>8, <2>9, <2>10, <2>11 DEF HandleEvents
<1>4. ASSUME NEW t \in Handles, PollTimesOut(t) PROVE OneHandlerThread'
  BY <1>4 DEF PollTimesOut
<1>5. CASE Unplug
  BY <1>5 DEF Unplug
<1>6. CASE Open
  BY <1>6 DEF Open
<1>7. CASE Close
  BY <1>7 DEF Close
<1>8. CASE CloseStep
  <2>1. CASE RecordModify
    BY <2>1 DEF RecordModify
  <2>2. CASE InterruptHandlers
    BY <2>2 DEF InterruptHandlers
  <2>3. CASE LockToClose
    BY <2>3 DEF LockToClose, LockIsFree
  <2>4. CASE ReadDummy
    BY <2>4 DEF ReadDummy
  <2>5. CASE DoClose
    <3>1. CASE pc[Owner] = "closing"
      BY <2>5, <3>1 DEF DoClose
    <3>2. CASE pc[Owner] = "closed"
      BY <2>5, <3>2 DEF DoClose
    <3> QED
      BY <2>5, <3>1, <3>2 DEF DoClose
  <2>6. CASE EndModify
    BY <2>6 DEF EndModify
  <2>7. CASE UnlockClosed
    <3>1. CASE pc[Owner] = "deactivateClose"
      BY <2>7, <3>1 DEF UnlockClosed
    <3>2. CASE pc[Owner] = "unlockClose"
      BY <2>7, <3>2 DEF UnlockClosed
    <3>3. CASE pc[Owner] = "notifyClose"
      BY <2>7, <3>3 DEF UnlockClosed
    <3> QED
      BY <2>7, <3>1, <3>2, <3>3 DEF UnlockClosed
  <2>8. CASE JoinHandler
    BY <2>8 DEF JoinHandler
  <2> QED
    BY <1>8, <2>1, <2>2, <2>3, <2>4, <2>5, <2>6, <2>7, <2>8 DEF CloseStep
<1>9. CASE UNCHANGED eventVars
  BY <1>9 DEF eventVars
<1> QED
  BY <1>1, <1>2, <1>3, <1>4, <1>5, <1>6, <1>7, <1>8, <1>9 DEF EventsNext

\* No step leaves a waiter without a broadcast to come.
LEMMA StrandedStep == EventsInv /\ [EventsNext]_eventVars => NoStrandedWaiter'
<1> SUFFICES ASSUME EventsInv, [EventsNext]_eventVars PROVE NoStrandedWaiter'
  OBVIOUS
<1> USE EventsAssumption
<1> USE DEF EventsInv, EventsTypeOK, FlagsOK, OneHandlerThread, NoStrandedWaiter, WillBroadcast, Handling, Thread, Handles, HandlerStep,
            OwnerStep, Locked, Closing, Goto, BroadcastThen, ctlVars, urbs
<1>1. ASSUME NEW c \in Caller, Submit(c) PROVE NoStrandedWaiter'
  BY <1>1 DEF Submit
<1>2. ASSUME NEW c \in Caller, UrbDone(c) PROVE NoStrandedWaiter'
  BY <1>2 DEF UrbDone
<1>3. ASSUME NEW t \in Handles, HandleEvents(t) PROVE NoStrandedWaiter'
  <2>1. CASE Enter(t)
    BY <1>3, <2>1 DEF Enter
  <2>2. CASE TryLock(t)
    BY <1>3, <2>2 DEF TryLock
  <2>3. CASE LockEvents(t)
    <3>1. CASE lock = Nobody
      BY <1>3, <2>3, <3>1 DEF LockEvents, LockIsFree
    <3>2. CASE lock # Nobody
      BY <1>3, <2>3, <3>2 DEF LockEvents, LockIsFree
    <3> QED
      BY <3>1, <3>2
  <2>4. CASE LookAgain(t)
    BY <1>3, <2>4 DEF LookAgain
  <2>5. CASE Poll(t)
    BY <1>3, <2>5 DEF Poll
  <2>6. CASE Reap(t)
    BY <1>3, <2>6 DEF Reap
  <2>7. CASE BroadcastCompletion(t)
    BY <1>3, <2>7 DEF BroadcastCompletion
  <2>8. CASE Deactivate(t)
    BY <1>3, <2>8 DEF Deactivate
  <2>9. CASE Unlock(t)
    BY <1>3, <2>9 DEF Unlock
  <2>10. CASE Notify(t)
    BY <1>3, <2>10 DEF Notify
  <2>11. CASE CheckAndWait(t)
    <3>1. CASE Done(t) \/ ~HandlerActive
      BY <1>3, <2>11, <3>1 DEF CheckAndWait, Done
    <3>2. CASE modify > 0 /\ ~Done(t)
      <4>1. WillBroadcast(Owner) /\ pc'[Owner] = pc[Owner]
        BY <1>3, <2>11, <3>2 DEF CheckAndWait
      <4> QED
        BY <1>3, <2>11, <3>2, <4>1 DEF CheckAndWait, Done
    <3>3. CASE active /\ ~Done(t)
      <4>1. PICK u \in Thread : lock = u
        BY <3>3
      <4>2. WillBroadcast(u) /\ pc'[u] = pc[u]
        BY <1>3, <2>11, <3>3, <4>1 DEF CheckAndWait
      <4> QED
        BY <1>3, <2>11, <3>3, <4>2 DEF CheckAndWait, Done
    <3> QED
      BY <3>1, <3>2, <3>3 DEF HandlerActive
  <2> QED
    BY <1>3, <2>1, <2>2, <2>3, <2>4, <2>5, <2>6, <2>7, <2>8, <2>9, <2>10, <2>11 DEF HandleEvents
<1>4. ASSUME NEW t \in Handles, PollTimesOut(t) PROVE NoStrandedWaiter'
  BY <1>4 DEF PollTimesOut
<1>5. CASE Unplug
  BY <1>5 DEF Unplug
<1>6. CASE Open
  BY <1>6 DEF Open
<1>7. CASE Close
  BY <1>7 DEF Close
<1>8. CASE CloseStep
  <2>1. CASE RecordModify
    BY <2>1 DEF RecordModify
  <2>2. CASE InterruptHandlers
    BY <2>2 DEF InterruptHandlers
  <2>3. CASE LockToClose
    BY <2>3 DEF LockToClose, LockIsFree
  <2>4. CASE ReadDummy
    BY <2>4 DEF ReadDummy
  <2>5. CASE DoClose
    <3>1. CASE pc[Owner] = "closing"
      BY <2>5, <3>1 DEF DoClose
    <3>2. CASE pc[Owner] = "closed"
      BY <2>5, <3>2 DEF DoClose
    <3> QED
      BY <2>5, <3>1, <3>2 DEF DoClose
  <2>6. CASE EndModify
    BY <2>6 DEF EndModify
  <2>7. CASE UnlockClosed
    <3>1. CASE pc[Owner] = "deactivateClose"
      BY <2>7, <3>1 DEF UnlockClosed
    <3>2. CASE pc[Owner] = "unlockClose"
      BY <2>7, <3>2 DEF UnlockClosed
    <3>3. CASE pc[Owner] = "notifyClose"
      BY <2>7, <3>3 DEF UnlockClosed
    <3> QED
      BY <2>7, <3>1, <3>2, <3>3 DEF UnlockClosed
  <2>8. CASE JoinHandler
    BY <2>8 DEF JoinHandler
  <2> QED
    BY <1>8, <2>1, <2>2, <2>3, <2>4, <2>5, <2>6, <2>7, <2>8 DEF CloseStep
<1>9. CASE UNCHANGED eventVars
  BY <1>9 DEF eventVars
<1> QED
  BY <1>1, <1>2, <1>3, <1>4, <1>5, <1>6, <1>7, <1>8, <1>9 DEF EventsNext

\* No step leaves a waiter whose transfer is complete without somebody about to wake it.
LEMMA CompletedStep == EventsInv /\ [EventsNext]_eventVars => CompletedIsWoken'
<1> SUFFICES ASSUME EventsInv, [EventsNext]_eventVars PROVE CompletedIsWoken'
  OBVIOUS
<1> USE EventsAssumption
<1> USE DEF EventsInv, EventsTypeOK, FlagsOK, OneHandlerThread, CompletedIsWoken, WillBroadcast, Handling, Thread, Handles, HandlerStep,
            OwnerStep, Locked, Closing, Goto, BroadcastThen, ctlVars, urbs
<1>1. ASSUME NEW c \in Caller, Submit(c) PROVE CompletedIsWoken'
  BY <1>1 DEF Submit
<1>2. ASSUME NEW c \in Caller, UrbDone(c) PROVE CompletedIsWoken'
  BY <1>2 DEF UrbDone
<1>3. ASSUME NEW t \in Handles, HandleEvents(t) PROVE CompletedIsWoken'
  <2>1. CASE Enter(t)
    BY <1>3, <2>1 DEF Enter
  <2>2. CASE TryLock(t)
    BY <1>3, <2>2 DEF TryLock
  <2>3. CASE LockEvents(t)
    <3>1. CASE lock = Nobody
      BY <1>3, <2>3, <3>1 DEF LockEvents, LockIsFree
    <3>2. CASE lock # Nobody
      BY <1>3, <2>3, <3>2 DEF LockEvents, LockIsFree
    <3> QED
      BY <3>1, <3>2
  <2>4. CASE LookAgain(t)
    BY <1>3, <2>4 DEF LookAgain
  <2>5. CASE Poll(t)
    BY <1>3, <2>5 DEF Poll
  <2>6. CASE Reap(t)
    BY <1>3, <2>6 DEF Reap
  <2>7. CASE BroadcastCompletion(t)
    BY <1>3, <2>7 DEF BroadcastCompletion
  <2>8. CASE Deactivate(t)
    BY <1>3, <2>8 DEF Deactivate
  <2>9. CASE Unlock(t)
    BY <1>3, <2>9 DEF Unlock
  <2>10. CASE Notify(t)
    BY <1>3, <2>10 DEF Notify
  <2>11. CASE CheckAndWait(t)
    BY <1>3, <2>11 DEF CheckAndWait, Done
  <2> QED
    BY <1>3, <2>1, <2>2, <2>3, <2>4, <2>5, <2>6, <2>7, <2>8, <2>9, <2>10, <2>11 DEF HandleEvents
<1>4. ASSUME NEW t \in Handles, PollTimesOut(t) PROVE CompletedIsWoken'
  BY <1>4 DEF PollTimesOut
<1>5. CASE Unplug
  BY <1>5 DEF Unplug
<1>6. CASE Open
  BY <1>6 DEF Open
<1>7. CASE Close
  BY <1>7 DEF Close
<1>8. CASE CloseStep
  <2>1. CASE RecordModify
    BY <2>1 DEF RecordModify
  <2>2. CASE InterruptHandlers
    BY <2>2 DEF InterruptHandlers
  <2>3. CASE LockToClose
    BY <2>3 DEF LockToClose, LockIsFree
  <2>4. CASE ReadDummy
    BY <2>4 DEF ReadDummy
  <2>5. CASE DoClose
    <3>1. CASE pc[Owner] = "closing"
      BY <2>5, <3>1 DEF DoClose
    <3>2. CASE pc[Owner] = "closed"
      BY <2>5, <3>2 DEF DoClose
    <3> QED
      BY <2>5, <3>1, <3>2 DEF DoClose
  <2>6. CASE EndModify
    BY <2>6 DEF EndModify
  <2>7. CASE UnlockClosed
    <3>1. CASE pc[Owner] = "deactivateClose"
      BY <2>7, <3>1 DEF UnlockClosed
    <3>2. CASE pc[Owner] = "unlockClose"
      BY <2>7, <3>2 DEF UnlockClosed
    <3>3. CASE pc[Owner] = "notifyClose"
      BY <2>7, <3>3 DEF UnlockClosed
    <3> QED
      BY <2>7, <3>1, <3>2, <3>3 DEF UnlockClosed
  <2>8. CASE JoinHandler
    BY <2>8 DEF JoinHandler
  <2> QED
    BY <1>8, <2>1, <2>2, <2>3, <2>4, <2>5, <2>6, <2>7, <2>8 DEF CloseStep
<1>9. CASE UNCHANGED eventVars
  BY <1>9 DEF eventVars
<1> QED
  BY <1>1, <1>2, <1>3, <1>4, <1>5, <1>6, <1>7, <1>8, <1>9 DEF EventsNext

\* The invariant holds of every reachable state.
LEMMA EventsInductive == EventsSpec => []EventsInv
<1>1. EventsInit => EventsInv
  BY EventsInitInv
<1>2. EventsInv /\ [EventsNext]_eventVars => EventsInv'
  BY TypeStep, FlagsStep, HandlerThreadStep, StrandedStep, CompletedStep DEF EventsInv
<1> QED
  BY <1>1, <1>2, PTL DEF EventsSpec

\* Every thread is at a step of its own, and exactly one that is at a step under events_lock is
\* its owner (io.c:1654-1727, core.c:1397-1450).
THEOREM EventsTypes == EventsSpec => []EventsTypeOK
<1>1. EventsInv => EventsTypeOK
  BY DEF EventsInv
<1> QED
  BY <1>1, EventsInductive, PTL

\* A thread that waits for events has somebody to wake it, however many threads make transfers
\* and however often the device is opened and closed (io.c:1712-1727, 2176-2240).
THEOREM NobodyIsStranded == EventsSpec => []NoStrandedWaiter
<1>1. EventsInv => NoStrandedWaiter
  BY DEF EventsInv
<1> QED
  BY <1>1, EventsInductive, PTL

\* A caller whose transfer is complete is about to be woken by a thread that is not in poll()
\* (io.c:1585-1612, 1703-1727).
THEOREM CompletedAreWoken == EventsSpec => []CompletedIsWoken
<1>1. EventsInv => CompletedIsWoken
  BY DEF EventsInv
<1> QED
  BY <1>1, EventsInductive, PTL
=============================================================================
