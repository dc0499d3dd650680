----------------------------- MODULE UsbEvents -----------------------------
(***************************************************************************)
(* Who handles libusb's events: the handler thread of libuvc (init.c), the *)
(* threads inside libusb_control_transfer() (sync.c), each of which        *)
(* handles events itself or waits for the one that does (io.c), and the    *)
(* owner, which opens the device and closes it (device.c, core.c).         *)
(*                                                                         *)
(* pc[t] is the next step of thread t.  Sections under pollfd_modify_lock  *)
(* and event_waiters_lock are steps; events_lock is `lock', its owner,     *)
(* and the nested locking of do_close() (the mutex is recursive) shows     *)
(* only in what it does to event_handler_active.                           *)
(*                                                                         *)
(* Abstractions.  Each caller has one control transfer at a time, without  *)
(* a timeout (CTRL_TIMEOUT_MILLIS is 0).  The transfers of the streams are *)
(* left out: they wake poll() and need nobody who waits.  Device           *)
(* descriptors, reference counts and the lists behind the sets are left    *)
(* out; so is the 60 s timeout of poll() and of the waiters, except where  *)
(* a property needs it (PollTimesOut).                                     *)
(***************************************************************************)
EXTENDS Integers, FiniteSets

CONSTANTS
  Caller,   \* threads that make control transfers
  Handler,  \* the handler thread
  Owner,    \* the thread that opens and closes the device
  Nobody,
  MaxCall,  \* bound: control transfers
  MaxOpen   \* bound: times the device is opened

ASSUME EventsAssumption ==
  /\ Handler \notin Caller /\ Owner \notin Caller /\ Nobody \notin Caller
  /\ Handler # Owner /\ Nobody \notin {Handler, Owner}
  /\ MaxCall \in Nat /\ MaxOpen \in Nat

VARIABLES
  pc,
  lock,       \* the thread that holds events_lock, or Nobody
  active,     \* event_handler_active
  modify,     \* pollfd_modify
  ctrlPipe,   \* bytes in the control pipe
  open,       \* the device is open, and not being closed
  attached,   \* it is plugged in
  killed,     \* kill_handler_thread
  flying,     \* callers whose transfer is in the flying list
  reapable,   \* those of them whose URB the kernel has finished
  completed,  \* callers whose completed flag is set
  calls, opens

ctlVars == <<open, killed, opens>>
urbs    == <<flying, reapable, attached>>
eventVars == <<pc, lock, active, modify, ctrlPipe, ctlVars, urbs, completed, calls>>

Thread  == Caller \cup {Handler, Owner}
Handles == Caller \cup {Handler}

\* Steps at which a thread has events_lock; those of the owner in libusb_close() are the second.
Locked  == {"locked", "poll", "reap", "broadcast", "deactivate", "unlock"}
Closing == {"read", "closing", "closed", "modified", "deactivateClose", "unlockClose"}

HandlerStep == {"idle", "gone", "enter", "try", "trylock", "check", "waiting", "notify"} \cup Locked
OwnerStep   == {"idle", "modify", "write", "lock", "notifyClose", "join"} \cup Closing

EventsTypeOK ==
  /\ pc \in [Thread -> HandlerStep \cup OwnerStep]
  /\ \A t \in Handles : pc[t] \in HandlerStep
  /\ pc[Owner] \in OwnerStep
  /\ \A t \in Thread : pc[t] \in Locked \cup Closing <=> lock = t
  /\ lock \in Thread \cup {Nobody}
  /\ active \in BOOLEAN /\ open \in BOOLEAN /\ attached \in BOOLEAN /\ killed \in BOOLEAN
  /\ modify \in {0, 1} /\ ctrlPipe \in {0, 1}
  /\ flying \subseteq Caller /\ reapable \subseteq flying /\ completed \subseteq Caller \ flying
  /\ calls \in 0 .. MaxCall /\ opens \in 0 .. MaxOpen

EventsInit ==
  /\ pc = [t \in Thread |-> IF t = Handler THEN "gone" ELSE "idle"]
  /\ lock = Nobody /\ active = FALSE /\ modify = 0 /\ ctrlPipe = 0
  /\ open = FALSE /\ attached = TRUE /\ killed = FALSE
  /\ flying = {} /\ reapable = {} /\ completed = {}
  /\ calls = 0 /\ opens = 0

Goto(t, step) == pc' = [pc EXCEPT ![t] = step]

\* usbi_cond_broadcast(): the waiters start over, and t goes on.
BroadcastThen(t, step) ==
  pc' = [u \in Thread |-> IF u = t THEN step
                          ELSE IF pc[u] = "waiting" THEN "enter" ELSE pc[u]]

-----------------------------------------------------------------------------
(* The device and the bus.                                                  *)

UrbDone(c) ==
  /\ c \in flying \ reapable
  /\ reapable' = reapable \cup {c}
  /\ UNCHANGED <<pc, lock, active, modify, ctrlPipe, ctlVars, flying, attached, completed, calls>>

\* POLLERR: usbi_handle_disconnect() will complete every transfer of the device.
Unplug ==
  /\ open /\ attached
  /\ attached' = FALSE
  /\ reapable' = flying
  /\ UNCHANGED <<pc, lock, active, modify, ctrlPipe, ctlVars, flying, completed, calls>>

-----------------------------------------------------------------------------
(* libusb_control_transfer()                                                *)

Submit(c) ==
  /\ pc[c] = "idle"
  /\ open /\ attached
  /\ calls < MaxCall
  /\ calls' = calls + 1
  /\ flying' = flying \cup {c}
  /\ completed' = completed \ {c}
  /\ Goto(c, "enter")
  /\ UNCHANGED <<lock, active, modify, ctrlPipe, ctlVars, attached, reapable>>

\* sync_transfer_wait_for_completion() and _uvc_handle_events(): another round, or the end.
Enter(t) ==
  /\ pc[t] = "enter"
  /\ Goto(t, IF t = Handler THEN (IF killed THEN "gone" ELSE "try")
             ELSE IF t \in completed THEN "idle" ELSE "try")
  /\ UNCHANGED <<lock, active, modify, ctrlPipe, ctlVars, urbs, completed, calls>>

-----------------------------------------------------------------------------
(* libusb_handle_events_timeout_completed()                                 *)

\* libusb_try_lock_events()
TryLock(t) ==
  /\ pc[t] = "try"
  /\ Goto(t, IF modify > 0 THEN "check" ELSE "trylock")
  /\ UNCHANGED <<lock, active, modify, ctrlPipe, ctlVars, urbs, completed, calls>>

\* Mutant: the lock is taken from the thread that has it.
Unlocked == TRUE

LockIsFree == lock = Nobody

\* The mutex and then event_handler_active, which only a thread with the mutex sets: one step.
LockEvents(t) ==
  /\ pc[t] = "trylock"
  /\ IF LockIsFree
       THEN lock' = t /\ active' = TRUE /\ Goto(t, "locked")
       ELSE Goto(t, "check") /\ UNCHANGED <<lock, active>>
  /\ UNCHANGED <<modify, ctrlPipe, ctlVars, urbs, completed, calls>>

Done(t) == t \in completed

LookAgain(t) ==
  /\ pc[t] = "locked"
  /\ Goto(t, IF Done(t) THEN "deactivate" ELSE "poll")
  /\ UNCHANGED <<lock, active, modify, ctrlPipe, ctlVars, urbs, completed, calls>>

\* handle_events(): poll() returns for the device's events or for the byte in the control pipe.
Poll(t) ==
  /\ pc[t] = "poll"
  /\ \/ reapable # {} /\ Goto(t, "reap")
     \/ reapable = {} /\ ctrlPipe > 0 /\ Goto(t, "deactivate")
  /\ UNCHANGED <<lock, active, modify, ctrlPipe, ctlVars, urbs, completed, calls>>

\* The 60 s are over and nothing is ready; no transfer has a timeout.
PollTimesOut(t) ==
  /\ pc[t] = "poll"
  /\ reapable = {} /\ ctrlPipe = 0
  /\ Goto(t, "deactivate")
  /\ UNCHANGED <<lock, active, modify, ctrlPipe, ctlVars, urbs, completed, calls>>

\* reap_for_handle() and usbi_handle_transfer_completion() up to the callback, which sets completed.
Reap(t) ==
  /\ pc[t] = "reap"
  /\ \/ \E c \in reapable : /\ reapable' = reapable \ {c}
                            /\ flying' = flying \ {c}
                            /\ completed' = completed \cup {c}
                            /\ Goto(t, "broadcast")
     \/ reapable = {} /\ Goto(t, "deactivate") /\ UNCHANGED <<reapable, flying, completed>>
  /\ UNCHANGED <<lock, active, modify, ctrlPipe, ctlVars, attached, calls>>

BroadcastCompletion(t) ==
  /\ pc[t] = "broadcast"
  /\ BroadcastThen(t, "reap")
  /\ UNCHANGED <<lock, active, modify, ctrlPipe, ctlVars, urbs, completed, calls>>

\* libusb_unlock_events()
Deactivate(t) ==
  /\ pc[t] = "deactivate"
  /\ active' = FALSE
  /\ Goto(t, "unlock")
  /\ UNCHANGED <<lock, modify, ctrlPipe, ctlVars, urbs, completed, calls>>

Unlock(t) ==
  /\ pc[t] = "unlock"
  /\ lock' = Nobody
  /\ Goto(t, "notify")
  /\ UNCHANGED <<active, modify, ctrlPipe, ctlVars, urbs, completed, calls>>

\* Mutant: the end of the event handling is not broadcast.
NotifyNobody(t) ==
  /\ pc[t] = "notify"
  /\ Goto(t, "enter")
  /\ UNCHANGED <<lock, active, modify, ctrlPipe, ctlVars, urbs, completed, calls>>

Notify(t) ==
  /\ pc[t] = "notify"
  /\ BroadcastThen(t, "enter")
  /\ UNCHANGED <<lock, active, modify, ctrlPipe, ctlVars, urbs, completed, calls>>

\* libusb_event_handler_active()
HandlerActive == modify > 0 \/ active

\* Mutant: the completed flag is not looked at again before the wait.
CheckHandlerOnly(t) ==
  /\ pc[t] = "check"
  /\ Goto(t, IF HandlerActive THEN "waiting" ELSE "try")
  /\ UNCHANGED <<lock, active, modify, ctrlPipe, ctlVars, urbs, completed, calls>>

\* With event_waiters_lock: done, or nobody handles events any more, or wait.
CheckAndWait(t) ==
  /\ pc[t] = "check"
  /\ Goto(t, IF Done(t) THEN "enter" ELSE IF HandlerActive THEN "waiting" ELSE "try")
  /\ UNCHANGED <<lock, active, modify, ctrlPipe, ctlVars, urbs, completed, calls>>

-----------------------------------------------------------------------------
(* The owner: uvc_open() and uvc_close().                                   *)

\* uvc_start_handler_thread(); kill_handler_thread keeps its value.  The interruption of the event
\* handlers by libusb_open() (core.c 1239) and the failures of uvc_open() are left out.
Open ==
  /\ pc[Owner] = "idle" /\ ~open
  /\ attached
  /\ opens < MaxOpen
  /\ opens' = opens + 1
  /\ open' = TRUE
  /\ Goto(Handler, "enter")
  /\ UNCHANGED <<lock, active, modify, ctrlPipe, killed, urbs, completed, calls>>

\* No control transfer is under way: libusb does not see to it (do_close() drops the transfers of
\* the device, and who waits for one waits on), the Java object does.  close() of UVCCamera.java
\* (232) and the methods that query a control are synchronized on it, and release() joins the
\* preview thread, which negotiates the format, before it closes (UVCCamera.cpp 193-203).
Close ==
  /\ pc[Owner] = "idle" /\ open
  /\ \A c \in Caller : pc[c] = "idle"
  /\ open' = FALSE
  /\ killed' = TRUE
  /\ Goto(Owner, "modify")
  /\ UNCHANGED <<lock, active, modify, ctrlPipe, opens, urbs, completed, calls>>

\* libusb_close(): "record that we are messing with poll fds", then interrupt the handlers.
RecordModify ==
  /\ pc[Owner] = "modify"
  /\ modify' = modify + 1
  /\ Goto(Owner, "write")
  /\ UNCHANGED <<lock, active, ctrlPipe, ctlVars, urbs, completed, calls>>

\* Mutant: nothing is written to the control pipe.
InterruptNobody ==
  /\ pc[Owner] = "write"
  /\ Goto(Owner, "lock")
  /\ UNCHANGED <<lock, active, modify, ctrlPipe, ctlVars, urbs, completed, calls>>

InterruptHandlers ==
  /\ pc[Owner] = "write"
  /\ ctrlPipe' = ctrlPipe + 1
  /\ Goto(Owner, "lock")
  /\ UNCHANGED <<lock, active, modify, ctlVars, urbs, completed, calls>>

LockToClose ==
  /\ pc[Owner] = "lock"
  /\ LockIsFree
  /\ lock' = Owner /\ active' = TRUE
  /\ Goto(Owner, "read")
  /\ UNCHANGED <<modify, ctrlPipe, ctlVars, urbs, completed, calls>>

ReadDummy ==
  /\ pc[Owner] = "read"
  /\ ctrlPipe > 0
  /\ ctrlPipe' = ctrlPipe - 1
  /\ Goto(Owner, "closing")
  /\ UNCHANGED <<lock, active, modify, ctlVars, urbs, completed, calls>>

\* do_close() ends with libusb_unlock_events(), which clears event_handler_active although
\* libusb_close() keeps the lock.
DoClose ==
  /\ \/ pc[Owner] = "closing" /\ active' = FALSE /\ Goto(Owner, "closed")
     \/ pc[Owner] = "closed" /\ BroadcastThen(Owner, "modified") /\ UNCHANGED active
  /\ UNCHANGED <<lock, modify, ctrlPipe, ctlVars, urbs, completed, calls>>

EndModify ==
  /\ pc[Owner] = "modified"
  /\ modify' = modify - 1
  /\ Goto(Owner, "deactivateClose")
  /\ UNCHANGED <<lock, active, ctrlPipe, ctlVars, urbs, completed, calls>>

UnlockClosed ==
  /\ \/ /\ pc[Owner] = "deactivateClose"
        /\ active' = FALSE /\ Goto(Owner, "unlockClose") /\ UNCHANGED lock
     \/ /\ pc[Owner] = "unlockClose"
        /\ lock' = Nobody /\ Goto(Owner, "notifyClose") /\ UNCHANGED active
     \/ /\ pc[Owner] = "notifyClose"
        /\ BroadcastThen(Owner, "join") /\ UNCHANGED <<lock, active>>
  /\ UNCHANGED <<modify, ctrlPipe, ctlVars, urbs, completed, calls>>

\* pthread_join(ctx->handler_thread)
JoinHandler ==
  /\ pc[Owner] = "join"
  /\ pc[Handler] = "gone"
  /\ Goto(Owner, "idle")
  /\ UNCHANGED <<lock, active, modify, ctrlPipe, ctlVars, urbs, completed, calls>>

-----------------------------------------------------------------------------
HandleEvents(t) ==
  \/ Enter(t) \/ TryLock(t) \/ LockEvents(t) \/ LookAgain(t) \/ Poll(t) \/ Reap(t)
  \/ BroadcastCompletion(t) \/ Deactivate(t) \/ Unlock(t) \/ Notify(t) \/ CheckAndWait(t)

CloseStep ==
  \/ RecordModify \/ InterruptHandlers \/ LockToClose \/ ReadDummy \/ DoClose
  \/ EndModify \/ UnlockClosed \/ JoinHandler

EventsNext ==
  \/ \E c \in Caller : Submit(c) \/ UrbDone(c)
  \/ Unplug
  \/ \E t \in Handles : HandleEvents(t) \/ PollTimesOut(t)
  \/ Open \/ Close \/ CloseStep

EventsSpec == EventsInit /\ [][EventsNext]_eventVars

\* Every thread runs, and gets events_lock again and again if others take turns; the device
\* answers a control request, or the kernel gives up on it.  The timeout of poll() counts only
\* once the device is closed.
EventsFairSpec ==
  /\ EventsSpec
  /\ \A t \in Handles : WF_eventVars(HandleEvents(t))
  /\ WF_eventVars(CloseStep) /\ SF_eventVars(LockToClose)
  /\ \A c \in Caller : WF_eventVars(UrbDone(c))
  /\ WF_eventVars(pc[Owner] = "join" /\ PollTimesOut(Handler))

-----------------------------------------------------------------------------
(* Properties. *)

\* Steps after which a broadcast still comes.
Handling == Locked \cup {"notify"}
WillBroadcast(u) ==
  \/ u # Owner /\ pc[u] \in Handling
  \/ u = Owner /\ pc[u] \in Closing \cup {"write", "lock", "notifyClose"}

\* Nobody sleeps on the condition variable without a broadcast to come: a thread that waits does
\* so because another one handles events or the device is being closed, also when its own
\* transfer completes between its look at the flag and its wait (io.c:1712-1727, 2176-2240,
\* core.c:1397-1450).
NoStrandedWaiter ==
  \A t \in Handles : pc[t] = "waiting" => \E u \in Thread : WillBroadcast(u)

\* A caller whose transfer is complete does not wait for more events: a thread that is not in
\* poll() is about to wake it (io.c:1585-1612, 1703-1727).
CompletedIsWoken ==
  \A c \in Caller : pc[c] = "waiting" /\ c \in completed =>
    \E u \in Thread : WillBroadcast(u) /\ pc[u] \notin {"locked", "poll"}

\* libusb_control_transfer() returns, whoever handles its completion and whether or not the
\* handler thread is alive, without the help of the 60 s timeout (sync.c:45-60).
SyncReturns == \A c \in Caller : pc[c] = "enter" ~> pc[c] = "idle"

\* uvc_close() returns (device.c:1553-1590): the poll() under way is interrupted, and one that the
\* handler thread has yet to begin ends with its timeout.
CloseReturns == pc[Owner] # "idle" ~> pc[Owner] = "idle"

\* "Since this is our first device, we need to spawn the event handler thread" (device.c:334):
\* while the device is open the handler thread is alive.
OpenIsHandled == open => pc[Handler] # "gone"
=============================================================================
