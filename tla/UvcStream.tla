----------------------------- MODULE UvcStream -----------------------------
(***************************************************************************)
(* A video stream of libuvc (stream.c): the thread that opens, starts and  *)
(* closes the stream, libusb's event thread, which runs the callbacks of   *)
(* the transfers one at a time, and the thread of _uvc_user_caller(),      *)
(* which hands the frames to the user's callback.                          *)
(*                                                                         *)
(* A section that holds cb_mutex and does not wait is one step; a thread   *)
(* in pthread_cond_wait() waits for a broadcast on cb_cond.  The fields    *)
(* running and hold_bfh_err are also read and written without the mutex.   *)
(*                                                                         *)
(* Abstractions.  The camera's packets are numbered in the order they are  *)
(* sent, FrameSize of them make up a frame, the last one has the EOF bit   *)
(* and the FID bit is the frame's parity; a buffer is the sequence of its  *)
(* packets.  A transfer that completes carries the next packets, whichever *)
(* transfer it is, so the transfers on their way form a set.  Negotiation, *)
(* descriptors, timestamps, bulk transfers (stream.c 671-781, 976-978),    *)
(* iSight headers and the size of the buffers are left out.  Freeing the   *)
(* handle while a thread or a transfer still holds it has no defined       *)
(* outcome: `dangling' is set and the model ends.                          *)
(***************************************************************************)
EXTENDS Integers, Sequences, FiniteSets

CONSTANTS
  Transfer,   \* the slots of transfers[] (LIBUVC_NUM_TRANSFER_BUFS)
  FrameSize,  \* packets of a frame
  MaxPacket,  \* bound: packets the camera sends
  MaxStart,   \* bound: streams opened
  Faults      \* which faults happen, of "bad", "lost", "submit" and "unplugged"

ASSUME StreamAssumption ==
  /\ Transfer # {}
  /\ FrameSize \in Nat \ {0}
  /\ MaxPacket \in Nat
  /\ MaxStart \in Nat
  /\ Faults \subseteq {"bad", "lost", "submit", "unplugged"}

VARIABLES
  ctl,        \* next step of the thread that starts and stops the stream
  ev, handled,\* next step of the event thread, and the transfer whose callback it runs
  resubmit,   \* its local variable of that name
  user,       \* next step of the thread of _uvc_user_caller()
  lastSeq,    \* its local variable last_seq
  running, transfers, bfhErr, holdErr, fid, seq, holdSeq, outbuf, holdbuf, frame,
  flying,     \* transfers submitted and not completed
  cancelled,  \* those of them libusb_cancel_transfer() was called for
  unsubmitted,\* transfers that the start has yet to submit
  sent,       \* packets the camera has sent
  starts,     \* streams opened so far
  faults,     \* the faults that have happened
  stale,      \* the frame is the one that was there before
  dangling    \* the handle was freed while it was in use

ctlVars  == <<ctl, unsubmitted, starts>>
evVars   == <<ev, handled, resubmit>>
userVars == <<user, lastSeq, frame, stale>>
frames   == <<bfhErr, holdErr, fid, seq, holdSeq, outbuf, holdbuf>>
usb      == <<flying, cancelled>>
streamVars == <<ctlVars, evVars, userVars, running, transfers, frames, usb, sent, faults,
                dangling>>

\* transfers[] has a slot for every transfer on its way and for the one whose callback runs.
TransfersOK ==
  /\ transfers \subseteq Transfer
  /\ flying \subseteq transfers /\ cancelled \subseteq flying
  /\ unsubmitted \subseteq transfers \ (flying \cup handled)
  /\ ctl # "submit" => unsubmitted = {}
  /\ handled \subseteq transfers \ flying
  /\ IF ev = "idle" THEN handled = {} ELSE \E t \in Transfer : handled = {t}

FramesOK ==
  /\ lastSeq \in Nat /\ seq \in Nat /\ holdSeq \in Nat
  /\ fid \in {0, 1}
  /\ outbuf \in Seq(1 .. MaxPacket) /\ holdbuf \in Seq(1 .. MaxPacket)
  /\ frame \in Seq(1 .. MaxPacket)

ThreadsOK ==
  /\ ctl \in {"closed", "opened", "submit", "streaming", "close", "cancel", "await",
              "waiting", "join", "free"}
  /\ ev \in {"idle", "payload", "publish", "decide", "submit", "delete"}
  /\ user \in {"none", "check", "waiting", "test", "calling", "dead"}
  /\ sent \in 0 .. MaxPacket /\ starts \in 0 .. MaxStart
  /\ faults \subseteq Faults

FlagsOK ==
  /\ resubmit \in BOOLEAN /\ running \in BOOLEAN /\ dangling \in BOOLEAN
  /\ bfhErr \in BOOLEAN /\ holdErr \in BOOLEAN /\ stale \in BOOLEAN

StreamTypeOK == ThreadsOK /\ TransfersOK /\ FramesOK /\ FlagsOK

StreamInit ==
  /\ ctl = "closed" /\ unsubmitted = {} /\ starts = 0
  /\ ev = "idle" /\ handled = {} /\ resubmit = FALSE
  /\ user = "none" /\ lastSeq = 0 /\ frame = << >> /\ stale = FALSE
  /\ running = FALSE /\ transfers = {}
  /\ bfhErr = FALSE /\ holdErr = FALSE /\ fid = 0 /\ seq = 0 /\ holdSeq = 0
  /\ outbuf = << >> /\ holdbuf = << >>
  /\ flying = {} /\ cancelled = {}
  /\ sent = 0 /\ faults = {} /\ dangling = FALSE

-----------------------------------------------------------------------------
(* Faults and the camera.                                                   *)

Attached == "unplugged" \notin faults

\* The fault f happens, if this instance has it.
Happens(f) == f \in Faults /\ faults' = faults \cup {f}

Unplug ==
  /\ Attached
  /\ Happens("unplugged")
  /\ UNCHANGED <<ctlVars, evVars, userVars, running, transfers, frames, usb, sent, dangling>>

FrameOf(k) == (k - 1) \div FrameSize
IsLast(k)  == k % FrameSize = 0
Fid(k)     == FrameOf(k) % 2

\* Packets that reach the host in no transfer: it was late to resubmit one.
PacketLost ==
  /\ sent < MaxPacket
  /\ flying # {}
  /\ sent' = sent + 1
  /\ Happens("lost")
  /\ UNCHANGED <<ctlVars, evVars, userVars, running, transfers, frames, usb, dangling>>

-----------------------------------------------------------------------------
(* pthread_cond_broadcast(&strmh->cb_cond)                                  *)

Awake(pc) == IF pc = "waiting" THEN "check" ELSE pc

WakeUser == user' = Awake(user)
WakeStop == ctl' = IF ctl = "waiting" THEN "await" ELSE ctl

-----------------------------------------------------------------------------
(* The controlling thread: uvc_start_streaming_bandwidth(), uvc_stop_streaming(). *)

\* uvc_stream_open_ctrl() on an attached device without an open stream: a zeroed handle.
OpenStream ==
  /\ ctl = "closed" /\ ~dangling /\ Attached
  /\ starts < MaxStart
  /\ ctl' = "opened"
  /\ starts' = starts + 1
  /\ running' = FALSE /\ transfers' = {}
  /\ bfhErr' = FALSE /\ holdErr' = FALSE /\ fid' = 0 /\ seq' = 0 /\ holdSeq' = 0
  /\ outbuf' = << >> /\ holdbuf' = << >> /\ frame' = << >> /\ stale' = FALSE
  /\ user' = "none"
  /\ UNCHANGED <<unsubmitted, evVars, lastSeq, usb, sent, faults, dangling>>

\* Where the first frame of a new stream starts.
NextFrame(k) == ((k + FrameSize - 1) \div FrameSize) * FrameSize

\* uvc_stream_start_bandwidth() up to the thread it creates.
StartStream ==
  /\ ctl = "opened"
  /\ NextFrame(sent) <= MaxPacket
  /\ running' = TRUE
  /\ transfers' = Transfer
  /\ unsubmitted' = Transfer
  /\ user' = "check" /\ lastSeq' = 0
  /\ sent' = NextFrame(sent)
  /\ ctl' = "submit"
  /\ UNCHANGED <<starts, evVars, frame, stale, frames, usb, faults, dangling>>

\* The format, the alternate setting or the end points do not fit: the thread is not created.
StartRefused ==
  /\ ctl = "opened"
  /\ ctl' = "close"
  /\ running' = FALSE
  /\ UNCHANGED <<unsubmitted, starts, evVars, userVars, transfers, frames, usb, sent, faults,
                 dangling>>

SubmitFirst(t) ==
  /\ ctl = "submit"
  /\ t \in unsubmitted
  /\ Attached
  /\ unsubmitted' = unsubmitted \ {t}
  /\ flying' = flying \cup {t}
  /\ ctl' = IF unsubmitted' = {} THEN "streaming" ELSE "submit"
  /\ UNCHANGED <<starts, evVars, userVars, running, transfers, frames, cancelled, sent, faults,
                 dangling>>

\* libusb_submit_transfer() may fail for want of memory and fails without the device.
SubmitFails == (~Attached /\ UNCHANGED faults) \/ Happens("submit")

\* "@todo clean up transfers and memory": uvc_start_streaming_bandwidth() closes the stream.
SubmitFirstFails ==
  /\ ctl = "submit"
  /\ SubmitFails
  /\ running' = FALSE
  /\ unsubmitted' = {}
  /\ ctl' = "close"
  /\ UNCHANGED <<starts, evVars, userVars, transfers, frames, usb, sent, dangling>>

StopStreaming ==
  /\ ctl = "streaming"
  /\ ctl' = "close"
  /\ UNCHANGED <<unsubmitted, starts, evVars, userVars, running, transfers, frames, usb, sent,
                 faults, dangling>>

\* uvc_stream_close() calls uvc_stream_stop() only for a running stream.
CloseStream ==
  /\ ctl = "close"
  /\ ctl' = IF running THEN "cancel" ELSE "free"
  /\ running' = FALSE
  /\ UNCHANGED <<unsubmitted, starts, evVars, userVars, transfers, frames, usb, sent, faults,
                 dangling>>

\* Mutant: libusb also cancels transfers that are not on their way.
CancelledAll == cancelled \cup transfers

\* libusb_cancel_transfer() for every slot; it does not find one whose callback is running.
Cancelled == cancelled \cup (transfers \cap flying)

\* Mutant: the stop does not wait for them.
NotAwaited == TRUE

\* The stop waits until every slot is NULL.
AllDeleted == transfers = {}

AwaitOrKick ==
  \/ ~AllDeleted /\ ctl' = "waiting" /\ UNCHANGED user
  \/ AllDeleted /\ ctl' = "join" /\ WakeUser

CancelTransfers ==
  /\ ctl = "cancel"
  /\ cancelled' = Cancelled
  /\ AwaitOrKick
  /\ UNCHANGED <<unsubmitted, starts, evVars, lastSeq, frame, stale, running, transfers, frames,
                 flying, sent, faults, dangling>>

AwaitTransfers ==
  /\ ctl = "await"
  /\ AwaitOrKick
  /\ UNCHANGED <<unsubmitted, starts, evVars, lastSeq, frame, stale, running, transfers, frames,
                 usb, sent, faults, dangling>>

\* Mutant: the thread is not joined.
NotJoinedUser == TRUE

\* pthread_join()
UserGone == user = "dead"

JoinUser ==
  /\ ctl = "join"
  /\ UserGone
  /\ ctl' = "free"
  /\ UNCHANGED <<unsubmitted, starts, evVars, userVars, running, transfers, frames, usb, sent,
                 faults, dangling>>

InUse == flying # {} \/ ev # "idle" \/ user \notin {"none", "dead"}

FreeHandle ==
  /\ ctl = "free"
  /\ ctl' = "closed"
  /\ dangling' = InUse
  /\ UNCHANGED <<unsubmitted, starts, evVars, userVars, running, transfers, frames, usb, sent,
                 faults>>

-----------------------------------------------------------------------------
(* The event thread: _uvc_stream_callback().                                *)

\* A transfer of the event thread's device ends; its callback starts at step pc.
Completes(t, pc, again) ==
  /\ ev = "idle"
  /\ t \in flying
  /\ flying' = flying \ {t}
  /\ cancelled' = cancelled \ {t}
  /\ ev' = pc /\ handled' = {t} /\ resubmit' = again
  /\ UNCHANGED <<ctlVars, userVars, transfers, frames, dangling>>

TransferCompleted(t) ==
  /\ Attached /\ t \notin cancelled
  /\ Completes(t, "payload", TRUE)
  /\ UNCHANGED <<running, sent, faults>>

TransferCancelled(t) ==
  /\ t \in cancelled
  /\ Completes(t, "decide", FALSE)
  /\ UNCHANGED <<running, sent, faults>>

\* "this needs for unexpected disconnect of cable otherwise hangup"
TransferNoDevice(t) ==
  /\ ~Attached /\ t \notin cancelled
  /\ Completes(t, "decide", FALSE)
  /\ running' = FALSE
  /\ UNCHANGED <<sent, faults>>

\* An error ends the transfer for good; after a stall, an overflow or a timeout it is submitted
\* again.  Its packets are lost.
TransferFails(t) ==
  /\ Attached /\ t \notin cancelled
  /\ sent < MaxPacket
  /\ sent' = sent + 1
  /\ Happens("lost")
  /\ \E again \in BOOLEAN : Completes(t, "decide", again)
  /\ UNCHANGED running

(* _uvc_process_payload_iso(), packet by packet.                            *)

\* Mutant: got_bytes is not reset.
SwapKeepsBytes(rest, bad) ==
  /\ holdbuf' = outbuf /\ holdErr' = bfhErr /\ holdSeq' = seq
  /\ outbuf' = outbuf \o rest /\ bfhErr' = bad /\ seq' = seq + 1
  /\ WakeUser /\ WakeStop

\* _uvc_swap_buffers(); afterwards the working buffer holds the packets rest, with the flag bad.
SwapThen(rest, bad) ==
  /\ holdbuf' = outbuf /\ holdErr' = bfhErr /\ holdSeq' = seq
  /\ outbuf' = rest /\ bfhErr' = bad /\ seq' = seq + 1
  /\ WakeUser /\ WakeStop

Swap == SwapThen(<< >>, FALSE)

KeepBuffers == UNCHANGED <<holdErr, seq, holdSeq, holdbuf, user, ctl>>

\* The callback takes up the camera's next packet.
NextPacket ==
  /\ ev = "payload"
  /\ sent < MaxPacket
  /\ sent' = sent + 1
  /\ UNCHANGED <<unsubmitted, starts, handled, resubmit, lastSeq, frame, stale, running, transfers, usb,
                 dangling>>

\* The FID bit flips although bytes of another frame are there: its EOF packet was bad.
Flipped(k) == fid # Fid(k) /\ outbuf # << >>

\* A good packet is appended to the bytes of its frame; the first one of a frame whose predecessor
\* got no EOF publishes that one.  The only other thread that sees outbuf does so after a swap, so
\* the copy is part of this step.
PacketGood ==
  LET k == sent + 1 IN
  /\ NextPacket
  /\ fid' = Fid(k)
  /\ \/ Flipped(k) /\ SwapThen(<<k>>, FALSE)
     \/ ~Flipped(k) /\ outbuf' = Append(outbuf, k) /\ KeepBuffers /\ UNCHANGED bfhErr
  /\ ev' = IF IsLast(k) THEN "publish" ELSE "payload"
  /\ UNCHANGED faults

\* A packet with a wrong status, or without a buffer, marks the frame.
PacketBad ==
  /\ NextPacket
  /\ Happens("bad")
  /\ bfhErr' = TRUE
  /\ KeepBuffers
  /\ UNCHANGED <<ev, fid, outbuf>>

\* A packet shorter than its header says does so too, after its FID bit was looked at.
PacketBogus ==
  LET k == sent + 1 IN
  /\ NextPacket
  /\ Happens("bad")
  /\ fid' = Fid(k)
  /\ \/ Flipped(k) /\ SwapThen(<< >>, TRUE)
     \/ ~Flipped(k) /\ bfhErr' = TRUE /\ KeepBuffers /\ UNCHANGED outbuf
  /\ UNCHANGED ev

\* A packet with the error bit is skipped, and the frame is not marked.  That the callback has the
\* kernel clear the halt of the end point then (stream.c 869) touches no state of the stream.
PacketError ==
  /\ NextPacket
  /\ Happens("lost")
  /\ KeepBuffers
  /\ UNCHANGED <<ev, fid, bfhErr, outbuf>>

\* "The EOF bit is set, so publish the complete frame"
PublishFrame ==
  /\ ev = "publish"
  /\ Swap
  /\ ev' = "payload"
  /\ UNCHANGED <<unsubmitted, starts, handled, resubmit, lastSeq, frame, stale, running, transfers, fid,
                 usb, sent, faults, dangling>>

\* The other packets of the transfer are empty.
PayloadDone ==
  /\ ev = "payload"
  /\ ev' = "decide"
  /\ UNCHANGED <<ctlVars, handled, resubmit, userVars, running, transfers, frames, usb, sent, faults,
                 dangling>>

\* if (LIKELY(strmh->running && resubmit))
Decide ==
  /\ ev = "decide"
  /\ ev' = IF running /\ resubmit THEN "submit" ELSE "delete"
  /\ UNCHANGED <<ctlVars, handled, resubmit, userVars, running, transfers, frames, usb, sent, faults,
                 dangling>>

CallbackEnds == ev' = "idle" /\ handled' = {} /\ resubmit' = FALSE

Resubmit ==
  /\ ev = "submit"
  /\ Attached
  /\ CallbackEnds
  /\ flying' = flying \cup handled
  /\ UNCHANGED <<ctlVars, userVars, running, transfers, frames, cancelled, sent,
                 faults, dangling>>

\* The result of the submission is not looked at: the slot keeps its transfer.
ResubmitFails ==
  /\ ev = "submit"
  /\ SubmitFails
  /\ CallbackEnds
  /\ UNCHANGED <<ctlVars, userVars, running, transfers, frames, usb, sent, dangling>>

\* Mutant: the deletion is not broadcast.
DeletedSilently ==
  /\ ev = "delete"
  /\ transfers' = transfers \ handled
  /\ CallbackEnds
  /\ UNCHANGED <<ctlVars, userVars, running, frames, usb, sent, faults, dangling>>

\* _uvc_delete_transfer()
DeleteTransfer ==
  /\ ev = "delete"
  /\ transfers' = transfers \ handled
  /\ WakeUser /\ WakeStop
  /\ CallbackEnds
  /\ UNCHANGED <<unsubmitted, starts, lastSeq, frame, stale, running, frames, usb,
                 sent, faults, dangling>>

-----------------------------------------------------------------------------
(* The thread of _uvc_user_caller().                                        *)

\* Mutant: any wake-up is taken for a new frame.
AnyWakeUp == TRUE

NewFrame == lastSeq # holdSeq

\* The wait and what follows it under the mutex, with _uvc_populate_frame().
TakeFrame ==
  /\ user = "check"
  /\ \/ /\ ~running
        /\ user' = "dead"
        /\ UNCHANGED <<lastSeq, frame, stale>>
     \/ /\ running /\ ~NewFrame
        /\ user' = "waiting"
        /\ UNCHANGED <<lastSeq, frame, stale>>
     \/ /\ running /\ NewFrame
        /\ user' = "test"
        /\ lastSeq' = holdSeq
        /\ frame' = IF holdErr THEN frame ELSE holdbuf
        /\ stale' = (frame' = frame)
  /\ UNCHANGED <<ctlVars, evVars, running, transfers, frames, usb, sent, faults, dangling>>

\* hold_bfh_err is read again, without the mutex, before the callback is called.
TestFrame ==
  /\ user = "test"
  /\ user' = IF holdErr THEN "check" ELSE "calling"
  /\ UNCHANGED <<ctlVars, evVars, lastSeq, frame, stale, running, transfers, frames, usb, sent,
                 faults, dangling>>

CallbackReturns ==
  /\ user = "calling"
  /\ user' = "check"
  /\ UNCHANGED <<ctlVars, evVars, lastSeq, frame, stale, running, transfers, frames, usb, sent,
                 faults, dangling>>

-----------------------------------------------------------------------------
\* The steps by which starting, stopping and closing go on by themselves.
ControlStep ==
  \/ StartStream \/ StartRefused
  \/ \E t \in Transfer : SubmitFirst(t)
  \/ SubmitFirstFails
  \/ CloseStream \/ CancelTransfers \/ AwaitTransfers \/ JoinUser \/ FreeHandle

EventStep ==
  \/ \E t \in Transfer : \/ TransferCompleted(t) \/ TransferCancelled(t)
                         \/ TransferNoDevice(t) \/ TransferFails(t)
  \/ PacketGood \/ PacketBad \/ PacketBogus \/ PacketError \/ PublishFrame \/ PayloadDone
  \/ Decide \/ Resubmit \/ ResubmitFails \/ DeleteTransfer

UserStep == TakeFrame \/ TestFrame \/ CallbackReturns

StreamNext ==
  /\ ~dangling
  /\ \/ OpenStream \/ StopStreaming \/ ControlStep
     \/ EventStep \/ UserStep
     \/ Unplug \/ PacketLost

StreamSpec == StreamInit /\ [][StreamNext]_streamVars

\* Every thread runs, the user's callback returns, and a transfer on its way completes: the camera
\* goes on sending, libusb cancels it after its five seconds, or the kernel reports that the
\* device is gone.
StreamFairSpec ==
  /\ StreamSpec
  /\ WF_streamVars(~dangling /\ ControlStep)
  /\ WF_streamVars(~dangling /\ EventStep)
  /\ WF_streamVars(~dangling /\ UserStep)

-----------------------------------------------------------------------------
(* Properties. *)

DeviceFailed == faults \cap {"submit", "unplugged"} # {}

\* uvc_stream_close() frees the handle only when no transfer, callback or user thread can touch
\* it any more (stream.c:1862-1893), unless the device was unplugged or refused a transfer: then
\* running is already 0, and uvc_stream_stop() is skipped with everything it waits for.
FreedWhenQuiet == dangling => DeviceFailed

\* The packets of b are the last ones of one camera frame, in order and with its end.
IsFrameEnd(b) ==
  LET n == Len(b)
  IN  /\ n \in 1 .. FrameSize
      /\ IsLast(b[n])
      /\ \A i \in 1 .. n : b[i] = b[n] - n + i

\* A frame that is not marked as broken is never a mixture of two camera frames, although packets
\* may be bad, the two buffers change places under the feet of the user thread, and the error
\* flag is cleared with every swap (stream.c:602-626, 852-948, 1666-1706).  It may lack its first
\* packets: the flag of a frame is cleared with the one before it.  Silent losses are excluded.
NoMixedFrame == "lost" \notin faults => frame = << >> \/ IsFrameEnd(frame)

\* The user's callback gets a frame once, unless a broken frame came in between: then the flag is
\* read again without cb_mutex (stream.c:1655) and the call repeats the frame before.
CalledOncePerFrame == user = "calling" /\ stale => "bad" \in faults

\* uvc_stop_streaming() returns, unless a transfer that could not be submitted again keeps its
\* slot: uvc_stream_stop() waits for it forever (stream.c:1003, 1831-1839).
Stranded == DeviceFailed /\ transfers # {} /\ flying = {} /\ ev = "idle"

Stopping == ctl \in {"close", "cancel", "await", "waiting", "join", "free"}

StreamStops == Stopping ~> (ctl = "closed" \/ Stranded)

\* The stream keeps the promise of UvcFrameSource (stream.c:1226-1244, 1780-1893).
Source == INSTANCE UvcFrameSource WITH
  phase  <- IF user = "none" \/ ctl = "closed" THEN "off"
            ELSE IF Stopping THEN "stopping" ELSE "on",
  inCall <- user = "calling",
  failed <- DeviceFailed

KeepsPromise == Source!SourceSpec
=============================================================================
