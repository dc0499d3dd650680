-------------------------- MODULE UvcStream_proofs --------------------------
(***************************************************************************)
(* Type correctness of UvcStream, that the handle is freed when nobody     *)
(* uses it any more, that the stream implements UvcFrameSource, that no    *)
(* unmarked frame is a mixture, and that a frame is delivered once, for    *)
(* every number of transfers, packets and starts, and every set of faults. *)
(***************************************************************************)
EXTENDS UvcStream, TLAPS

\* A handle that is not open yet, or not any more, is used by nobody.
ClosedQuiet ==
  /\ flying = {} /\ ev = "idle"
  /\ user \in {"none", "dead"}
  /\ ctl = "opened" => user = "none"

\* While the device works: an empty transfers[] says that libusb is done with the stream
\* (TransfersOK), and the close skips the stop only if nothing was started.
StopComplete ==
  /\ ctl \in {"join", "free"} => flying = {} /\ ev = "idle"
  /\ ctl = "free" => user \in {"none", "dead"}
  /\ ctl \in {"submit", "streaming"} => running
  /\ ctl = "close" /\ ~running => flying = {} /\ ev = "idle" /\ user = "none"

QuietInv ==
  /\ ctl \in {"closed", "opened"} /\ ~dangling => ClosedQuiet
  /\ DeviceFailed \/ (~dangling /\ StopComplete)

StreamInv ==
  /\ StreamTypeOK
  /\ QuietInv

\* The invariant holds of a stream that was never opened.
LEMMA StreamInitInv == StreamInit => StreamInv
<1> SUFFICES ASSUME StreamInit PROVE StreamInv
  OBVIOUS
<1> USE StreamAssumption DEF StreamInit
<1>1. ThreadsOK
  BY DEF ThreadsOK
<1>2. TransfersOK
  BY DEF TransfersOK
<1>3. FramesOK
  BY DEF FramesOK
<1>4. FlagsOK
  BY DEF FlagsOK
<1>5. QuietInv
  BY DEF QuietInv, ClosedQuiet, StopComplete, DeviceFailed
<1> QED
  BY <1>1, <1>2, <1>3, <1>4, <1>5 DEF StreamInv, StreamTypeOK

\* The FID bit is a bit.
LEMMA FidType == \A k \in Nat : Fid(k) \in {0, 1}
  BY StreamAssumption DEF Fid, FrameOf

\* A frame starts at a natural number of packets.
LEMMA NextFrameIsNat == \A k \in Nat : NextFrame(k) \in Nat
<1> SUFFICES ASSUME NEW k \in Nat PROVE NextFrame(k) \in Nat
  OBVIOUS
<1>1. (k + FrameSize - 1) \div FrameSize \in Nat
  BY StreamAssumption
<1> QED
  BY <1>1, StreamAssumption DEF NextFrame

\* Every step keeps the types.
LEMMA StreamTypeStep == StreamInv /\ [StreamNext]_streamVars => StreamTypeOK'
<1> SUFFICES ASSUME StreamInv, [StreamNext]_streamVars PROVE StreamTypeOK'
  OBVIOUS
<1> USE StreamAssumption
<1> USE DEF StreamInv, StreamTypeOK, ctlVars, evVars, userVars, frames, usb
<1>1. CASE OpenStream
  <2>1. TransfersOK'
    BY <1>1 DEF OpenStream, TransfersOK, QuietInv, ClosedQuiet
  <2>2. FramesOK'
    BY <1>1 DEF OpenStream, FramesOK
  <2>3. ThreadsOK'
    BY <1>1 DEF OpenStream, ThreadsOK
  <2>4. FlagsOK'
    BY <1>1 DEF OpenStream, FlagsOK
  <2> QED
    BY <2>1, <2>2, <2>3, <2>4 DEF StreamTypeOK
<1>2. CASE StopStreaming
  <2>1. TransfersOK'
    BY <1>2 DEF StopStreaming, TransfersOK
  <2>2. FramesOK'
    BY <1>2 DEF StopStreaming, FramesOK
  <2>3. ThreadsOK'
    BY <1>2 DEF StopStreaming, ThreadsOK
  <2>4. FlagsOK'
    BY <1>2 DEF StopStreaming, FlagsOK
  <2> QED
    BY <2>1, <2>2, <2>3, <2>4 DEF StreamTypeOK
<1>3. CASE Unplug
  <2>1. TransfersOK'
    BY <1>3 DEF Unplug, Happens, TransfersOK
  <2>2. FramesOK'
    BY <1>3 DEF Unplug, Happens, FramesOK
  <2>3. ThreadsOK'
    BY <1>3 DEF Unplug, Happens, ThreadsOK
  <2>4. FlagsOK'
    BY <1>3 DEF Unplug, Happens, FlagsOK
  <2> QED
    BY <2>1, <2>2, <2>3, <2>4 DEF StreamTypeOK
<1>4. CASE PacketLost
  <2>1. TransfersOK'
    BY <1>4 DEF PacketLost, Happens, TransfersOK
  <2>2. FramesOK'
    BY <1>4 DEF PacketLost, Happens, FramesOK
  <2>3. ThreadsOK'
    BY <1>4 DEF PacketLost, Happens, ThreadsOK
  <2>4. FlagsOK'
    BY <1>4 DEF PacketLost, Happens, FlagsOK
  <2> QED
    BY <2>1, <2>2, <2>3, <2>4 DEF StreamTypeOK
<1>5. CASE ControlStep
  <2>1. CASE StartStream
    <3>0. ~dangling
      BY <2>1 DEF StartStream, StreamNext, streamVars
    <3>1. TransfersOK'
      BY <2>1, <3>0 DEF StartStream, TransfersOK, QuietInv, ClosedQuiet
    <3>2. FramesOK'
      BY <2>1 DEF StartStream, FramesOK
    <3>3. ThreadsOK'
      BY <2>1, NextFrameIsNat DEF StartStream, ThreadsOK
    <3>4. FlagsOK'
      BY <2>1 DEF StartStream, FlagsOK
    <3> QED
      BY <3>1, <3>2, <3>3, <3>4 DEF StreamTypeOK
  <2>2. CASE StartRefused
    <3>1. TransfersOK'
      BY <2>2 DEF StartRefused, TransfersOK
    <3>2. FramesOK'
      BY <2>2 DEF StartRefused, FramesOK
    <3>3. ThreadsOK'
      BY <2>2 DEF StartRefused, ThreadsOK
    <3>4. FlagsOK'
      BY <2>2 DEF StartRefused, FlagsOK
    <3> QED
      BY <3>1, <3>2, <3>3, <3>4 DEF StreamTypeOK
  <2>3. ASSUME NEW t \in Transfer, SubmitFirst(t) PROVE StreamTypeOK'
    <3>1. TransfersOK'
      BY <2>3 DEF SubmitFirst, TransfersOK
    <3>2. FramesOK'
      BY <2>3 DEF SubmitFirst, FramesOK
    <3>3. ThreadsOK'
      BY <2>3 DEF SubmitFirst, ThreadsOK
    <3>4. FlagsOK'
      BY <2>3 DEF SubmitFirst, FlagsOK
    <3> QED
      BY <3>1, <3>2, <3>3, <3>4 DEF StreamTypeOK
  <2>4. CASE SubmitFirstFails
    <3>1. TransfersOK'
      BY <2>4 DEF SubmitFirstFails, SubmitFails, Happens, TransfersOK
    <3>2. FramesOK'
      BY <2>4 DEF SubmitFirstFails, SubmitFails, Happens, FramesOK
    <3>3. ThreadsOK'
      BY <2>4 DEF SubmitFirstFails, SubmitFails, Happens, ThreadsOK
    <3>4. FlagsOK'
      BY <2>4 DEF SubmitFirstFails, SubmitFails, Happens, FlagsOK
    <3> QED
      BY <3>1, <3>2, <3>3, <3>4 DEF StreamTypeOK
  <2>5. CASE CloseStream
    <3>1. TransfersOK'
      BY <2>5 DEF CloseStream, TransfersOK
    <3>2. FramesOK'
      BY <2>5 DEF CloseStream, FramesOK
    <3>3. ThreadsOK'
      BY <2>5 DEF CloseStream, ThreadsOK
    <3>4. FlagsOK'
      BY <2>5 DEF CloseStream, FlagsOK
    <3> QED
      BY <3>1, <3>2, <3>3, <3>4 DEF StreamTypeOK
  <2>6. CASE CancelTransfers
    <3>1. TransfersOK'
      BY <2>6 DEF CancelTransfers, Cancelled, AwaitOrKick, AllDeleted, WakeUser, Awake,
           TransfersOK
    <3>2. FramesOK'
      BY <2>6 DEF CancelTransfers, Cancelled, AwaitOrKick, AllDeleted, WakeUser, Awake, FramesOK
    <3>3. ThreadsOK'
      BY <2>6 DEF CancelTransfers, Cancelled, AwaitOrKick, AllDeleted, WakeUser, Awake, ThreadsOK
    <3>4. FlagsOK'
      BY <2>6 DEF CancelTransfers, Cancelled, AwaitOrKick, AllDeleted, WakeUser, Awake, FlagsOK
    <3> QED
      BY <3>1, <3>2, <3>3, <3>4 DEF StreamTypeOK
  <2>7. CASE AwaitTransfers
    <3>1. TransfersOK'
      BY <2>7 DEF AwaitTransfers, AwaitOrKick, AllDeleted, WakeUser, Awake, TransfersOK
    <3>2. FramesOK'
      BY <2>7 DEF AwaitTransfers, AwaitOrKick, AllDeleted, WakeUser, Awake, FramesOK
    <3>3. ThreadsOK'
      BY <2>7 DEF AwaitTransfers, AwaitOrKick, AllDeleted, WakeUser, Awake, ThreadsOK
    <3>4. FlagsOK'
      BY <2>7 DEF AwaitTransfers, AwaitOrKick, AllDeleted, WakeUser, Awake, FlagsOK
    <3> QED
      BY <3>1, <3>2, <3>3, <3>4 DEF StreamTypeOK
  <2>8. CASE JoinUser
    <3>1. TransfersOK'
      BY <2>8 DEF JoinUser, UserGone, TransfersOK
    <3>2. FramesOK'
      BY <2>8 DEF JoinUser, UserGone, FramesOK
    <3>3. ThreadsOK'
      BY <2>8 DEF JoinUser, UserGone, ThreadsOK
    <3>4. FlagsOK'
      BY <2>8 DEF JoinUser, UserGone, FlagsOK
    <3> QED
      BY <3>1, <3>2, <3>3, <3>4 DEF StreamTypeOK
  <2>9. CASE FreeHandle
    <3>1. TransfersOK'
      BY <2>9 DEF FreeHandle, InUse, TransfersOK
    <3>2. FramesOK'
      BY <2>9 DEF FreeHandle, InUse, FramesOK
    <3>3. ThreadsOK'
      BY <2>9 DEF FreeHandle, InUse, ThreadsOK
    <3>4. FlagsOK'
      BY <2>9 DEF FreeHandle, InUse, FlagsOK
    <3> QED
      BY <3>1, <3>2, <3>3, <3>4 DEF StreamTypeOK
  <2> QED
    BY <1>5, <2>1, <2>2, <2>3, <2>4, <2>5, <2>6, <2>7, <2>8, <2>9 DEF ControlStep
<1>6. CASE EventStep
  <2>1. ASSUME NEW t \in Transfer, TransferCompleted(t) PROVE StreamTypeOK'
    <3>1. TransfersOK'
      BY <2>1 DEF TransferCompleted, Completes, TransfersOK
    <3>2. FramesOK'
      BY <2>1 DEF TransferCompleted, Completes, FramesOK
    <3>3. ThreadsOK'
      BY <2>1 DEF TransferCompleted, Completes, ThreadsOK
    <3>4. FlagsOK'
      BY <2>1 DEF TransferCompleted, Completes, FlagsOK
    <3> QED
      BY <3>1, <3>2, <3>3, <3>4 DEF StreamTypeOK
  <2>2. ASSUME NEW t \in Transfer, TransferCancelled(t) PROVE StreamTypeOK'
    <3>1. TransfersOK'
      BY <2>2 DEF TransferCancelled, Completes, TransfersOK
    <3>2. FramesOK'
      BY <2>2 DEF TransferCancelled, Completes, FramesOK
    <3>3. ThreadsOK'
      BY <2>2 DEF TransferCancelled, Completes, ThreadsOK
    <3>4. FlagsOK'
      BY <2>2 DEF TransferCancelled, Completes, FlagsOK
    <3> QED
      BY <3>1, <3>2, <3>3, <3>4 DEF StreamTypeOK
  <2>3. ASSUME NEW t \in Transfer, TransferNoDevice(t) PROVE StreamTypeOK'
    <3>1. TransfersOK'
      BY <2>3 DEF TransferNoDevice, Completes, TransfersOK
    <3>2. FramesOK'
      BY <2>3 DEF TransferNoDevice, Completes, FramesOK
    <3>3. ThreadsOK'
      BY <2>3 DEF TransferNoDevice, Completes, ThreadsOK
    <3>4. FlagsOK'
      BY <2>3 DEF TransferNoDevice, Completes, FlagsOK
    <3> QED
      BY <3>1, <3>2, <3>3, <3>4 DEF StreamTypeOK
  <2>4. ASSUME NEW t \in Transfer, TransferFails(t) PROVE StreamTypeOK'
    <3>1. TransfersOK'
      BY <2>4 DEF TransferFails, Completes, Happens, TransfersOK
    <3>2. FramesOK'
      BY <2>4 DEF TransferFails, Completes, Happens, FramesOK
    <3>3. ThreadsOK'
      BY <2>4 DEF TransferFails, Completes, Happens, ThreadsOK
    <3>4. FlagsOK'
      BY <2>4 DEF TransferFails, Completes, Happens, FlagsOK
    <3> QED
      BY <3>1, <3>2, <3>3, <3>4 DEF StreamTypeOK
  <2>5. CASE PacketGood
    <3>1. TransfersOK'
      BY <2>5 DEF PacketGood, NextPacket, SwapThen, KeepBuffers, WakeUser, WakeStop, Awake,
           TransfersOK
    <3>2. FramesOK'
      <4>1. sent + 1 \in 1 .. MaxPacket /\ sent + 1 \in Nat
        BY <2>5 DEF PacketGood, NextPacket, ThreadsOK
      <4>2. fid' \in {0, 1}
        BY <2>5, <4>1, FidType DEF PacketGood
      <4>3. seq + 1 \in Nat /\ <<sent + 1>> \in Seq(1 .. MaxPacket)
        BY <4>1 DEF FramesOK
      <4>4. Append(outbuf, sent + 1) \in Seq(1 .. MaxPacket)
        BY <4>1 DEF FramesOK
      <4>5. CASE Flipped(sent + 1)
        BY <2>5, <4>2, <4>3, <4>5 DEF PacketGood, NextPacket, SwapThen, KeepBuffers, WakeUser,
             WakeStop, Awake, FramesOK
      <4>6. CASE ~Flipped(sent + 1)
        BY <2>5, <4>2, <4>4, <4>6 DEF PacketGood, NextPacket, SwapThen, KeepBuffers, WakeUser,
             WakeStop, Awake, FramesOK
      <4> QED
        BY <4>5, <4>6
    <3>3. ThreadsOK'
      BY <2>5 DEF PacketGood, NextPacket, SwapThen, KeepBuffers, WakeUser, WakeStop, Awake,
           ThreadsOK
    <3>4. FlagsOK'
      BY <2>5 DEF PacketGood, NextPacket, SwapThen, KeepBuffers, WakeUser, WakeStop, Awake,
           FlagsOK
    <3> QED
      BY <3>1, <3>2, <3>3, <3>4 DEF StreamTypeOK
  <2>6. CASE PacketBad
    <3>1. TransfersOK'
      BY <2>6 DEF PacketBad, NextPacket, KeepBuffers, Happens, TransfersOK
    <3>2. FramesOK'
      BY <2>6 DEF PacketBad, NextPacket, KeepBuffers, Happens, FramesOK
    <3>3. ThreadsOK'
      BY <2>6 DEF PacketBad, NextPacket, KeepBuffers, Happens, ThreadsOK
    <3>4. FlagsOK'
      BY <2>6 DEF PacketBad, NextPacket, KeepBuffers, Happens, FlagsOK
    <3> QED
      BY <3>1, <3>2, <3>3, <3>4 DEF StreamTypeOK
  <2>7. CASE PacketBogus
    <3>1. TransfersOK'
      BY <2>7 DEF PacketBogus, NextPacket, SwapThen, KeepBuffers, WakeUser, WakeStop, Awake,
           Happens, TransfersOK
    <3>2. FramesOK'
      <4>1. sent + 1 \in 1 .. MaxPacket /\ sent + 1 \in Nat
        BY <2>7 DEF PacketBogus, NextPacket, ThreadsOK
      <4>2. fid' \in {0, 1}
        BY <2>7, <4>1, FidType DEF PacketBogus
      <4>3. seq + 1 \in Nat /\ << >> \in Seq(1 .. MaxPacket)
        BY <4>1 DEF FramesOK
      <4>4. Append(outbuf, sent + 1) \in Seq(1 .. MaxPacket)
        BY <4>1 DEF FramesOK
      <4>5. CASE Flipped(sent + 1)
        BY <2>7, <4>2, <4>3, <4>5 DEF PacketBogus, NextPacket, SwapThen, KeepBuffers, WakeUser,
             WakeStop, Awake, Happens, FramesOK
      <4>6. CASE ~Flipped(sent + 1)
        BY <2>7, <4>2, <4>4, <4>6 DEF PacketBogus, NextPacket, SwapThen, KeepBuffers, WakeUser,
             WakeStop, Awake, Happens, FramesOK
      <4> QED
        BY <4>5, <4>6
    <3>3. ThreadsOK'
      BY <2>7 DEF PacketBogus, NextPacket, SwapThen, KeepBuffers, WakeUser, WakeStop, Awake,
           Happens, ThreadsOK
    <3>4. FlagsOK'
      BY <2>7 DEF PacketBogus, NextPacket, SwapThen, KeepBuffers, WakeUser, WakeStop, Awake,
           Happens, FlagsOK
    <3> QED
      BY <3>1, <3>2, <3>3, <3>4 DEF StreamTypeOK
  <2>8. CASE PacketError
    <3>1. TransfersOK'
      BY <2>8 DEF PacketError, NextPacket, KeepBuffers, Happens, TransfersOK
    <3>2. FramesOK'
      BY <2>8 DEF PacketError, NextPacket, KeepBuffers, Happens, FramesOK
    <3>3. ThreadsOK'
      BY <2>8 DEF PacketError, NextPacket, KeepBuffers, Happens, ThreadsOK
    <3>4. FlagsOK'
      BY <2>8 DEF PacketError, NextPacket, KeepBuffers, Happens, FlagsOK
    <3> QED
      BY <3>1, <3>2, <3>3, <3>4 DEF StreamTypeOK
  <2>9. CASE PublishFrame
    <3>1. TransfersOK'
      BY <2>9 DEF PublishFrame, Swap, SwapThen, WakeUser, WakeStop, Awake, TransfersOK
    <3>2. FramesOK'
      BY <2>9 DEF PublishFrame, Swap, SwapThen, WakeUser, WakeStop, Awake, FramesOK
    <3>3. ThreadsOK'
      BY <2>9 DEF PublishFrame, Swap, SwapThen, WakeUser, WakeStop, Awake, ThreadsOK
    <3>4. FlagsOK'
      BY <2>9 DEF PublishFrame, Swap, SwapThen, WakeUser, WakeStop, Awake, FlagsOK
    <3> QED
      BY <3>1, <3>2, <3>3, <3>4 DEF StreamTypeOK
  <2>10. CASE PayloadDone
    <3>1. TransfersOK'
      BY <2>10 DEF PayloadDone, TransfersOK
    <3>2. FramesOK'
      BY <2>10 DEF PayloadDone, FramesOK
    <3>3. ThreadsOK'
      BY <2>10 DEF PayloadDone, ThreadsOK
    <3>4. FlagsOK'
      BY <2>10 DEF PayloadDone, FlagsOK
    <3> QED
      BY <3>1, <3>2, <3>3, <3>4 DEF StreamTypeOK
  <2>11. CASE Decide
    <3>1. TransfersOK'
      BY <2>11 DEF Decide, TransfersOK
    <3>2. FramesOK'
      BY <2>11 DEF Decide, FramesOK
    <3>3. ThreadsOK'
      BY <2>11 DEF Decide, ThreadsOK
    <3>4. FlagsOK'
      BY <2>11 DEF Decide, FlagsOK
    <3> QED
      BY <3>1, <3>2, <3>3, <3>4 DEF StreamTypeOK
  <2>12. CASE Resubmit
    <3>1. TransfersOK'
      BY <2>12 DEF Resubmit, CallbackEnds, TransfersOK
    <3>2. FramesOK'
      BY <2>12 DEF Resubmit, CallbackEnds, FramesOK
    <3>3. ThreadsOK'
      BY <2>12 DEF Resubmit, CallbackEnds, ThreadsOK
    <3>4. FlagsOK'
      BY <2>12 DEF Resubmit, CallbackEnds, FlagsOK
    <3> QED
      BY <3>1, <3>2, <3>3, <3>4 DEF StreamTypeOK
  <2>13. CASE ResubmitFails
    <3>1. TransfersOK'
      BY <2>13 DEF ResubmitFails, CallbackEnds, SubmitFails, Happens, TransfersOK
    <3>2. FramesOK'
      BY <2>13 DEF ResubmitFails, CallbackEnds, SubmitFails, Happens, FramesOK
    <3>3. ThreadsOK'
      BY <2>13 DEF ResubmitFails, CallbackEnds, SubmitFails, Happens, ThreadsOK
    <3>4. FlagsOK'
      BY <2>13 DEF ResubmitFails, CallbackEnds, SubmitFails, Happens, FlagsOK
    <3> QED
      BY <3>1, <3>2, <3>3, <3>4 DEF StreamTypeOK
  <2>14. CASE DeleteTransfer
    <3>1. TransfersOK'
      BY <2>14 DEF DeleteTransfer, CallbackEnds, WakeUser, WakeStop, Awake, TransfersOK
    <3>2. FramesOK'
      BY <2>14 DEF DeleteTransfer, CallbackEnds, WakeUser, WakeStop, Awake, FramesOK
    <3>3. ThreadsOK'
      BY <2>14 DEF DeleteTransfer, CallbackEnds, WakeUser, WakeStop, Awake, ThreadsOK
    <3>4. FlagsOK'
      BY <2>14 DEF DeleteTransfer, CallbackEnds, WakeUser, WakeStop, Awake, FlagsOK
    <3> QED
      BY <3>1, <3>2, <3>3, <3>4 DEF StreamTypeOK
  <2> QED
    BY <1>6, <2>1, <2>2, <2>3, <2>4, <2>5, <2>6, <2>7, <2>8, <2>9, <2>10, <2>11, <2>12, <2>13,
         <2>14 DEF EventStep
<1>7. CASE UserStep
  <2>1. CASE TakeFrame
    <3>1. TransfersOK'
      BY <2>1 DEF TakeFrame, TransfersOK
    <3>2. FramesOK'
      BY <2>1 DEF TakeFrame, FramesOK
    <3>3. ThreadsOK'
      BY <2>1 DEF TakeFrame, ThreadsOK
    <3>4. FlagsOK'
      BY <2>1 DEF TakeFrame, FlagsOK
    <3> QED
      BY <3>1, <3>2, <3>3, <3>4 DEF StreamTypeOK
  <2>2. CASE TestFrame
    <3>1. TransfersOK'
      BY <2>2 DEF TestFrame, TransfersOK
    <3>2. FramesOK'
      BY <2>2 DEF TestFrame, FramesOK
    <3>3. ThreadsOK'
      BY <2>2 DEF TestFrame, ThreadsOK
    <3>4. FlagsOK'
      BY <2>2 DEF TestFrame, FlagsOK
    <3> QED
      BY <3>1, <3>2, <3>3, <3>4 DEF StreamTypeOK
  <2>3. CASE CallbackReturns
    <3>1. TransfersOK'
      BY <2>3 DEF CallbackReturns, TransfersOK
    <3>2. FramesOK'
      BY <2>3 DEF CallbackReturns, FramesOK
    <3>3. ThreadsOK'
      BY <2>3 DEF CallbackReturns, ThreadsOK
    <3>4. FlagsOK'
      BY <2>3 DEF CallbackReturns, FlagsOK
    <3> QED
      BY <3>1, <3>2, <3>3, <3>4 DEF StreamTypeOK
  <2> QED
    BY <1>7, <2>1, <2>2, <2>3 DEF UserStep
<1>8. CASE UNCHANGED streamVars
  BY <1>8 DEF streamVars, ThreadsOK, TransfersOK, FramesOK, FlagsOK
<1> QED
  BY <1>1, <1>2, <1>3, <1>4, <1>5, <1>6, <1>7, <1>8 DEF StreamNext

\* Every step keeps what is at rest before the start and after the stop.
LEMMA AtRestStep == StreamInv /\ [StreamNext]_streamVars => QuietInv'
<1> SUFFICES ASSUME StreamInv, [StreamNext]_streamVars PROVE QuietInv'
  OBVIOUS
<1> USE StreamAssumption
<1> USE DEF StreamInv, QuietInv, StreamTypeOK, ThreadsOK, TransfersOK, ClosedQuiet, StopComplete,
     DeviceFailed, ctlVars, evVars, userVars, frames, usb
<1>1. CASE OpenStream
  BY <1>1 DEF OpenStream
<1>2. CASE StopStreaming
  BY <1>2 DEF StopStreaming
<1>3. CASE Unplug
  BY <1>3 DEF Unplug, Happens, Attached
<1>4. CASE PacketLost
  BY <1>4 DEF PacketLost, Happens
<1>5. CASE ControlStep
  <2>1. CASE StartStream
    BY <2>1 DEF StartStream
  <2>2. CASE StartRefused
    BY <2>2 DEF StartRefused
  <2>3. ASSUME NEW t \in Transfer, SubmitFirst(t) PROVE QuietInv'
    BY <2>3 DEF SubmitFirst, Attached
  <2>4. CASE SubmitFirstFails
    BY <2>4 DEF SubmitFirstFails, SubmitFails, Happens, Attached
  <2>5. CASE CloseStream
    BY <2>5 DEF CloseStream
  <2>6. CASE CancelTransfers
    BY <2>6 DEF CancelTransfers, Cancelled, AwaitOrKick, AllDeleted, WakeUser, Awake
  <2>7. CASE AwaitTransfers
    BY <2>7 DEF AwaitTransfers, AwaitOrKick, AllDeleted, WakeUser, Awake
  <2>8. CASE JoinUser
    BY <2>8 DEF JoinUser, UserGone
  <2>9. CASE FreeHandle
    BY <2>9 DEF FreeHandle, InUse
  <2> QED
    BY <1>5, <2>1, <2>2, <2>3, <2>4, <2>5, <2>6, <2>7, <2>8, <2>9 DEF ControlStep
<1>6. CASE EventStep
  <2>1. ASSUME NEW t \in Transfer, TransferCompleted(t) PROVE QuietInv'
    BY <2>1 DEF TransferCompleted, Completes
  <2>2. ASSUME NEW t \in Transfer, TransferCancelled(t) PROVE QuietInv'
    BY <2>2 DEF TransferCancelled, Completes
  <2>3. ASSUME NEW t \in Transfer, TransferNoDevice(t) PROVE QuietInv'
    BY <2>3 DEF TransferNoDevice, Completes, Attached
  <2>4. ASSUME NEW t \in Transfer, TransferFails(t) PROVE QuietInv'
    BY <2>4 DEF TransferFails, Completes, Happens
  <2>5. CASE PacketGood
    BY <2>5 DEF PacketGood, NextPacket, SwapThen, KeepBuffers, WakeUser, WakeStop, Awake
  <2>6. CASE PacketBad
    BY <2>6 DEF PacketBad, NextPacket, KeepBuffers, Happens
  <2>7. CASE PacketBogus
    BY <2>7 DEF PacketBogus, NextPacket, SwapThen, KeepBuffers, WakeUser, WakeStop, Awake, Happens
  <2>8. CASE PacketError
    BY <2>8 DEF PacketError, NextPacket, KeepBuffers, Happens
  <2>9. CASE PublishFrame
    BY <2>9 DEF PublishFrame, Swap, SwapThen, WakeUser, WakeStop, Awake
  <2>10. CASE PayloadDone
    BY <2>10 DEF PayloadDone
  <2>11. CASE Decide
    BY <2>11 DEF Decide
  <2>12. CASE Resubmit
    BY <2>12 DEF Resubmit, CallbackEnds
  <2>13. CASE ResubmitFails
    BY <2>13 DEF ResubmitFails, CallbackEnds, SubmitFails, Happens, Attached
  <2>14. CASE DeleteTransfer
    BY <2>14 DEF DeleteTransfer, CallbackEnds, WakeUser, WakeStop, Awake
  <2> QED
    BY <1>6, <2>1, <2>2, <2>3, <2>4, <2>5, <2>6, <2>7, <2>8, <2>9, <2>10, <2>11, <2>12, <2>13,
         <2>14 DEF EventStep
<1>7. CASE UserStep
  <2>1. CASE TakeFrame
    BY <2>1 DEF TakeFrame
  <2>2. CASE TestFrame
    BY <2>2 DEF TestFrame
  <2>3. CASE CallbackReturns
    BY <2>3 DEF CallbackReturns
  <2> QED
    BY <1>7, <2>1, <2>2, <2>3 DEF UserStep
<1>8. CASE UNCHANGED streamVars
  BY <1>8 DEF streamVars
<1> QED
  BY <1>1, <1>2, <1>3, <1>4, <1>5, <1>6, <1>7, <1>8 DEF StreamNext

\* Every step maps to a step of the frame source or to a stutter.
LEMMA SourceStep == StreamInv /\ [StreamNext]_streamVars => [Source!SourceNext]_(Source!sourceVars)
<1> SUFFICES ASSUME StreamInv,
[StreamNext]_streamVars PROVE [Source!SourceNext]_(Source!sourceVars)
  OBVIOUS
<1> USE StreamAssumption
<1> USE DEF StreamInv, QuietInv, StreamTypeOK, ThreadsOK, TransfersOK, ClosedQuiet, StopComplete,
     DeviceFailed, Stopping, Source!SourceNext, Source!SourceStart, Source!SourceStop,
     Source!SourceStopped, Source!CallBegins, Source!CallEnds, Source!DeviceFails,
     Source!SourceTypeOK, Source!SameCall, Source!SamePhase, Source!sourceVars, ctlVars, evVars,
     userVars, frames, usb
<1>1. CASE OpenStream
  BY <1>1 DEF OpenStream
<1>2. CASE StopStreaming
  BY <1>2 DEF StopStreaming
<1>3. CASE Unplug
  BY <1>3 DEF Unplug, Happens, Attached
<1>4. CASE PacketLost
  BY <1>4 DEF PacketLost, Happens
<1>5. CASE ControlStep
  <2>1. CASE StartStream
    BY <2>1 DEF StartStream
  <2>2. CASE StartRefused
    BY <2>2 DEF StartRefused
  <2>3. ASSUME NEW t \in Transfer, SubmitFirst(t) PROVE [Source!SourceNext]_(Source!sourceVars)
    BY <2>3 DEF SubmitFirst, Attached
  <2>4. CASE SubmitFirstFails
    BY <2>4 DEF SubmitFirstFails, SubmitFails, Happens, Attached
  <2>5. CASE CloseStream
    BY <2>5 DEF CloseStream
  <2>6. CASE CancelTransfers
    BY <2>6 DEF CancelTransfers, Cancelled, AwaitOrKick, AllDeleted, WakeUser, Awake
  <2>7. CASE AwaitTransfers
    BY <2>7 DEF AwaitTransfers, AwaitOrKick, AllDeleted, WakeUser, Awake
  <2>8. CASE JoinUser
    BY <2>8 DEF JoinUser, UserGone
  <2>9. CASE FreeHandle
    BY <2>9 DEF FreeHandle, InUse
  <2> QED
    BY <1>5, <2>1, <2>2, <2>3, <2>4, <2>5, <2>6, <2>7, <2>8, <2>9 DEF ControlStep
<1>6. CASE EventStep
  <2>1. ASSUME NEW t \in Transfer,
  TransferCompleted(t) PROVE [Source!SourceNext]_(Source!sourceVars)
    BY <2>1 DEF TransferCompleted, Completes
  <2>2. ASSUME NEW t \in Transfer,
  TransferCancelled(t) PROVE [Source!SourceNext]_(Source!sourceVars)
    BY <2>2 DEF TransferCancelled, Completes
  <2>3. ASSUME NEW t \in Transfer,
  TransferNoDevice(t) PROVE [Source!SourceNext]_(Source!sourceVars)
    BY <2>3 DEF TransferNoDevice, Completes, Attached
  <2>4. ASSUME NEW t \in Transfer, TransferFails(t) PROVE [Source!SourceNext]_(Source!sourceVars)
    BY <2>4 DEF TransferFails, Completes, Happens
  <2>5. CASE PacketGood
    BY <2>5 DEF PacketGood, NextPacket, SwapThen, KeepBuffers, WakeUser, WakeStop, Awake
  <2>6. CASE PacketBad
    BY <2>6 DEF PacketBad, NextPacket, KeepBuffers, Happens
  <2>7. CASE PacketBogus
    BY <2>7 DEF PacketBogus, NextPacket, SwapThen, KeepBuffers, WakeUser, WakeStop, Awake, Happens
  <2>8. CASE PacketError
    BY <2>8 DEF PacketError, NextPacket, KeepBuffers, Happens
  <2>9. CASE PublishFrame
    BY <2>9 DEF PublishFrame, Swap, SwapThen, WakeUser, WakeStop, Awake
  <2>10. CASE PayloadDone
    BY <2>10 DEF PayloadDone
  <2>11. CASE Decide
    BY <2>11 DEF Decide
  <2>12. CASE Resubmit
    BY <2>12 DEF Resubmit, CallbackEnds
  <2>13. CASE ResubmitFails
    BY <2>13 DEF ResubmitFails, CallbackEnds, SubmitFails, Happens, Attached
  <2>14. CASE DeleteTransfer
    BY <2>14 DEF DeleteTransfer, CallbackEnds, WakeUser, WakeStop, Awake
  <2> QED
    BY <1>6, <2>1, <2>2, <2>3, <2>4, <2>5, <2>6, <2>7, <2>8, <2>9, <2>10, <2>11, <2>12, <2>13,
         <2>14 DEF EventStep
<1>7. CASE UserStep
  <2>1. CASE TakeFrame
    BY <2>1 DEF TakeFrame
  <2>2. CASE TestFrame
    BY <2>2 DEF TestFrame
  <2>3. CASE CallbackReturns
    BY <2>3 DEF CallbackReturns
  <2> QED
    BY <1>7, <2>1, <2>2, <2>3 DEF UserStep
<1>8. CASE UNCHANGED streamVars
  BY <1>8 DEF streamVars
<1> QED
  BY <1>1, <1>2, <1>3, <1>4, <1>5, <1>6, <1>7, <1>8 DEF StreamNext

\* While no packet was lost, an unmarked working buffer holds the last packets that were sent, all
\* of one frame, and is published before the next frame begins; what was published unmarked, or
\* taken by the user thread, ends a frame.
WorkingOK ==
  outbuf # << >> /\ ~bfhErr =>
    LET n == Len(outbuf) IN
    /\ n <= sent
    /\ \A i \in 1 .. n : outbuf[i] = sent - n + i
    /\ FrameOf(sent - n + 1) = FrameOf(sent)
    /\ fid = Fid(sent)
    /\ ev = "publish" <=> IsLast(sent)

HeldOK  == holdErr \/ holdbuf = << >> \/ IsFrameEnd(holdbuf)
ShownOK == frame = << >> \/ IsFrameEnd(frame)
EmptyAtStart == ctl = "opened" /\ ~dangling => outbuf = << >>

FrameInv == "lost" \notin faults => WorkingOK /\ HeldOK /\ ShownOK /\ EmptyAtStart

\* All buffers are empty at first.
LEMMA FrameInitInv == StreamInit => FrameInv
  BY DEF StreamInit, FrameInv, WorkingOK, HeldOK, ShownOK, EmptyAtStart

\* A frame goes on until its last packet.
LEMMA SameFrame == ASSUME NEW k \in Nat \ {0}, ~IsLast(k) PROVE FrameOf(k + 1) = FrameOf(k)
  BY StreamAssumption DEF IsLast, FrameOf

\* Packets of one frame are at most FrameSize.
LEMMA FrameLength == ASSUME NEW k \in Nat, NEW n \in Nat \ {0}, n <= k,
                            FrameOf(k - n + 1) = FrameOf(k)
                     PROVE  n <= FrameSize
  BY StreamAssumption DEF FrameOf

\* The packet that follows an unmarked part of a frame belongs to the same frame.
LEMMA NotFlipped == ASSUME StreamTypeOK, WorkingOK, ev = "payload", ~bfhErr
                    PROVE  ~Flipped(sent + 1)
<1> SUFFICES ASSUME outbuf # << >> PROVE fid = Fid(sent + 1)
  BY DEF Flipped
<1>1. Len(outbuf) \in Nat \ {0} /\ sent \in Nat
  BY StreamAssumption DEF StreamTypeOK, FramesOK, ThreadsOK
<1>2. sent # 0 /\ ~IsLast(sent) /\ fid = Fid(sent)
  BY <1>1 DEF WorkingOK
<1> QED
  BY <1>1, <1>2, SameFrame DEF Fid

\* What is published without a mark is the end of one frame.
LEMMA CompleteFrame == ASSUME StreamTypeOK, WorkingOK, ev = "publish", ~bfhErr, outbuf # << >>
                       PROVE  IsFrameEnd(outbuf)
<1> DEFINE n == Len(outbuf)
<1>1. n \in Nat \ {0} /\ sent \in Nat
  BY StreamAssumption DEF StreamTypeOK, FramesOK, ThreadsOK
<1>2. /\ n <= sent /\ FrameOf(sent - n + 1) = FrameOf(sent) /\ IsLast(sent)
      /\ \A i \in 1 .. n : outbuf[i] = sent - n + i
  BY DEF WorkingOK
<1>3. n <= FrameSize
  BY <1>1, <1>2, FrameLength
<1>4. outbuf[n] = sent
  BY <1>1, <1>2
<1> QED
  BY <1>1, <1>2, <1>3, <1>4, StreamAssumption DEF IsFrameEnd

\* Every step keeps what the three buffers hold.
LEMMA FrameStep == StreamInv /\ FrameInv /\ [StreamNext]_streamVars => FrameInv'
<1> SUFFICES ASSUME StreamInv /\ FrameInv, [StreamNext]_streamVars PROVE FrameInv'
  OBVIOUS
<1> USE StreamAssumption
<1> USE DEF StreamInv, StreamTypeOK, FrameInv, ctlVars, evVars, userVars, frames, usb
<1>1. CASE OpenStream
  BY <1>1 DEF OpenStream, WorkingOK, HeldOK, ShownOK, EmptyAtStart
<1>2. CASE StopStreaming
  BY <1>2 DEF StopStreaming, WorkingOK, HeldOK, ShownOK, EmptyAtStart
<1>3. CASE Unplug
  BY <1>3 DEF Unplug, Happens, WorkingOK, HeldOK, ShownOK, EmptyAtStart
<1>4. CASE PacketLost
  BY <1>4 DEF PacketLost, Happens, WorkingOK, HeldOK, ShownOK, EmptyAtStart
<1>5. CASE ControlStep
  <2>1. CASE StartStream
    <3>1. ~dangling
      BY <2>1 DEF StartStream, StreamNext, streamVars
    <3> QED
      BY <2>1, <3>1 DEF StartStream, WorkingOK, HeldOK, ShownOK, EmptyAtStart
  <2>2. CASE StartRefused
    BY <2>2 DEF StartRefused, WorkingOK, HeldOK, ShownOK, EmptyAtStart
  <2>3. ASSUME NEW t \in Transfer, SubmitFirst(t) PROVE FrameInv'
    BY <2>3 DEF SubmitFirst, WorkingOK, HeldOK, ShownOK, EmptyAtStart
  <2>4. CASE SubmitFirstFails
    BY <2>4 DEF SubmitFirstFails, SubmitFails, Happens, WorkingOK, HeldOK, ShownOK, EmptyAtStart
  <2>5. CASE CloseStream
    BY <2>5 DEF CloseStream, WorkingOK, HeldOK, ShownOK, EmptyAtStart
  <2>6. CASE CancelTransfers
    BY <2>6 DEF CancelTransfers, Cancelled, AwaitOrKick, AllDeleted, WakeUser, Awake, WorkingOK,
         HeldOK, ShownOK, EmptyAtStart
  <2>7. CASE AwaitTransfers
    BY <2>7 DEF AwaitTransfers, AwaitOrKick, AllDeleted, WakeUser, Awake, WorkingOK, HeldOK,
         ShownOK, EmptyAtStart
  <2>8. CASE JoinUser
    BY <2>8 DEF JoinUser, UserGone, WorkingOK, HeldOK, ShownOK, EmptyAtStart
  <2>9. CASE FreeHandle
    BY <2>9 DEF FreeHandle, InUse, WorkingOK, HeldOK, ShownOK, EmptyAtStart
  <2> QED
    BY <1>5, <2>1, <2>2, <2>3, <2>4, <2>5, <2>6, <2>7, <2>8, <2>9 DEF ControlStep
<1>6. CASE EventStep
  <2>1. ASSUME NEW t \in Transfer, TransferCompleted(t) PROVE FrameInv'
    BY <2>1 DEF TransferCompleted, Completes, WorkingOK, HeldOK, ShownOK, EmptyAtStart
  <2>2. ASSUME NEW t \in Transfer, TransferCancelled(t) PROVE FrameInv'
    BY <2>2 DEF TransferCancelled, Completes, WorkingOK, HeldOK, ShownOK, EmptyAtStart
  <2>3. ASSUME NEW t \in Transfer, TransferNoDevice(t) PROVE FrameInv'
    BY <2>3 DEF TransferNoDevice, Completes, WorkingOK, HeldOK, ShownOK, EmptyAtStart
  <2>4. ASSUME NEW t \in Transfer, TransferFails(t) PROVE FrameInv'
    BY <2>4 DEF TransferFails, Completes, Happens, WorkingOK, HeldOK, ShownOK, EmptyAtStart
  <2>5. CASE PacketGood
    <3>1. sent \in Nat /\ sent' = sent + 1 /\ Len(outbuf) \in Nat
      BY <2>5 DEF PacketGood, NextPacket, ThreadsOK, FramesOK
    <3>2. "lost" \notin faults /\ ~bfhErr => ~Flipped(sent + 1)
      BY <2>5, NotFlipped DEF PacketGood, NextPacket
    <3>3. "lost" \notin faults => HeldOK' /\ ShownOK' /\ EmptyAtStart'
      <4>1. ctl' # "opened" \/ dangling'
        BY <2>5 DEF PacketGood, NextPacket, SwapThen, KeepBuffers, WakeStop, QuietInv, ClosedQuiet
      <4>2. "lost" \notin faults => ShownOK'
        BY <2>5 DEF PacketGood, NextPacket, ShownOK
      <4>3. "lost" \notin faults => HeldOK'
        BY <2>5, <3>2 DEF PacketGood, SwapThen, KeepBuffers, HeldOK
      <4> QED
        BY <4>1, <4>2, <4>3 DEF EmptyAtStart
    <3>4. CASE Flipped(sent + 1) \/ outbuf = << >>
      <4>1. outbuf' = <<sent + 1>>
        <5>1. Append(<< >>, sent + 1) = <<sent + 1>>
          BY <3>1
        <5> QED
          BY <2>5, <3>4, <5>1 DEF PacketGood, SwapThen, Flipped
      <4>2. Len(outbuf') = 1 /\ outbuf'[1] = sent + 1
        BY <4>1
      <4>3. WorkingOK'
        BY <2>5, <3>1, <4>1, <4>2 DEF PacketGood, WorkingOK
      <4> QED
        BY <2>5, <3>3, <4>3 DEF PacketGood
    <3>5. CASE ~Flipped(sent + 1) /\ outbuf # << >>
      <4>1. /\ outbuf' = Append(outbuf, sent + 1) /\ bfhErr' = bfhErr
          /\ fid = Fid(sent + 1) /\ fid' = fid
        BY <2>5, <3>5 DEF PacketGood, Flipped
      <4>2. Len(outbuf) > 0 /\ Len(outbuf') = Len(outbuf) + 1
        BY <4>1, <3>5 DEF FramesOK
      <4>3. ASSUME "lost" \notin faults, ~bfhErr PROVE WorkingOK'
        <5>1. /\ Len(outbuf) <= sent /\ FrameOf(sent - Len(outbuf) + 1) = FrameOf(sent)
            /\ \A i \in 1 .. Len(outbuf) : outbuf[i] = sent - Len(outbuf) + i
            /\ ~IsLast(sent)
          BY <2>5, <4>3, <3>5 DEF WorkingOK, PacketGood, NextPacket
        <5>2. FrameOf(sent + 1) = FrameOf(sent)
          BY <3>1, <5>1, <4>2, SameFrame
        <5>3. sent' - Len(outbuf') + 1 = sent - Len(outbuf) + 1
          BY <3>1, <4>2
        <5>4. \A i \in 1 .. Len(outbuf') : outbuf'[i] = sent' - Len(outbuf') + i
          <6>1. \A i \in 1 .. Len(outbuf) : outbuf'[i] = outbuf[i]
            BY <4>1 DEF FramesOK
          <6>2. outbuf'[Len(outbuf) + 1] = sent + 1
            BY <4>1 DEF FramesOK
          <6>3. ASSUME NEW i \in 1 .. Len(outbuf') PROVE outbuf'[i] = sent' - Len(outbuf') + i
            <7>1. CASE i = Len(outbuf) + 1
              BY <3>1, <4>2, <6>2, <7>1
            <7>2. CASE i \in 1 .. Len(outbuf)
              BY <3>1, <5>1, <4>2, <6>1, <7>2
            <7> QED
              BY <3>1, <4>2, <7>1, <7>2
          <6> QED
            BY <6>3
        <5>5. ev' = "publish" <=> IsLast(sent')
          BY <2>5, <3>1 DEF PacketGood
        <5> QED
          BY <3>1, <5>1, <5>2, <5>3, <5>4, <5>5, <4>1, <4>2 DEF WorkingOK
      <4>4. bfhErr => WorkingOK'
        BY <4>1 DEF WorkingOK
      <4> QED
        BY <2>5, <3>3, <4>3, <4>4 DEF PacketGood
    <3> QED
      BY <3>4, <3>5
  <2>6. CASE PacketBad
    BY <2>6 DEF PacketBad, NextPacket, KeepBuffers, Happens, WorkingOK, HeldOK, ShownOK,
         EmptyAtStart
  <2>7. CASE PacketBogus
    <3>1. "lost" \notin faults /\ ~bfhErr => ~Flipped(sent + 1)
      BY <2>7, NotFlipped DEF PacketBogus, NextPacket
    <3>2. bfhErr'
      BY <2>7 DEF PacketBogus, SwapThen
    <3>3. CASE Flipped(sent + 1)
      BY <2>7, <3>1, <3>2, <3>3 DEF PacketBogus, NextPacket, SwapThen, KeepBuffers, WakeUser,
           WakeStop, Awake, Happens, WorkingOK, HeldOK, ShownOK, EmptyAtStart
    <3>4. CASE ~Flipped(sent + 1)
      BY <2>7, <3>2, <3>4 DEF PacketBogus, NextPacket, SwapThen, KeepBuffers, WakeUser, WakeStop,
           Awake, Happens, WorkingOK, HeldOK, ShownOK, EmptyAtStart
    <3> QED
      BY <3>3, <3>4
  <2>8. CASE PacketError
    BY <2>8 DEF PacketError, NextPacket, KeepBuffers, Happens, WorkingOK, HeldOK, ShownOK,
         EmptyAtStart
  <2>9. CASE PublishFrame
    <3>1. "lost" \notin faults => bfhErr \/ outbuf = << >> \/ IsFrameEnd(outbuf)
      BY <2>9, CompleteFrame DEF PublishFrame
    <3> QED
      BY <2>9, <3>1 DEF PublishFrame, Swap, SwapThen, WakeUser, WakeStop, Awake, WorkingOK,
           HeldOK, ShownOK, EmptyAtStart
  <2>10. CASE PayloadDone
    BY <2>10 DEF PayloadDone, WorkingOK, HeldOK, ShownOK, EmptyAtStart
  <2>11. CASE Decide
    BY <2>11 DEF Decide, WorkingOK, HeldOK, ShownOK, EmptyAtStart
  <2>12. CASE Resubmit
    BY <2>12 DEF Resubmit, CallbackEnds, WorkingOK, HeldOK, ShownOK, EmptyAtStart
  <2>13. CASE ResubmitFails
    BY <2>13 DEF ResubmitFails, CallbackEnds, SubmitFails, Happens, WorkingOK, HeldOK, ShownOK,
         EmptyAtStart
  <2>14. CASE DeleteTransfer
    BY <2>14 DEF DeleteTransfer, CallbackEnds, WakeUser, WakeStop, Awake, WorkingOK, HeldOK,
         ShownOK, EmptyAtStart
  <2> QED
    BY <1>6, <2>1, <2>2, <2>3, <2>4, <2>5, <2>6, <2>7, <2>8, <2>9, <2>10, <2>11, <2>12, <2>13,
         <2>14 DEF EventStep
<1>7. CASE UserStep
  <2>1. CASE TakeFrame
    BY <2>1 DEF TakeFrame, WorkingOK, HeldOK, ShownOK, EmptyAtStart
  <2>2. CASE TestFrame
    BY <2>2 DEF TestFrame, WorkingOK, HeldOK, ShownOK, EmptyAtStart
  <2>3. CASE CallbackReturns
    BY <2>3 DEF CallbackReturns, WorkingOK, HeldOK, ShownOK, EmptyAtStart
  <2> QED
    BY <1>7, <2>1, <2>2, <2>3 DEF UserStep
<1>8. CASE UNCHANGED streamVars
  BY <1>8 DEF streamVars, WorkingOK, HeldOK, ShownOK, EmptyAtStart
<1> QED
  BY <1>1, <1>2, <1>3, <1>4, <1>5, <1>6, <1>7, <1>8 DEF StreamNext

\* The last packet of b, and 0 if there is none.
Newest(b) == IF b = << >> THEN 0 ELSE b[Len(b)]

\* The packets move from the working buffer to the held one to the shown one, so every buffer is
\* newer than the next, and a frame the user thread takes for new is newer than the shown one.
BuffersInOrder ==
  /\ Newest(outbuf) <= sent /\ Newest(holdbuf) <= sent
  /\ outbuf # << >> => Newest(holdbuf) < Newest(outbuf)
  /\ ev = "publish" => outbuf # << >>
  /\ user # "none" => Newest(frame) <= Newest(holdbuf)
  /\ user # "none" /\ NewFrame => Newest(frame) < Newest(holdbuf)

NothingHeldAtStart ==
  ctl = "opened" /\ ~dangling =>
    outbuf = << >> /\ holdbuf = << >> /\ frame = << >> /\ holdSeq = 0

\* Only a bad packet marks a frame, and only a marked frame makes the user thread repeat one.
MarksOK ==
  "bad" \notin faults =>
    /\ ~bfhErr /\ ~holdErr
    /\ user \in {"test", "calling"} => ~stale

OnceInv == BuffersInOrder /\ NothingHeldAtStart /\ MarksOK

\* All buffers are empty at first, and no packet was bad.
LEMMA OnceInitInv == StreamInit => OnceInv
  BY DEF StreamInit, OnceInv, BuffersInOrder, NothingHeldAtStart, MarksOK, Newest, NewFrame

\* An element of a sequence.
LEMMA SeqElement == ASSUME NEW S, NEW q \in Seq(S), NEW i \in 1 .. Len(q) PROVE q[i] \in S
  OBVIOUS

\* The packets of a buffer are numbered from one.
LEMMA NewestType == ASSUME NEW b \in Seq(1 .. MaxPacket)
                    PROVE  Newest(b) \in Nat /\ (b # << >> => Newest(b) > 0)
<1>1. CASE b = << >>
  BY <1>1 DEF Newest
<1>2. CASE b # << >>
  <2>1. Len(b) \in 1 .. Len(b)
    BY <1>2
  <2>2. b[Len(b)] \in 1 .. MaxPacket
    BY <2>1, SeqElement
  <2> QED
    BY <1>2, <2>1, <2>2, StreamAssumption DEF Newest
<1> QED
  BY <1>1, <1>2

\* The packet that was appended is the newest.
LEMMA NewestOfAppend == ASSUME NEW b \in Seq(1 .. MaxPacket), NEW k \in 1 .. MaxPacket
                        PROVE  Newest(Append(b, k)) = k /\ Append(b, k) # << >>
<1>1. Len(Append(b, k)) = Len(b) + 1 /\ Append(b, k)[Len(b) + 1] = k
  OBVIOUS
<1>2. Append(b, k) # << >>
  BY <1>1
<1> QED
  BY <1>1, <1>2 DEF Newest

\* An empty buffer has no packet.
LEMMA NewestOfNone == Newest(<< >>) = 0
  BY DEF Newest

\* A buffer of one packet has that one.
LEMMA NewestOfOne == ASSUME NEW k PROVE Newest(<<k>>) = k /\ <<k>> # << >>
  BY DEF Newest

\* The newest packets of the three buffers are numbers.
LEMMA NewestTypes == ASSUME StreamTypeOK
                     PROVE  /\ Newest(outbuf) \in Nat /\ Newest(holdbuf) \in Nat
                            /\ Newest(frame) \in Nat /\ sent \in Nat
                            /\ outbuf # << >> => Newest(outbuf) > 0
  BY NewestType DEF StreamTypeOK, FramesOK, ThreadsOK

\* Every step keeps the order of the three buffers.
LEMMA InOrderStep == StreamInv /\ OnceInv /\ [StreamNext]_streamVars => BuffersInOrder'
<1> SUFFICES ASSUME StreamInv /\ OnceInv, [StreamNext]_streamVars PROVE BuffersInOrder'
  OBVIOUS
<1> USE StreamAssumption
<1> USE DEF StreamInv, StreamTypeOK, ctlVars, evVars, userVars, frames, usb, OnceInv
<1>0. /\ Newest(outbuf) \in Nat /\ Newest(holdbuf) \in Nat /\ Newest(frame) \in Nat
      /\ sent \in Nat
  BY NewestTypes
<1>1. CASE OpenStream
  BY <1>1, <1>0, NewestOfNone DEF OpenStream, BuffersInOrder, NewFrame, QuietInv, ClosedQuiet
<1>2. CASE StopStreaming
  BY <1>2, <1>0 DEF StopStreaming, BuffersInOrder, NewFrame
<1>3. CASE Unplug
  BY <1>3, <1>0 DEF Unplug, Happens, BuffersInOrder, NewFrame
<1>4. CASE PacketLost
  BY <1>4, <1>0 DEF PacketLost, Happens, BuffersInOrder, NewFrame
<1>5. CASE ControlStep
  <2>1. CASE StartStream
    <3>1. outbuf = << >> /\ holdbuf = << >> /\ frame = << >> /\ holdSeq = 0
      BY <2>1 DEF StartStream, NothingHeldAtStart, StreamNext, streamVars
    <3>2. sent' \in Nat
      BY <2>1, <1>0, NextFrameIsNat DEF StartStream
    <3>3. ev # "publish"
      BY <2>1 DEF StartStream, StreamNext, streamVars, QuietInv, ClosedQuiet
    <3> QED
      BY <2>1, <3>1, <3>2, <3>3, NewestOfNone DEF StartStream, BuffersInOrder, NewFrame
  <2>2. CASE StartRefused
    BY <2>2, <1>0 DEF StartRefused, BuffersInOrder, NewFrame
  <2>3. ASSUME NEW t \in Transfer, SubmitFirst(t) PROVE BuffersInOrder'
    BY <2>3, <1>0 DEF SubmitFirst, BuffersInOrder, NewFrame
  <2>4. CASE SubmitFirstFails
    BY <2>4, <1>0 DEF SubmitFirstFails, SubmitFails, Happens, BuffersInOrder, NewFrame
  <2>5. CASE CloseStream
    BY <2>5, <1>0 DEF CloseStream, BuffersInOrder, NewFrame
  <2>6. CASE CancelTransfers
    BY <2>6, <1>0 DEF CancelTransfers, AwaitOrKick, AllDeleted, WakeUser, Awake, BuffersInOrder,
         NewFrame
  <2>7. CASE AwaitTransfers
    BY <2>7, <1>0 DEF AwaitTransfers, AwaitOrKick, AllDeleted, WakeUser, Awake, BuffersInOrder,
         NewFrame
  <2>8. CASE JoinUser
    BY <2>8, <1>0 DEF JoinUser, UserGone, BuffersInOrder, NewFrame
  <2>9. CASE FreeHandle
    BY <2>9, <1>0 DEF FreeHandle, InUse, BuffersInOrder, NewFrame
  <2> QED
    BY <1>5, <2>1, <2>2, <2>3, <2>4, <2>5, <2>6, <2>7, <2>8, <2>9 DEF ControlStep
<1>6. CASE EventStep
  <2>1. ASSUME NEW t \in Transfer, TransferCompleted(t) PROVE BuffersInOrder'
    BY <2>1, <1>0 DEF TransferCompleted, Completes, BuffersInOrder, NewFrame
  <2>2. ASSUME NEW t \in Transfer, TransferCancelled(t) PROVE BuffersInOrder'
    BY <2>2, <1>0 DEF TransferCancelled, Completes, BuffersInOrder, NewFrame
  <2>3. ASSUME NEW t \in Transfer, TransferNoDevice(t) PROVE BuffersInOrder'
    BY <2>3, <1>0 DEF TransferNoDevice, Completes, BuffersInOrder, NewFrame
  <2>4. ASSUME NEW t \in Transfer, TransferFails(t) PROVE BuffersInOrder'
    BY <2>4, <1>0 DEF TransferFails, Completes, Happens, BuffersInOrder, NewFrame
  <2>5. CASE PacketGood
    <3>1. sent' = sent + 1 /\ sent + 1 \in 1 .. MaxPacket /\ ~(ev = "publish")
      BY <2>5 DEF PacketGood, NextPacket, ThreadsOK
    <3>2. Newest(outbuf) <= sent
      BY DEF BuffersInOrder
    <3>3. UNCHANGED <<frame, lastSeq>> /\ (user' = "none" <=> user = "none")
      BY <2>5 DEF PacketGood, NextPacket, SwapThen, KeepBuffers, WakeUser, Awake
    <3>4. CASE Flipped(sent + 1)
      <4>1. outbuf # << >> /\ holdbuf' = outbuf /\ outbuf' = <<sent + 1>>
        BY <2>5, <3>4 DEF PacketGood, SwapThen, Flipped
      <4>2. Newest(outbuf') = sent + 1 /\ outbuf' # << >>
        BY <4>1, NewestOfOne
      <4>3. Newest(holdbuf') = Newest(outbuf) /\ Newest(holdbuf) < Newest(outbuf)
        BY <4>1 DEF BuffersInOrder
      <4> QED
        BY <1>0, <3>1, <3>2, <3>3, <4>2, <4>3 DEF BuffersInOrder, NewFrame
    <3>5. CASE ~Flipped(sent + 1)
      <4>1. outbuf' = Append(outbuf, sent + 1) /\ UNCHANGED <<holdbuf, holdSeq>>
        BY <2>5, <3>5 DEF PacketGood, KeepBuffers
      <4>2. Newest(outbuf') = sent + 1 /\ outbuf' # << >>
        BY <3>1, <4>1, NewestOfAppend DEF FramesOK
      <4> QED
        BY <1>0, <3>1, <3>3, <4>1, <4>2 DEF BuffersInOrder, NewFrame
    <3> QED
      BY <3>4, <3>5
  <2>6. CASE PacketBad
    BY <2>6, <1>0 DEF PacketBad, NextPacket, KeepBuffers, Happens, BuffersInOrder, NewFrame
  <2>7. CASE PacketBogus
    <3>1. sent' = sent + 1 /\ ev' # "publish"
      BY <2>7 DEF PacketBogus, NextPacket
    <3>2. UNCHANGED <<frame, lastSeq>> /\ (user' = "none" <=> user = "none")
      BY <2>7 DEF PacketBogus, NextPacket, SwapThen, KeepBuffers, WakeUser, Awake
    <3>3. CASE Flipped(sent + 1)
      <4>1. outbuf # << >> /\ holdbuf' = outbuf /\ outbuf' = << >>
        BY <2>7, <3>3 DEF PacketBogus, SwapThen, Flipped
      <4>2. Newest(outbuf') = 0 /\ Newest(holdbuf') = Newest(outbuf)
        BY <4>1, NewestOfNone
      <4>3. Newest(holdbuf) < Newest(outbuf) /\ Newest(outbuf) <= sent
        BY <4>1 DEF BuffersInOrder
      <4> QED
        BY <1>0, <3>1, <3>2, <4>1, <4>2, <4>3 DEF BuffersInOrder, NewFrame
    <3>4. CASE ~Flipped(sent + 1)
      <4>1. UNCHANGED <<outbuf, holdbuf, holdSeq>>
        BY <2>7, <3>4 DEF PacketBogus, KeepBuffers
      <4> QED
        BY <1>0, <3>1, <3>2, <4>1 DEF BuffersInOrder, NewFrame
    <3> QED
      BY <3>3, <3>4
  <2>8. CASE PacketError
    BY <2>8, <1>0 DEF PacketError, NextPacket, KeepBuffers, Happens, BuffersInOrder, NewFrame
  <2>9. CASE PublishFrame
    <3>1. outbuf # << >> /\ holdbuf' = outbuf /\ outbuf' = << >>
      BY <2>9 DEF PublishFrame, Swap, SwapThen, BuffersInOrder
    <3>2. Newest(outbuf') = 0 /\ Newest(holdbuf') = Newest(outbuf)
      BY <3>1, NewestOfNone
    <3>3. Newest(holdbuf) < Newest(outbuf) /\ Newest(outbuf) <= sent
      BY <3>1 DEF BuffersInOrder
    <3>4. UNCHANGED <<frame, lastSeq, sent>> /\ (user' = "none" <=> user = "none") /\ ev' # "publish"
      BY <2>9 DEF PublishFrame, Swap, SwapThen, WakeUser, Awake
    <3> QED
      BY <1>0, <3>1, <3>2, <3>3, <3>4 DEF BuffersInOrder, NewFrame
  <2>10. CASE PayloadDone
    BY <2>10, <1>0 DEF PayloadDone, BuffersInOrder, NewFrame
  <2>11. CASE Decide
    BY <2>11, <1>0 DEF Decide, BuffersInOrder, NewFrame
  <2>12. CASE Resubmit
    BY <2>12, <1>0 DEF Resubmit, CallbackEnds, BuffersInOrder, NewFrame
  <2>13. CASE ResubmitFails
    BY <2>13, <1>0 DEF ResubmitFails, CallbackEnds, SubmitFails, Happens, BuffersInOrder, NewFrame
  <2>14. CASE DeleteTransfer
    BY <2>14, <1>0 DEF DeleteTransfer, CallbackEnds, WakeUser, WakeStop, Awake, BuffersInOrder,
         NewFrame
  <2> QED
    BY <1>6, <2>1, <2>2, <2>3, <2>4, <2>5, <2>6, <2>7, <2>8, <2>9, <2>10, <2>11, <2>12, <2>13,
         <2>14 DEF EventStep
<1>7. CASE UserStep
  <2>1. CASE TakeFrame
    BY <2>1, <1>0 DEF TakeFrame, BuffersInOrder, NewFrame
  <2>2. CASE TestFrame
    BY <2>2, <1>0 DEF TestFrame, BuffersInOrder, NewFrame
  <2>3. CASE CallbackReturns
    BY <2>3, <1>0 DEF CallbackReturns, BuffersInOrder, NewFrame
  <2> QED
    BY <1>7, <2>1, <2>2, <2>3 DEF UserStep
<1>8. CASE UNCHANGED streamVars
  BY <1>8 DEF streamVars, BuffersInOrder, NewFrame
<1> QED
  BY <1>1, <1>2, <1>3, <1>4, <1>5, <1>6, <1>7, <1>8 DEF StreamNext

\* Nothing reaches the buffers of a stream that was not started.
LEMMA AtStartStep == StreamInv /\ OnceInv /\ [StreamNext]_streamVars => NothingHeldAtStart'
<1> SUFFICES ASSUME StreamInv /\ OnceInv, [StreamNext]_streamVars PROVE NothingHeldAtStart'
  OBVIOUS
<1> USE StreamAssumption
<1> USE DEF StreamInv, StreamTypeOK, ctlVars, evVars, userVars, frames, usb, OnceInv
<1>1. CASE OpenStream
  BY <1>1 DEF OpenStream, NothingHeldAtStart, QuietInv, ClosedQuiet
<1>2. CASE StopStreaming
  BY <1>2 DEF StopStreaming, NothingHeldAtStart, QuietInv, ClosedQuiet
<1>3. CASE Unplug
  BY <1>3 DEF Unplug, Happens, NothingHeldAtStart, QuietInv, ClosedQuiet
<1>4. CASE PacketLost
  BY <1>4 DEF PacketLost, Happens, NothingHeldAtStart, QuietInv, ClosedQuiet
<1>5. CASE ControlStep
  <2>1. CASE StartStream
    BY <2>1 DEF StartStream, NothingHeldAtStart, QuietInv, ClosedQuiet
  <2>2. CASE StartRefused
    BY <2>2 DEF StartRefused, NothingHeldAtStart, QuietInv, ClosedQuiet
  <2>3. ASSUME NEW t \in Transfer, SubmitFirst(t) PROVE NothingHeldAtStart'
    BY <2>3 DEF SubmitFirst, NothingHeldAtStart, QuietInv, ClosedQuiet
  <2>4. CASE SubmitFirstFails
    BY <2>4 DEF SubmitFirstFails, SubmitFails, Happens, NothingHeldAtStart, QuietInv, ClosedQuiet
  <2>5. CASE CloseStream
    BY <2>5 DEF CloseStream, NothingHeldAtStart, QuietInv, ClosedQuiet
  <2>6. CASE CancelTransfers
    BY <2>6 DEF CancelTransfers, AwaitOrKick, AllDeleted, WakeUser, Awake, NothingHeldAtStart,
         QuietInv, ClosedQuiet
  <2>7. CASE AwaitTransfers
    BY <2>7 DEF AwaitTransfers, AwaitOrKick, AllDeleted, WakeUser, Awake, NothingHeldAtStart,
         QuietInv, ClosedQuiet
  <2>8. CASE JoinUser
    BY <2>8 DEF JoinUser, UserGone, NothingHeldAtStart, QuietInv, ClosedQuiet
  <2>9. CASE FreeHandle
    BY <2>9 DEF FreeHandle, InUse, NothingHeldAtStart, QuietInv, ClosedQuiet
  <2> QED
    BY <1>5, <2>1, <2>2, <2>3, <2>4, <2>5, <2>6, <2>7, <2>8, <2>9 DEF ControlStep
<1>6. CASE EventStep
  <2>1. ASSUME NEW t \in Transfer, TransferCompleted(t) PROVE NothingHeldAtStart'
    BY <2>1 DEF TransferCompleted, Completes, NothingHeldAtStart, QuietInv, ClosedQuiet
  <2>2. ASSUME NEW t \in Transfer, TransferCancelled(t) PROVE NothingHeldAtStart'
    BY <2>2 DEF TransferCancelled, Completes, NothingHeldAtStart, QuietInv, ClosedQuiet
  <2>3. ASSUME NEW t \in Transfer, TransferNoDevice(t) PROVE NothingHeldAtStart'
    BY <2>3 DEF TransferNoDevice, Completes, NothingHeldAtStart, QuietInv, ClosedQuiet
  <2>4. ASSUME NEW t \in Transfer, TransferFails(t) PROVE NothingHeldAtStart'
    BY <2>4 DEF TransferFails, Completes, Happens, NothingHeldAtStart, QuietInv, ClosedQuiet
  <2>5. CASE PacketGood
    BY <2>5 DEF PacketGood, NextPacket, SwapThen, KeepBuffers, WakeUser, WakeStop, Awake,
         NothingHeldAtStart, QuietInv, ClosedQuiet
  <2>6. CASE PacketBad
    BY <2>6 DEF PacketBad, NextPacket, KeepBuffers, Happens, NothingHeldAtStart, QuietInv,
         ClosedQuiet
  <2>7. CASE PacketBogus
    BY <2>7 DEF PacketBogus, NextPacket, SwapThen, KeepBuffers, WakeUser, WakeStop, Awake,
         Happens, NothingHeldAtStart, QuietInv, ClosedQuiet
  <2>8. CASE PacketError
    BY <2>8 DEF PacketError, NextPacket, KeepBuffers, Happens, NothingHeldAtStart, QuietInv,
         ClosedQuiet
  <2>9. CASE PublishFrame
    BY <2>9 DEF PublishFrame, Swap, SwapThen, WakeUser, WakeStop, Awake, NothingHeldAtStart,
         QuietInv, ClosedQuiet
  <2>10. CASE PayloadDone
    BY <2>10 DEF PayloadDone, NothingHeldAtStart, QuietInv, ClosedQuiet
  <2>11. CASE Decide
    BY <2>11 DEF Decide, NothingHeldAtStart, QuietInv, ClosedQuiet
  <2>12. CASE Resubmit
    BY <2>12 DEF Resubmit, CallbackEnds, NothingHeldAtStart, QuietInv, ClosedQuiet
  <2>13. CASE ResubmitFails
    BY <2>13 DEF ResubmitFails, CallbackEnds, SubmitFails, Happens, NothingHeldAtStart, QuietInv,
         ClosedQuiet
  <2>14. CASE DeleteTransfer
    BY <2>14 DEF DeleteTransfer, CallbackEnds, WakeUser, WakeStop, Awake, NothingHeldAtStart,
         QuietInv, ClosedQuiet
  <2> QED
    BY <1>6, <2>1, <2>2, <2>3, <2>4, <2>5, <2>6, <2>7, <2>8, <2>9, <2>10, <2>11, <2>12, <2>13,
         <2>14 DEF EventStep
<1>7. CASE UserStep
  <2>1. CASE TakeFrame
    BY <2>1 DEF TakeFrame, NothingHeldAtStart, QuietInv, ClosedQuiet
  <2>2. CASE TestFrame
    BY <2>2 DEF TestFrame, NothingHeldAtStart, QuietInv, ClosedQuiet
  <2>3. CASE CallbackReturns
    BY <2>3 DEF CallbackReturns, NothingHeldAtStart, QuietInv, ClosedQuiet
  <2> QED
    BY <1>7, <2>1, <2>2, <2>3 DEF UserStep
<1>8. CASE UNCHANGED streamVars
  BY <1>8 DEF streamVars, NothingHeldAtStart, QuietInv, ClosedQuiet
<1> QED
  BY <1>1, <1>2, <1>3, <1>4, <1>5, <1>6, <1>7, <1>8 DEF StreamNext

\* Without a bad packet no buffer is marked, and every frame that is taken is another one.
LEMMA MarksStep == StreamInv /\ OnceInv /\ [StreamNext]_streamVars => MarksOK'
<1> SUFFICES ASSUME StreamInv /\ OnceInv, [StreamNext]_streamVars PROVE MarksOK'
  OBVIOUS
<1> USE StreamAssumption
<1> USE DEF StreamInv, StreamTypeOK, ctlVars, evVars, userVars, frames, usb, OnceInv
<1>1. CASE OpenStream
  BY <1>1 DEF OpenStream, MarksOK
<1>2. CASE StopStreaming
  BY <1>2 DEF StopStreaming, MarksOK
<1>3. CASE Unplug
  BY <1>3 DEF Unplug, Happens, MarksOK
<1>4. CASE PacketLost
  BY <1>4 DEF PacketLost, Happens, MarksOK
<1>5. CASE ControlStep
  <2>1. CASE StartStream
    BY <2>1 DEF StartStream, MarksOK
  <2>2. CASE StartRefused
    BY <2>2 DEF StartRefused, MarksOK
  <2>3. ASSUME NEW t \in Transfer, SubmitFirst(t) PROVE MarksOK'
    BY <2>3 DEF SubmitFirst, MarksOK
  <2>4. CASE SubmitFirstFails
    BY <2>4 DEF SubmitFirstFails, SubmitFails, Happens, MarksOK
  <2>5. CASE CloseStream
    BY <2>5 DEF CloseStream, MarksOK
  <2>6. CASE CancelTransfers
    BY <2>6 DEF CancelTransfers, AwaitOrKick, AllDeleted, WakeUser, Awake, MarksOK
  <2>7. CASE AwaitTransfers
    BY <2>7 DEF AwaitTransfers, AwaitOrKick, AllDeleted, WakeUser, Awake, MarksOK
  <2>8. CASE JoinUser
    BY <2>8 DEF JoinUser, UserGone, MarksOK
  <2>9. CASE FreeHandle
    BY <2>9 DEF FreeHandle, InUse, MarksOK
  <2> QED
    BY <1>5, <2>1, <2>2, <2>3, <2>4, <2>5, <2>6, <2>7, <2>8, <2>9 DEF ControlStep
<1>6. CASE EventStep
  <2>1. ASSUME NEW t \in Transfer, TransferCompleted(t) PROVE MarksOK'
    BY <2>1 DEF TransferCompleted, Completes, MarksOK
  <2>2. ASSUME NEW t \in Transfer, TransferCancelled(t) PROVE MarksOK'
    BY <2>2 DEF TransferCancelled, Completes, MarksOK
  <2>3. ASSUME NEW t \in Transfer, TransferNoDevice(t) PROVE MarksOK'
    BY <2>3 DEF TransferNoDevice, Completes, MarksOK
  <2>4. ASSUME NEW t \in Transfer, TransferFails(t) PROVE MarksOK'
    BY <2>4 DEF TransferFails, Completes, Happens, MarksOK
  <2>5. CASE PacketGood
    BY <2>5 DEF PacketGood, NextPacket, SwapThen, KeepBuffers, WakeUser, WakeStop, Awake, MarksOK
  <2>6. CASE PacketBad
    BY <2>6 DEF PacketBad, NextPacket, KeepBuffers, Happens, MarksOK
  <2>7. CASE PacketBogus
    BY <2>7 DEF PacketBogus, NextPacket, SwapThen, KeepBuffers, WakeUser, WakeStop, Awake,
         Happens, MarksOK
  <2>8. CASE PacketError
    BY <2>8 DEF PacketError, NextPacket, KeepBuffers, Happens, MarksOK
  <2>9. CASE PublishFrame
    BY <2>9 DEF PublishFrame, Swap, SwapThen, WakeUser, WakeStop, Awake, MarksOK
  <2>10. CASE PayloadDone
    BY <2>10 DEF PayloadDone, MarksOK
  <2>11. CASE Decide
    BY <2>11 DEF Decide, MarksOK
  <2>12. CASE Resubmit
    BY <2>12 DEF Resubmit, CallbackEnds, MarksOK
  <2>13. CASE ResubmitFails
    BY <2>13 DEF ResubmitFails, CallbackEnds, SubmitFails, Happens, MarksOK
  <2>14. CASE DeleteTransfer
    BY <2>14 DEF DeleteTransfer, CallbackEnds, WakeUser, WakeStop, Awake, MarksOK
  <2> QED
    BY <1>6, <2>1, <2>2, <2>3, <2>4, <2>5, <2>6, <2>7, <2>8, <2>9, <2>10, <2>11, <2>12, <2>13,
         <2>14 DEF EventStep
<1>7. CASE UserStep
  <2>1. CASE TakeFrame
    <3>1. /\ Newest(outbuf) \in Nat /\ Newest(holdbuf) \in Nat /\ Newest(frame) \in Nat
      BY NewestTypes
    <3>2. user # "none" /\ NewFrame => frame # holdbuf
      BY <3>1 DEF BuffersInOrder
    <3> QED
      BY <2>1, <3>2 DEF TakeFrame, MarksOK
  <2>2. CASE TestFrame
    BY <2>2 DEF TestFrame, MarksOK
  <2>3. CASE CallbackReturns
    BY <2>3 DEF CallbackReturns, MarksOK
  <2> QED
    BY <1>7, <2>1, <2>2, <2>3 DEF UserStep
<1>8. CASE UNCHANGED streamVars
  BY <1>8 DEF streamVars, MarksOK
<1> QED
  BY <1>1, <1>2, <1>3, <1>4, <1>5, <1>6, <1>7, <1>8 DEF StreamNext

\* The invariant holds of every reachable state.
LEMMA StreamInductive == StreamSpec => []StreamInv
<1>1. StreamInv /\ [StreamNext]_streamVars => StreamInv'
  BY StreamTypeStep, AtRestStep DEF StreamInv
<1> QED
  BY <1>1, StreamInitInv, PTL DEF StreamSpec

\* The slots of transfers[], the transfers on their way and the one whose callback runs agree at
\* every step of the three threads (stream.c:961-1009, 1380-1609, 1780-1893).
THEOREM StreamTypes == StreamSpec => []StreamTypeOK
<1>1. StreamInv => StreamTypeOK
  BY DEF StreamInv
<1> QED
  BY <1>1, StreamInductive, PTL

\* uvc_stream_close() frees a handle that no transfer, callback or user thread touches any more,
\* unless the device failed (stream.c:1862-1893).
THEOREM HandleFreedWhenQuiet == StreamSpec => []FreedWhenQuiet
<1>1. StreamInv => FreedWhenQuiet
  BY DEF StreamInv, QuietInv, FreedWhenQuiet
<1> QED
  BY <1>1, StreamInductive, PTL

\* The stream implements UvcFrameSource: the preview's callback is called between the start and
\* the end of the stop, one call at a time (stream.c:1226-1244, 1632-1660, 1780-1893).
THEOREM StreamImplementsSource == StreamSpec => KeepsPromise
<1>1. StreamInit => Source!SourceInit
  BY DEF StreamInit, Source!SourceInit, DeviceFailed
<1>2. StreamInv /\ [StreamNext]_streamVars => [Source!SourceNext]_(Source!sourceVars)
  BY SourceStep
<1> QED
  BY <1>1, <1>2, StreamInductive, PTL DEF StreamSpec, KeepsPromise, Source!SourceSpec

\* A frame that is not marked as broken is never a mixture of two camera frames, for every size of
\* the frames and every pattern of bad packets (stream.c:602-626, 852-948, 1666-1706).
THEOREM FramesNotMixed == StreamSpec => []NoMixedFrame
<1>1. FrameInv => NoMixedFrame
  BY DEF FrameInv, ShownOK, NoMixedFrame
<1>2. StreamInv /\ FrameInv /\ [StreamNext]_streamVars => FrameInv'
  BY FrameStep
<1>3. StreamSpec => []FrameInv
  BY <1>2, FrameInitInv, StreamInductive, PTL DEF StreamSpec
<1> QED
  BY <1>1, <1>3, PTL

\* The user's callback gets every frame once: hold_bfh_err, which is read again without cb_mutex
\* (stream.c:1655), can make a call repeat a frame only after a bad packet.  For every number of
\* packets, whichever are lost and whenever the two buffers change places (602-626, 1632-1660).
THEOREM CalledOnce == StreamSpec => []CalledOncePerFrame
<1>1. OnceInv => CalledOncePerFrame
  BY DEF OnceInv, MarksOK, CalledOncePerFrame
<1>2. StreamInv /\ OnceInv /\ [StreamNext]_streamVars => OnceInv'
  BY InOrderStep, AtStartStep, MarksStep DEF OnceInv
<1>3. StreamSpec => []OnceInv
  BY <1>2, OnceInitInv, StreamInductive, PTL DEF StreamSpec
<1> QED
  BY <1>1, <1>3, PTL
=============================================================================
