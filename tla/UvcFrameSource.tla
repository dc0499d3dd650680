-------------------------- MODULE UvcFrameSource ---------------------------
(***************************************************************************)
(* What libuvc promises the preview about the frame callback it is given   *)
(* by uvc_start_streaming_bandwidth(): the calls are serial, the first one *)
(* comes after the start, and none is running or begins any more once      *)
(* uvc_stop_streaming() has returned.  The promise ends when the device    *)
(* fails underneath the stream.  UvcStream is shown to keep it, and        *)
(* UvcPreview relies on it.                                                *)
(***************************************************************************)

VARIABLES
  phase,   \* "off", "on", or "stopping" while uvc_stop_streaming() is running
  inCall,  \* the frame callback is running
  failed   \* the device was unplugged or refused a transfer

sourceVars == <<phase, inCall, failed>>

SourceTypeOK ==
  /\ phase \in {"off", "on", "stopping"}
  /\ inCall \in BOOLEAN
  /\ failed \in BOOLEAN

SourceInit == phase = "off" /\ inCall = FALSE /\ failed = FALSE

SameCall  == inCall' = inCall /\ failed' = failed
SamePhase == phase' = phase /\ failed' = failed

SourceStart    == phase = "off" /\ phase' = "on" /\ SameCall
SourceStop     == phase = "on" /\ phase' = "stopping" /\ SameCall
SourceStopped  == phase # "off" /\ ~inCall /\ phase' = "off" /\ SameCall
CallBegins     == phase # "off" /\ ~inCall /\ inCall' = TRUE /\ SamePhase
CallEnds       == inCall /\ inCall' = FALSE /\ SamePhase
DeviceFails    == failed' = TRUE /\ SourceTypeOK'

SourceNext ==
  \/ SourceStart \/ SourceStop \/ SourceStopped \/ CallBegins \/ CallEnds
  \/ DeviceFails

SourceSpec == SourceInit /\ [][SourceNext]_sourceVars
=============================================================================
