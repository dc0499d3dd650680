# BajieRTMPLive: TLA+ models, checks and proofs

BajieRTMPLive is an Android application that streams the phone's camera, or a USB (UVC) camera, to
an RTMP server, and can record what it sees. This directory models the parts of it in which
threads, timeouts and the network meet, model-checks them with TLC on small instances, and proves
properties of them for every instance with TLAPS.

## The system

Paths are relative to `src/`; `rtmp/` stands for
`rtmppusher/src/main/java/com/github/faucamp/simplertmp/`, `yasea/` for
`yasea/src/main/java/net/ossrs/yasea/`, `uvc/` for
`uvccamera/src/main/java/com/serenegiant/`, and `cpp/` for `uvccamera/src/main/cpp/`.

| component | state it keeps | operations | interacts with |
|---|---|---|---|
| `rtmp/io/RtmpConnection.java`, `RtmpSessionInfo.java` | socket and streams, `connected`, `publishPermitted`, `currentStreamId`, `videoFrameCacheNumber`, the commands that wait for a result, the receive thread | `connect`, `publish`, `publishAudioData`, `publishVideoData`, `close`; the receive thread's `handleRxPacketLoop` | called by the muxer's worker and disconnect threads; talks to the server |
| `yasea/SrsFlvMuxer.java` | frame cache, sequence headers, `started`, worker thread, the SPS/PPS state of `SrsFlv` | `start`, `stop`, `writeSampleData` | called by the UI thread and by the encoder threads; calls the connection |
| `yasea/SrsEncoder.java`, `SrsPublisher.java` | codecs, capture threads | `startPublish`, `stopPublish`, `onGetRgbaFrame`, `onGetPcmFrame` | feed the muxers; read the counter of the cache |
| `yasea/.../live/UVCPublisher.java` | as `SrsPublisher`, for a UVC camera | same | same |
| `yasea/SrsMp4Muxer.java` | frame queue, recording flags, writer thread, the file and its tracks | `record`, `stop`, `pause`, `resume` | fed by the encoders |
| `yasea/SrsAllocator.java` | pool of buffers | `allocate`, `release` | used by `SrsFlv` |
| `yasea/SrsCameraGLSurfaceView.java` | camera, GL buffer queue, worker thread | `enableEncoding`, `disableEncoding`, `startCamera`, ... | produces pictures |
| `rtmp/packets/*`, `rtmp/io/RtmpDecoder.java`, `ChunkStreamInfo.java` | previous headers of the chunk streams, reassembly buffers | `writeTo`, `readPacket` | used by both sides of the connection |
| `uvc/encoder/*` | codec, `mRequestDrain`, `mRequestStop`; the muxer's start count | `startRecording`, `stopRecording`, `drain` | one thread per encoder, one shared muxer |
| `uvc/usbcameracommon/AbstractUVCCameraHandler.java` | message queue of the camera thread, preview and recording flags | `open`, `close`, `startPreview`, `stopPreview`, ... | UI thread, camera thread, encoders |
| `uvc/usb/USBMonitor.java`, `UVCCamera.java` | control blocks, permission state | `register`, `requestPermission`, `openDevice`, `startPreview`, ... | USB host, the native camera |
| `cpp/UVCCamera/UVCCamera.cpp` | the libuvc context, the device handle, the preview | `connect`, `release`, the controls | libuvc; one method of `UVCPreview` per call |
| `cpp/UVCCamera/UVCPreview.cpp` | frame pool, `previewFrames`, `captureQueu`, `mIsRunning`, `mIsCapturing`, the surfaces and the callback; preview and capture thread | `startPreview`, `stopPreview`, `setFrameCallback`, `setCaptureDisplay`, `uvc_preview_frame_callback` | called from Java; opens and closes the stream; calls Java back |
| `cpp/libuvc/src/stream.c` | `running`, `transfers[]`, two frame buffers with their flags and numbers, the user thread | `uvc_start_streaming_bandwidth`, `uvc_stop_streaming`, `_uvc_stream_callback` | transfers of libusb; calls the preview's frame callback |
| `cpp/libusb/libusb/io.c`, `sync.c`, `core.c`, `os/android_usbfs.c`, with `cpp/libuvc/src/init.c` and `device.c` | the flying transfers, `events_lock`, `event_handler_active`, `pollfd_modify`, the control pipe; the handler thread and `kill_handler_thread` | `libusb_control_transfer`, `libusb_handle_events`, `libusb_close`, `uvc_open`, `uvc_close` | the kernel; every thread that talks to the camera |
| `app/` activities | UI state | buttons and handler callbacks | start and stop the publishers |

What makes these parts hard, and what makes them correct:

* **RtmpConnection** has no lock around its fields. The caller waits up to five seconds for an
  answer which the receive thread turns into a flag; the answer may come late, never, or while
  the caller is already shutting down; a stop may interrupt the caller anywhere. Correct means:
  messages reach the server in the order of the protocol; the flags never tell what an earlier
  session's server said; a closed connection has no receive thread and no socket left; every call
  returns; no thread meets a field that another one has reset.
* **SrsFlvMuxer** has up to six threads: UI, two encoders, worker, receive thread, and any number
  of disconnect threads. Correct means: `stop()` returns and leaves nothing behind; frames of
  two runs never mix; a picture follows its sequence header; the counter by which the encoders
  throttle themselves is the number of frames in the cache.
* **SrsMp4Muxer** has four threads on one queue and four volatile flags: UI, two encoders, and a
  writer per recording. The file it fills may fail at any write. Correct means: `stop()` returns and
  no writer outlives it; a file holds the frames of its recording, in order, and starts with a key
  frame; its tables lead a player to the bytes, times and key frames that were recorded.
* **UVCPreview** has four threads: the caller of its methods, libuvc's user thread, the preview
  and the capture thread. Two condition variables, three mutexes and two flags that are read
  without any of them tie them together. Correct means: a stop leaves no thread, frame, stream or
  window behind; no frame is lost or recycled twice; the callback and the surface the capture
  thread uses are alive; `stopPreview()` returns.
* **stream.c** hands frames from the event thread to the user thread through two buffers that
  change places, while a third thread stops the stream. Correct means: no frame mixes the bytes
  of two; a frame is delivered once; the handle is freed when nobody uses it any more; stopping
  ends, also when the camera is pulled out.
* **libusb's events** are handled by whichever thread gets `events_lock`; the others wait to be told.
  Correct means: nobody waits for a broadcast that does not come, a completed call returns, and
  closing ends although the lock is taken again and again.
* The other parts are described with the plan below.

## Modules

### RtmpConnection.tla

One `RtmpConnection` object. A session is one `Socket`; sessions are numbered and `None` is the
null reference, so a stale reference to an old session can be told from the current one. Every
method is split where another thread can see or change a field: `call[t]` is the next step of the
calling thread `t`, `rx[s]` that of the receive thread of session `s`.

| code | definitions |
|---|---|
| fields (lines 47-69) | the first group of variables; `ConnInit` |
| `connect`, `rtmpConnect` (99-198) | `BeginConnect`, `ConnectBadUrl`, `OpenSocket`, `OpenFails`, `StartRx`, `RtmpConnect`, `FlushConnect`, `Wait`, `Timeout`, `WaitInterrupted`, `CheckConnected`, `ReturnFlag` |
| `publish`, `createStream` (200-256) | `BeginPublish`, `SendCreateStream`, `FlushCreateStream`, the same waits, `CheckPermitted` |
| `publishAudioData`, `publishVideoData` (401-455) | `MayPublish`, `BeginMedia`, `SendAudio`, `SendVideo` |
| `close`, `closeStream`, `shutdown`, `reset` (308-398) | `BeginClose`, `CloseStream`, `ShutdownSocket`, `InterruptRx`, `JoinRx`, `CloseSocket`, `Reset`, `ResetSocket` |
| `sendRtmpPacket` (486-516) | `Write`, `Flush`, `Send` |
| `handleRxPacketLoop`, `handleRxInvoke`, `fmlePublish`, `onMetaData` | the `Rx...` actions |
| uncaught `NullPointerException` | `NullPointer`, `RxNullPointer`: Android ends the process |

The server and the network are the environment: it answers a command at most once and only
after it got it, possibly never; it may send pings and bandwidth messages once it got `connect`;
the connection may be refused, and an established one may end or break at any time when `Lossy`.
`buffer` is the `BufferedOutputStream`, `wire` what the server got, `inbox` what it sent.

Abstractions: a message is its name. `socket`, `rtmpSessionInfo`, `rtmpDecoder` and `streamName`
are assigned in one place and cleared in one place, so one variable stands for them; `reset()` clears
the flags before them, and another thread may look in between (`Reset`, `ResetSocket`). A session's
data is forgotten by `Reset`, which keeps the state small: nothing refers to it afterwards except
a stale receive thread, which then reads what the fields of the object say, as in the code.

### RtmpPublisher.tla

The abstract specification of a publishing session, as the interface `RtmpPublisher` and its callers
see it: a session is open or not, messages are `sent`, commands are answered (`told`), answers reach the
publisher (`heard`) while it is `listening`. `SendMessage` says which answers must have been heard
before a message is sent; `ForgetSession` is possible when the receive thread has ended, and `CloseSession`
after it, so nothing is left to the next session. `RtmpConnection` implements it (`Publisher`, `KeepsProtocol`): what was heard is what
the flags `connected`, `currentStreamId` and `publishPermitted` say (`Heard`), the rest is the session of the
field `socket`.

### SrsFlvMuxer.tla

Extends `RtmpConnection`: the worker and the disconnect threads are its `Caller` threads, and a
step of the muxer that calls the connection conjoins the connection's `Begin...` action. The other
threads have program counters of their own.

| code | definitions |
|---|---|
| `SrsPublisher.startPublish`, `stopPublish` and the encoder joins they make | `Start`, `StartEncode`, `StopPublish`, `StopEncode` |
| `SrsFlvMuxer.stop` (183-206) | `StopFlag`, `ClearCache`, `InterruptWorker`, `JoinWorker`, `ResetFlv`, `StartDisconnect` |
| worker loop (132-177), `connect`, `sendFlvTag` | `WorkerConnect` ... `WorkerWait` |
| `disconnect` (91-100) | `DisconnectClose`, `DisconnectClosed` |
| throttle and output of the codecs (`SrsEncoder`) | `Throttled`, `Emitted` |
| `SrsFlv.writeVideoSample`, `writeAudioSample`, `flvTagCacheAdd` | `EncodeVideo`, `AddVideo`, `CountVideo`, `EncodeAudio`, `AddAudio` |

A frame is its kind and the number of the run it was encoded in. The UI thread starts and stops
in the order the buttons allow; it calls `stopPublish()` again after exceptions. It may start again at
once: `start()` does not wait for the disconnect thread of the last stop. The history variable `late`,
which no step reads, says whether a run has begun beside such a thread, and whether that thread has
cleared the sequence headers since; the properties that such a thread breaks are stated with it.

### SrsMp4Muxer.tla

Recording during one live session. `formats` is what `SrsEncoder.start()` got done before it gave
up, if it did: without both codecs no frame comes.

| code | definitions |
|---|---|
| the activities' record button, `onPause`, `onResume` and `stopLive`, with `record`, `pause`, `resume`, `stop` (117-203) | `StartRecord`, `Pause`, `Resume`, `ResumeAtKeyFrame`, `StopRecord`, `StopFlags` ... `StopFinish` |
| `writeVideoSample`, `writeAudioSample`, `writeFrameByte` (280-343), on an encoder thread each | `EncodeConfig`, `EncodeVideo`, `EncodeAudio`, `ReadRecording` ... `AddFrame` |
| the thread of `record` (131-154) | `WriterBegin`, `WriterLoop`, `WriterPoll`, `WriterWait`, `WriterWrite` |
| `createMovie`, `writeSampleData`, `finishMovie` (775-869) | `CreateMovie`, `WriteSampleData`, `FinishMovie` |
| `releaseOutputBuffer` in `SrsEncoder` | `Recycle` |

A read or write of a flag that another thread uses is a step of its own. The file is a sequence of
cells: a box or a sample is one cell, so an offset counts cells; `PutAt` is a write after
`fc.position`. Every write may fail when `WriteFails`, opening when `OpenFails`; a write that fails
leaves nothing in the file. `rec` of a frame is the recording whose `bRecording` its encoder
thread saw. Interrupts of `join()` are left out: nobody interrupts the UI thread.

### Mp4SampleTable.tla

One track: `addSample`, and the tables `createStts`, `createStss`, `createStsc`, `createStco` and
`finishMovie` make of it. What else is written to the file is a gap. `Stsc`, `Stts`, `Stco` follow
the loops of the code, one recursive function per loop (`StscAfter[a]` is what the loop has after `a`
samples); the `Read` operators are the reference, written from the meaning the MP4
standard gives the tables.

### UvcFrameSource.tla, UvcStream.tla

`UvcFrameSource` is the abstract specification of what libuvc promises the user of a stream: the
calls of the frame callback are serial and fall between the start and the end of the stop, until
the device fails. `UvcStream` is `stream.c` and is shown to implement it, with the phase derived
from the stopping thread's next step (`Source` in `UvcStream`).

| code | definitions |
|---|---|
| `uvc_stream_open_ctrl`, `uvc_stream_start_bandwidth`, `uvc_start_streaming_bandwidth` | `OpenStream`, `StartStream`, `StartRefused`, `SubmitFirst`, `SubmitFirstFails` |
| `uvc_stop_streaming`, `uvc_stream_stop`, `uvc_stream_close` | `StopStreaming`, `CloseStream`, `CancelTransfers`, `AwaitTransfers`, `JoinUser`, `FreeHandle` |
| `_uvc_stream_callback`, on the event thread | `TransferCompleted`, `TransferCancelled`, `TransferNoDevice`, `TransferFails`, `Decide`, `Resubmit`, `ResubmitFails` |
| `_uvc_process_payload_iso`, `_uvc_swap_buffers`, `_uvc_delete_transfer` | the `Packet...` actions, `PublishFrame`, `SwapThen`, `DeleteTransfer` |
| `_uvc_user_caller`, `_uvc_populate_frame` | `TakeFrame`, `TestFrame`, `CallbackReturns` |

The camera numbers its packets; a frame buffer is the sequence of the packet numbers it holds, so
a mixed, cut or stale frame can be told. `Faults` says which faults an instance has: packets that
are bad or bogus, packets that are lost silently, submissions that fail, and the unplugged cable.

### UvcPreview.tla

| code | definitions |
|---|---|
| `get_frame`, `recycle_frame` | `GetFrame`, `Recycle` |
| `setFrameCallback`, `setCaptureDisplay`, with the wait for the capture thread | `SetFrameCallback`, `SetCaptureDisplay`, `Interrupt`, `WaitFinishing`, `ReplaceCallback`, `ReplaceWindow` |
| `setPreviewDisplay`, `startPreview`, `stopPreview` | `SetPreviewDisplay`, `StartPreview`, `StopFlag`, `SignalThreads`, `JoinCapture`, `JoinPreview`, `ClearAll` |
| `uvc_preview_frame_callback`, `addPreviewFrame` | `FrameArrives`, `CopyFrame`, `AddPreviewFrame`, `FrameCallbackReturns` |
| `prepare_preview`, `do_preview`, `waitPreviewFrame`, `addCaptureFrame` | `StartStreaming`, `CreateCapture`, `PreviewLoop`, `WaitPreviewFrame`, `AddCaptureFrame`, `DecodeFails`, `PreviewEnds`, `CloseStreaming` |
| `do_capture` and its two loops, `waitCaptureFrame`, `do_capture_callback` | `CaptureLoop`, `ChooseLoop`, `FrameLoop`, `WaitCaptureFrame`, `CopyToSurface`, `CaptureCallback`, `ReleaseWindow`, `CaptureFinished` |

The steps of the stream conjoin actions of `UvcFrameSource` (`SourceStart`, `CallBegins`, ...), so
what the preview assumes of libuvc is what `UvcStream` is shown to keep, for a device that does not
fail. A section under a mutex is one step; the setters hold `capture_mutex` between clearing
`mIsCapturing` and waiting, which is why that section is two. Frames are counted, not told apart.

### UsbEvents.tla

| code | definitions |
|---|---|
| `libusb_control_transfer`, `sync_transfer_wait_for_completion` | `Submit`, `Enter` |
| `libusb_handle_events_timeout_completed`, `libusb_try_lock_events` | `TryLock`, `LockEvents`, `LookAgain`, `HandlerActive`, `CheckAndWait` |
| `handle_events`, `reap_for_handle`, `usbi_handle_transfer_completion`, `usbi_handle_disconnect` | `Poll`, `PollTimesOut`, `Reap`, `BroadcastCompletion`, `Unplug` |
| `libusb_unlock_events` | `Deactivate`, `Unlock`, `Notify` |
| `libusb_close`, `do_close` | `RecordModify`, `InterruptHandlers`, `LockToClose`, `ReadDummy`, `DoClose`, `EndModify`, `UnlockClosed` |
| `uvc_open`, `uvc_close`, the handler thread | `Open`, `Close`, `JoinHandler`, `Enter` |

Every thread that handles events runs the same actions, with a program counter each; `Handler` is
libuvc's thread, `Owner` the one that opens and closes. The recursive locking in `do_close()` shows
in what it does to `event_handler_active`.

### The `_proofs` modules

Each extends the module it is about and holds its inductive invariant, the lemmas and the theorems
listed below:

| module | about |
|---|---|
| `RtmpConnection_proofs` | types, and the safety of the connection without interrupts, with its refinement of `RtmpPublisher` |
| `RtmpConnectionCrash_proofs` | `NoCrash`, on top of it |
| `SrsFlvMuxer_proofs` | the muxer, on top of the connection's lemmas |
| `SrsMp4Muxer_proofs`, `Mp4SampleTable_proofs` | recording, and the tables of a track |
| `UvcStream_proofs` | the stream and its refinement of `UvcFrameSource` |
| `UvcPreview_proofs`, `UsbEvents_proofs` | the native preview, the events of libusb |

## Runs

| run | instance | shows |
|---|---|---|
| `conn_sessions` | 1 caller, 3 sessions, 1 control message per session, no interrupts, a network that may fail, fair | `WireOrder`, `WritesApart`, `NoCrash`, `ReleasedWhenClosed`, `ConnInv` (of which `FlagsOfThisSession` is a part), `KeepsProtocol` (the refinement), `CallsReturn` |
| `mux_one_session` | 1 start, 1 stop, 1 frame, 1 control message, a network that may fail, writes that may block for ever, fair | `FirstRunKeepsProtocol`, `FirstRunNoCrash`, `MuxStopReturns`, `CleanAfterStop` |
| `mux_restart` | 2 starts, 1 stop, 2 frames in each run, the second run also beside the disconnect thread of the first, on a network that does not fail (`Lossy = FALSE`) | `CounterExact`, `NoStaleFrames`, `NothingDropped` |
| `mp4_recording` | 1 recording, 1 pause, 2 pictures, 1 sound, fair | `StartsWithKeyFrame`, `StopReturnsWhenRecording` |
| `mp4_restart` | 2 recordings, 2 pictures, 1 sound, any open or write may fail | `OneWriter`, `FilesReadable`, `OneStaleFrame`, `InOrder`, `CrashesBeforeFirstFile`, `Mp4TypeOK` |
| `mp4_tables` | 1 track, up to 5 samples and gaps | `OffsetsRead`, `TimesKeepPace`, `SyncSamplesRead` |
| `uvc_stream` | 2 transfers, 4 packets in frames of 2, 2 streams, every fault, fair | `FreedWhenQuiet`, `NoMixedFrame`, `CalledOncePerFrame`, `StreamStops`, `KeepsPromise` (the refinement), `StreamTypeOK` |
| `uvc_preview` | 5 calls, 1 callback object, 1 surface, queue and pool of 1, fair | `StoppedQuiet`, `FramesKept`, `StopReturns`, `PreviewTypeOK` |
| `usb_events` | 2 callers with 3 transfers, the handler thread, the device opened twice and unplugged, fair | `NoStrandedWaiter`, `CompletedIsWoken`, `SyncReturns`, `CloseReturns`, `EventsTypeOK` |
| `mp4_buffers`, `preview_wait`, `usb_reopened` | as the passing runs of their modules, without fairness | a comment of the code does not hold, see below |

Bounds. Two sessions are the least in which an answer, a thread or a frame of one session
can meet another one; the code compares nothing across more than two, and `conn_sessions` has a
third to spare. The calls come one at a time, as the muxer makes them, so one caller stands for
the worker and the disconnect threads there, and the runs of the muxer have all of them. `MaxControl = 1` is one
message the server sends on its own account, enough for its reply to come between any two
steps of the caller; `mux_restart` does without to stay
small (`CallsReturn` in `conn_sessions` has the receive thread blocked in its reply while a call must return). A frame after its header is all the order of a cache needs: two frames, and `GOP = 1`
fills the cache to its limit, which a second frame passes when both encoders have passed the test; what `mux_one_session` asks
concerns calls and threads, for which one frame is enough. The one stop comes before the run, during it or, in
`mux_restart`, between the two; its disconnect thread then closes a later session. A second stop beside a late
disconnect thread of the first is left to the theorems (`CleanAfterStopHolds`, `NothingDroppedHolds`, for any number
of them).
Two recordings are the least in which a frame, a thread or an offset of one can reach the next;
two pictures are one in the file and one in flight at `stop()`, or two in flight, of which only one
may reach the next file. Five samples
give runs of equal and of different chunk sizes, which is what `stsc` compresses. `TimeScale = 3`
and `Second = 4` make the rounding inexact in both directions.
`MaxCache` bounds the producers of the connection when it is checked without the muxer.
Two transfers are one in its callback and one on its way; two frames of two packets have a first
and a last packet each, a flip of the FID bit, and a second frame to be mixed with the first; the
second stream shows that nothing is left of the first. Five calls of the preview's methods set
the window, start, set a callback or a surface, replace it and stop; a queue and a pool of one frame
are full at once. Three transfers of two callers give one that waits for the other's completion and
one that comes after; the second opening follows every close.

Deadlock is not checked where the model ends: the process may crash, undefined behaviour is met
(`dangling`, `broken`), or the bounds are used up.

`NoCrash`, `WritesApart`, `NothingDropped`, `MuxStopReturns`, `StoppedQuiet`, `StopReturns`, `FreedWhenQuiet`, `StreamStops` and
`CalledOncePerFrame` name the exceptions under which they do not hold: a result that overtakes the registration of its command, a stop before the capture
thread exists, a flag cleared between a test and a wait, a failed device, a refused resubmission, a
broken frame; a reply to a control message beside a write, a late disconnect thread, and an interrupt that a wait has
forgotten. Each of the exceptions is a defect or a race of the code, listed below.

`StartsWithKeyFrame` is about the first recording and about files with more than one picture, and
`FilesReadable` about files with a sample and a storage that has not failed: the other cases do not
hold. A frame in flight at `stop()` can be the only picture of its file, or open the next one;
a file without a sample has no place for its mdat header (see below); and a `finishMovie()` that throws leaves
`recFileSize` to the next file.

Fairness. Threads of the Java runtime are scheduled eventually, so every step of a thread that
stays possible is taken: weak fairness for each calling thread, receive thread, the worker,
the writer threads, the encoder threads once they handle a frame, and the UI
thread once it is inside `start`, `stop` or `resume`. The two waits have
timeouts in the code, so `Timeout` is part of the caller's fairness. Connecting a socket has a
timeout, too; the handshake has none, and its end is an assumption of the liveness properties. A write
has none either: `flush()` blocks while the peer takes no data, and no interrupt ends it, only the end of the
connection. So a thread is not assumed to get past a write to an open connection (`AtWrite`, `RxAtWrite`, `MayBlock` in
`FairSpec` and `MuxFairSpec`), and `CallsReturn` and `MuxStopReturns` say that a call, or `stop()`, returns unless
the caller's own write never does (`[]<>~AtWrite(t)`): a receive thread that is stuck in a write does not hold a
`close()` up, because `shutdown()` closes the output it is stuck in. Nothing else is assumed of the server or
the network, and nothing of the user and the codecs.
The native threads are scheduled likewise; the user's frame callback returns. In `UvcStream` the
steps of the event thread include the completion of a transfer that is on its way, because a
transfer completes, is cancelled, or is given back when the device is gone. In `UvcPreview`
`CloseStreaming` is strongly fair: `uvc_stop_streaming()` returns (`StreamStops`) although frames
may arrive until then, and each arrival makes the step impossible for a while. In `UsbEvents` the
kernel ends every URB, and `LockToClose` is strongly fair: a mutex whose holder changes is won in the end by
a thread that keeps asking, because `pollfd_modify` keeps the others from asking. The 60 s timeout of
`poll()` counts for `CloseReturns` only, once the device is closed; `SyncReturns` does without it.

## What the violated runs show

* `mp4_buffers`: frames are queued as views of the codec's output buffers, which are released
  before the writer thread reads them (`SrsEncoder.java:352`).
* `preview_wait`: the wait for the capture thread to finish is not in a loop, and the broadcast for
  a new frame ends it too (`UVCPreview.cpp:218`).
* `usb_reopened`: `kill_handler_thread` is never cleared, so after a device was closed and opened
  again on the same context the new handler thread ends at once (`device.c:1575`).

Met while modelling, and without a run of their own:

* A command is written, and only then registered; a pong that the receive thread writes in between
  flushes it, its result can find no registered command, and the null is dereferenced
  (`RtmpConnection.java:493-501, 594`). This is the exception in `NoCrash` and `FirstRunNoCrash` (`Overtaken`), and the
  only one: any other null, and a control message at any other moment, is covered.
* Such a reply can also be written while a caller writes: the header and the chunks of the two messages
  may then mix in the one `BufferedOutputStream` (`RtmpPacket.java:33-51`). This is the exception in `WritesApart`; in
  all other states the two threads never write together, so the model takes the chunks of a message as one step.
* The interrupt of `SrsFlvMuxer.stop()` is swallowed by a wait of `connect()` or `publish()`
  (`RtmpConnection.java:189-191, 246-248`); if that call succeeds all the same, `stop()` waits for
  the worker forever. Hence the exception in `MuxStopReturns`: a worker that streams without its interrupt. (Once it streams it cannot lose it:
  the wait of its own loop sets the interrupt again, 171.)
* The disconnect thread acts on the connection as it is when it is scheduled
  (`SrsFlvMuxer.java:200-205`); after a quick stop and start it closes the session of the new run, and its
  last assignments take the sequence headers away (97-98), so that the run drops all its later frames. These are
  the exception in `NothingDropped` (`late = "cleared"`), and why what is said of the first run supposes that it
  began beside no such thread.
* The MP4 writer thread sets `bRecording` when it first runs (`SrsMp4Muxer.java:134`); a `stop()`
  before that is undone, and waits for the writer forever. Hence `StopReturnsWhenRecording`.
* `resume()` clears `bPaused` before it asks for a key frame (`SrsMp4Muxer.java:174`), so an inter
  frame may follow a pause directly; `stop()` clears `aacSpecConfig` (187), which eats the next audio
  frame.
* A transfer that ends with NO_DEVICE clears `running` (`stream.c:985`), and so does a start that
  fails half-way (1606): `uvc_stream_close()` then skips the stop and frees the handle under the other
  transfers and the user thread. This is the exception in `FreedWhenQuiet`.
* The result of the resubmission is ignored (`stream.c:1003`); the slot of a refused transfer is
  never cleared and `uvc_stream_stop()` waits for it forever. This is the exception in `StreamStops`.
* `hold_bfh_err` is read a second time without the mutex (`stream.c:1655`): after a broken frame the
  callback can be called with the frame before. This is the exception in `CalledOncePerFrame`.
* The first frame of a stream is never delivered: `last_seq` and `hold_seq` both start at 0
  (`stream.c:1635`). Packets with the error bit are skipped without a mark (872), and transfers that
  end with ERROR are never replaced (988).
* `stopPreview()` clears `mIsRunning` and signals without a mutex (`UVCPreview.cpp:357-360`), so a
  thread between its test and its wait sleeps on; a stop before the capture thread was created joins
  a thread that never was (361); a setter may begin to wait after the last broadcast (785-788).
  These are the exceptions in `StopReturns` and `StoppedQuiet`. A frame that `addCaptureFrame()` gets
  after the stop is never freed (703).
* The interrupt of `stop()` can also end the join of the receive thread in a `shutdown()` of the
  worker (`RtmpConnection.java:357-360`). `reset()` then runs while that thread handles a message,
  and `publishPermitted` or `connected` is set afterwards, on a muxer that is stopped; or the
  thread goes on to dereference a field that is null now, which ends the process: TLC finds `NoCrash` violated
  so on the instance of `mux_one_session`. Hence `Undisturbed` in what is said of the first run.
* Such a thread can even outlive its run: it sets `publishPermitted` in the next one, before that one
  has a stream. `publish()` then returns true, and `publishVideoData()` returns without sending and without
  counting the frame down. TLC finds `CounterExact` violated so with `MaxSession = 2`, in 77 steps;
  `mux_restart` checks it, and `CounterExactHolds` proves it, for a first run beside no disconnect thread.
* A `connect()` that times out resets `videoFrameCacheNumber` and leaves `mFlvTagCache`
  (`RtmpConnection.java:390`), so the encoders add up to another GOP of frames.
* `allocate()` asks whether a free buffer has enough bytes in use (`SrsAllocator.java:89`), and `release()` has
  cleared those (99): the pool never serves a frame. Were it otherwise, the slot that `allocate()` empties (91)
  would be dereferenced by the next scan of either method (89, 102).
* Every picture of the camera view is the same `IntBuffer`, queued once more (`SrsCameraGLSurfaceView.java:133`,
  magicfilter's `GPUImageFilter.java:272`): the GL thread reads the next picture into it while the worker copies
  the last one.
* A recording without a sample has `mdatOffset` 0, and `finishMovie()` writes the mdat header over
  the file type box (`SrsMp4Muxer.java:836-844`).
* When the first file does not open, `mdat` is null and stopping the recording, which is what the
  activity does about the exception, dereferences it; `CrashesBeforeFirstFile` says when.

## Proofs

Every theorem is `Spec => []P` for all values of the constants its module's `ASSUME` allows. The invariants
below were first checked by TLC on the instances of the runs and, where that was quick, on larger ones.

### The connection

`ConnAssumption` is all that is assumed of the constants: any set of calling threads, any number
of sessions and control messages, a network that is lossy or not.

* `TypeCorrect`: `Spec => []TypeOK` (`TypeOK` is a conjunct of `ConnInv`, as which `conn_sessions` checks it). It alone is not inductive: a receive thread handles
  messages of `stream`, so the proof adds `RxHasStream`, that a thread which runs has one.
* `ConnInvHolds`, and with it `WireOrderHolds`, `FlagsOfThisSessionHolds`, `ReleasedWhenClosedHolds`, each
  under `Interruptible = {}`: nobody interrupts a thread in a call. `ConnInv` is the inductive
  invariant, which is needed because each of them depends on the others: that an
  answer taken from `inbox` belongs to this session (`AnswersKept`) needs that only the current
  session has a receive thread (`OneSession`), which needs that `reset()` runs only after the
  join (`CallFacts` of the steps `closeSocket` and `reset`), which needs that the join is not
  interrupted (`OneCall`). Without `Interruptible = {}` the second and the third are
  false, by the interrupted join described above.
* `ConnectionIsPublisher`, under the same hypothesis: `Spec => KeepsProtocol`. Every step maps to one of
  `RtmpPublisher` or to a stutter, and the initial states to its initial state. `ConnInv` gives the abstract
  guards: a command is written by a step whose caller has seen the flag before (`CallFacts`); a flag is set from an answer
  that belongs to the session of the field (`OneSession`, `AnswersKept`), the permission after the metadata; `reset()`
  finds no receive thread. Which messages a step adds is `Grows`, whether they were flushed or not (`WritingSends`).
* `NoCrashHolds`, under the same hypothesis, for any number of control messages. That the result of a command finds
  the command registered, or its writer still before the registration and a control message received (`Registered`), needs that before
  that the command is flushed by nobody but its writer, or a reply (`NotYetSent`), and that each command goes out and is
  answered at most once (`CreatedOnce`, `AtMostOnce`). That no field is null where it is read needs `OpenHasSocket` and
  `ConnInv`. The muxer does interrupt its worker: what holds there is `FirstRunNoCrashHolds`.
* `WritesApartHolds`, from the same invariant: while a caller is before the answer it waits for the receive thread has
  nothing to send, and once the permission stands it has sent the metadata (`Published`).

### The FLV muxer

Here threads are interrupted: `stop()` interrupts the worker. What the muxer promises about its own state
holds all the same, for any number of runs, disconnect threads and frames.

* `MuxTypes`, `NoStaleFramesHolds`, `NothingDroppedHolds`, `CleanAfterStopHolds` have one invariant, `MuxInv`.
  That no frame of an earlier run is left needs that the encoders run only between `start()` and their join
  (`EncodersOK`), and that `stop()` clears the cache after that join (`CacheOK`). That a frame finds its header needs
  the order of headers and frames in the cache, in the worker's hand and in the two flags of `SrsFlv`
  together (`FlvOK`, `OrderOK`): the header is ahead of every frame, or the worker has it, unless a late disconnect
  thread has cleared it. That nothing is left when the threads have ended does not come from the last of them alone, since
  each may come late: what a stopped run has left behind is still ahead of some disconnect thread (`LeftOver`). A run that
  began beside none of them meets none (`DisconnectOK`), because `stop()` starts one after it has joined the worker.
* `FirstRunConnection`: in the first run and until the worker has met the interrupt of `stop()`
  (`Undisturbed`), the connection keeps `ConnInv` under the muxer's threads. Its proof
  uses the lemmas of the connection, step by step: the muxer's threads make its calls one at a time (`FreshOK`,
  `FirstRunOK`).
* `FirstRunIsPublisher`, in the same part of the run: all of the muxer's threads together are one publisher of
  `RtmpPublisher`. The steps of the connection map as in `ConnectionIsPublisher`, since `ConnInv` holds; those of
  the muxer itself are the beginning of a call or leave the connection as it is (`OwnStepOf`), and so are invisible.
  So the worker, which the UI, the encoder and the disconnect threads disturb, keeps the order of
  the protocol on the wire, and nothing an earlier session's server said reaches a later one.
* `FirstRunNoCrashHolds`: the register of commands, too, is kept by the steps of the muxer (`RegisterOK`), whatever control messages come and while
  the interrupt is already pending: a
  call begins only when nobody else is in one (`AllIdle`), which is what the lemmas behind `NoCrashHolds` need. Before
  the run begins there is nothing to register (`FreshRegistry`).
* `CounterExactHolds`, for the first run: `CountOK` follows the counter through the steps of an encoder that
  has added a frame and not counted it, and of a worker that sends one. The count goes down only if
  the connection really sends, hence `PermittedOK`: in the first run a permitted connection has a stream.
  For later runs the property is false, see above.

### Recording

`Mp4Assumption` leaves the bounds and the failures of the storage open.

* `OneWriterHolds`: its invariant `WriterInv` adds what the record button says: it reads "start recording"
  only after the writer was joined, so `record()` finds no writer alive.
* `Mp4Types`, `InOrderHolds`, `OneStaleFrameHolds`, `StartsWithKeyFrameHolds`, `FilesReadableHolds` and
  `CrashesBeforeFirstFileHolds` rest on `Mp4Inv`, which follows a frame from its encoder to the file:
  `OrderOK` says that every frame in an encoder's hand, in the queue, in the writer's hand and in a track comes after those
  ahead of it; `StaleOK`, that a frame whose encoder saw an earlier recording is
  the only one of its track; `FirstKeyOK`, that after the queue was cleared an admitted frame is a key frame or has
  an earlier admitted one, which is what makes the race of `needToFindKeyFrame` harmless for files with
  more than one picture; `FileOK`, that the cells of the file are the boxes and the bytes of the samples so far, and
  that `recFileSize` is its length; `NullOK`, that `mdat` is null only before a first file could be opened.
* `TableTypes` (a duration is never negative, since a sample older than the one before is refused),
  `SyncSamplesFound` and `SamplesApart` (the samples lie apart, in order and where the writer put them), from
  the invariant `TableInv` of a track that is being written.
* `OffsetsFound` and `TimesKept` say that the tables made from such a track are right, for every
  number of samples, gaps, and every time scale. They are proved by induction over the rounds of the loops.
  For stsc and stco, `ChunksOK` relates the two loops after `a` samples: they have closed the same chunks, each
  of the chunks is free of gaps and begins at the place stco has for it, and the open one, if there is one, already has
  its place in stco while stsc is still counting it (`ChunksStep`). That a run of chunks with the same number of samples
  shares one entry is `EntriesOK` (`NextChunk`). For stts, `SttsCounts` says that each sample so far has
  the duration of the entry it falls to. `DurationsKeepPace` then bounds the drift: each new difference adds
  one rounding (`TicksRounded`), and `BeforeLast` leaves the sums up to the last sample alone (`SumsInserted`).

Induction in these proofs is over a set: `UpTo` says that a set which has 0 and, with `n - 1`, also `n`, has every
number up to a bound. It follows from the library's statement that `<` is well founded on `Nat`, by the least number that is missing.
The library's own induction theorem takes a predicate, which the installed provers cannot instantiate. That a recursive function exists is proved the same way (`Rounds`).

### The USB camera

* `StreamTypes`, `HandleFreedWhenQuiet` and `StreamImplementsSource`, from `StreamAssumption`: any number of
  transfers, packets, streams and any faults. Their invariant `StreamInv` is `StreamTypeOK` with
  `QuietInv`: as long as the device has not failed, a closed or closing stream that is no longer
  running has no transfer and no user thread, and a stop that has come to its join has waited for
  every slot. `KeepsPromise` is a refinement: every step of the stream maps to one of
  `UvcFrameSource` or to a stutter, and the end of the stop to one that needs the callback to have ended.
* `FramesNotMixed` adds `FrameInv`: what each of the three buffers (working, held, shown) holds, next to the flag
  that says whether it is broken, for any `FrameSize`. It is needed because `NoMixedFrame` speaks of
  the last buffer only, and a mixture would arise in the first.
* `CalledOnce` adds `OnceInv`: packets pass through the three buffers in their order, so a frame that
  the user thread takes for new has a later packet than the one it has shown (`BuffersInOrder`), whatever
  was lost; and only a bad packet sets a flag that makes it repeat a frame (`MarksOK`).
* `PreviewTypes`, `StopsQuietly` and `FramesAccounted`: besides the types, `PreviewInv` says where the preview
  thread can be while the stream is in each phase (`ThreadsOK`), where the capture thread can be while the preview
  thread and the stopping caller are at each step (`CaptureOK`), that a preview that has not begun has
  no frames (`EmptyOK`), that a call stops the preview at most once (`CallsOK`), and that a frame being
  drawn when the stop comes is one that stop may lose (`LossOK`). The preview uses the stream by the actions of `UvcFrameSource`, so these theorems
  and `StreamImplementsSource` compose, for a device that does not fail.
* `EventsTypes`, `NobodyIsStranded` and `CompletedAreWoken`, from `EventsAssumption`: any number of callers,
  transfers and openings. The invariant adds what the two flags mean (`FlagsOK`: `pollfd_modify` is set from
  `RecordModify` to `EndModify`, and `event_handler_active` only while the lock has an owner, who will broadcast)
  and that the handler thread only runs while the device is open or being closed (`OneHandlerThread`).

### Model-checked only

* All liveness (`CallsReturn`, `MuxStopReturns` and the other stops, `StreamStops`, `SyncReturns`, `CloseReturns`): fairness and
  `ENABLED` are out of the prover's reach.
* `CounterExact` beyond the first run, and the connection with interrupts: false, see above.

## Merged and left-out steps

Where an action is coarser than its code, or leaves a branch out, and why it may:

* `RtmpConnection`: the reads of a field within a step are one read. The chunks of a message are one write
  (`WritesApart` says when that is right). `SendCreateStream` writes `releaseStream`, `FCPublish` and `createStream`
  (219-240) at once: nobody waits for the first two. `RxControl` does not look at `socket` again after its reply (557).
  `JoinRx` leaves out the second interrupt of a receive thread that has one (359). `reset()` clears in two steps, the
  flags and then the references; `streamName` goes with `socket`. A connection whose handshake failed is `"failed"` like
  one that was refused: both wait for the `close()` of the muxer.
* `SrsFlvMuxer`: the worker's URL is one that `connect()` takes (otherwise it ends as after a refused connection).
  `SrsEncoder` tests the counter once for a picture and then writes all that the codec has to give (464); `EncodeVideo`
  tests it for each frame.
* `SrsMp4Muxer`: `WriteSampleData` writes the length and the data of a NAL unit at once (815-816); a sample that `addSample`
  refuses (579-582) is in `Mp4SampleTable`.
* `UvcStream`: only the isochronous branch of the callback; the bulk one (`stream.c` 976-978, 671-781) needs an interface with
  one alternate setting. After a packet with the error bit the callback has the kernel clear the halt of the end point (869),
  which touches no state of the stream; the request for an error code that follows (871) is compiled out (`ctrl.c` 147-161).
* `UvcPreview`: a start without a window sets and clears `mIsRunning` in one step (333-347). `CaptureLoop` tests `mIsRunning` and
  sets `mIsCapturing` (780-781), and `CopyToSurface` tests and reads `mCaptureWindow` (816, 823), in one step each.
* `UsbEvents`: `LockEvents` takes the mutex and sets `event_handler_active` (`io.c` 1672-1676), which only the holder of the mutex
  changes. `Open` leaves out the interruption of the event handlers by `libusb_open()` (`core.c` 1239) and the failures of `uvc_open()`.
  `Close` finds no control transfer under way. libusb does not see to that: `do_close()` (1329-1356) drops the transfers of the
  device, and their callers would wait forever. The Java object does: `close()` and the methods that read or
  write a control are `synchronized` (`UVCCamera.java` 232, 436-947); and `release()` joins the preview thread, which negotiates the
  format, before it closes the device (`UVCCamera.cpp` 193-203). `setPowerlineFrequency()`, `getPowerlineFrequency()` (831-838) and
  `setPreviewSize()` (308) are not synchronized; the application calls the first two nowhere,
  and the last one right before it starts the preview.

## Not modelled, and the plan

The order follows the weight of the behaviour:

1. The camera views and their workers, of the phone's camera and of the UVC camera: the queue of pictures between the GL
   thread and the worker, `enableEncoding` and `disableEncoding`.
2. What of `ConnInv` and of the refinement of `RtmpPublisher` survives an interrupted join.
3. `SrsMp4Muxer`: a second live session, in which a stale `aacSpecConfig` lets a codec configuration
   into the file.
4. The chunk layer: `RtmpPacket.writeTo` and `RtmpDecoder.readPacket`, with the header types,
   as functions checked against each other over bounded inputs.
5. `USBMonitor`.

Not planned: `uvc/encoder` and `AbstractUVCCameraHandler`, which the application never constructs;
`SrsAllocator`, two synchronized methods whose pool no frame depends on (see above).
Not planned: byte formats (AMF, handshake, FLV tags, NAL units, UVC descriptors), GL and camera
set-up, the UI, pixel conversion, and the vendored libraries. Most of the repository's C and C++ code is
such libraries: x264, libyuv and libjpeg-turbo are codecs whose arithmetic, written for several
processors, is no matter for a state machine, and the back ends of libusb for other systems are not built for
Android. What of the C code has threads and state of the application's own, or is libuvc's and libusb's
part in them, is what the three native modules model, so the share of all C lines that is
modelled is small and stays small.
