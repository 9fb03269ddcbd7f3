------------------------------ MODULE AudioHal ------------------------------
(***************************************************************************)
(* The primary audio HAL of the TF101 (src/audio/audio_hw.c): one          *)
(* audio_device shared by the stream_out and stream_in objects the         *)
(* framework opens, called from any thread of the media server.            *)
(*                                                                         *)
(* A call is a walk of pc[t] through the handler.  A step is cut wherever  *)
(* another thread can act between two accesses to shared state: at every   *)
(* mutex acquisition, at each of the three writes of                       *)
(* switch_recording_mode (which adev_close_input_stream runs with no lock  *)
(* held) and around the blocking PCM transfer.  Code that runs under a     *)
(* mutex and touches only what that mutex protects is one step.            *)
(*                                                                         *)
(* A device mask is the set of the numbers of its bits: & is \cap, | is    *)
(* \cup, &~ is \, and (a ^ b) is non-zero iff the sets differ.             *)
(***************************************************************************)
EXTENDS Naturals, FiniteSets

CONSTANTS
  Threads,          \* threads of the media server that call the HAL
  Outs, Ins,        \* slots for stream_out and stream_in objects
  NULL,             \* the null pointer, and a free mutex
  Ops,              \* the calls the framework makes, a subset of Calls
  CodecFaults,      \* what may fail in switch_recording_mode, of Faults
  ScoRate,          \* SCO_SAMPLING_RATE
  OUT_ALL, OUT_SPEAKER, OUT_HEADPHONES, OUT_AUX_DIGITAL, OUT_ALL_SCO,
  IN_ALL, IN_BUILTIN_MIC, IN_WIRED_HEADSET, IN_ALL_SCO, BIT_IN,
  OutRoutes,        \* values of "routing" given to out_set_parameters
  InRoutes,         \* values of "routing" given to in_set_parameters
  Orientations      \* orientations the framework reports

Streams == Outs \cup Ins

Calls == {"out_write", "out_standby", "out_params", "close_out",
          "in_read", "in_standby", "in_params", "close_in", "orientation"}

ASSUME StreamsAssumption ==
  /\ Outs \cap Ins = {}
  /\ NULL \notin Streams /\ NULL \notin Threads

(* A device node that does not open; an ioctl of the DSP or of the wm8903  *)
(* capture driver that has no effect.                                      *)
Faults == {"open", "dsp", "capture"}

ASSUME OpsAssumption == Ops \subseteq Calls /\ CodecFaults \subseteq Faults

ASSUME RateAssumption == ScoRate \in Nat

ASSUME MaskAssumption ==
  /\ UNION {OUT_SPEAKER, OUT_HEADPHONES, OUT_AUX_DIGITAL, OUT_ALL_SCO}
       \subseteq OUT_ALL
  /\ UNION {IN_BUILTIN_MIC, IN_WIRED_HEADSET, IN_ALL_SCO, BIT_IN}
       \subseteq IN_ALL
  /\ \A v \in OutRoutes : v \subseteq OUT_ALL \ BIT_IN
  /\ \A v \in InRoutes : v \subseteq IN_ALL

ASSUME OrientationAssumption == "undefined" \in Orientations

VARIABLES
  devLock,       \* audio_device.lock: its owner, or NULL
  lock,          \* stream_out.lock, stream_in.lock
  devices,       \* audio_device.devices
  orientation,   \* audio_device.orientation
  active_out,    \* audio_device.active_out
  active_in,     \* audio_device.active_in
  mixer,         \* the mixer paths written to the codec
  isRecording,   \* the global of that name
  capture,       \* source selected in the wm8903 capture driver
  dsp,           \* mode last sent to the fm34 DSP
  exists,        \* whether the stream is allocated
  standby,       \* stream.standby
  pcm,           \* stream.pcm: no PCM, an open port, or a closed handle
  pc, op, str,   \* per thread: position, call, stream argument
  val,           \* the routing value of the call that holds devLock
  faults,        \* history: devices a switch failed to tell since one began
  raced          \* history: whether two switches overlapped since then

codec == <<isRecording, capture, dsp, faults>>
route == <<devices, orientation, mixer>>
streamState == <<exists, standby, pcm, active_out, active_in>>
locks == <<devLock, lock>>
call == <<op, str>>
vars == <<locks, streamState, route, codec, pc, call, val, raced>>

-----------------------------------------------------------------------------
(* PCM ports, rates and mixer paths selected by the device mask.           *)

Ports == {"main", "hdmi", "sco"}

OutPort(devs) ==
  IF devs \cap OUT_AUX_DIGITAL # {} THEN "hdmi"
  ELSE IF devs \cap OUT_ALL_SCO # {} THEN "sco" ELSE "main"

InPort(devs) == IF devs \cap IN_ALL_SCO # {} THEN "sco" ELSE "main"

PortOf(s) == IF s \in Outs THEN OutPort(devices) ELSE InPort(devices)

MutantRate(port) ==                  \* HDMI at a rate of its own
  IF port = "sco" THEN ScoRate ELSE IF port = "hdmi" THEN 48000 ELSE 44100

Rate(port) == IF port = "sco" THEN ScoRate ELSE 44100

(* The test of start_output_stream and start_input_stream on the peer.     *)
RateClash(mine, peers) ==
  \/ mine % 8000 = 0 /\ peers % 8000 # 0
  \/ mine % 11025 = 0 /\ peers % 11025 # 0

OutBits == [speaker |-> OUT_SPEAKER, headphone |-> OUT_HEADPHONES,
            hdmi |-> OUT_AUX_DIGITAL]

OutPaths(devs) == {p \in DOMAIN OutBits : devs \cap OutBits[p] # {}}

MicPaths == {"headset-mic", "main-mic-left", "main-mic-top"}

InPaths(devs, ori) ==
  IF devs \cap IN_WIRED_HEADSET # {} THEN {"headset-mic"}
  ELSE IF devs \cap IN_BUILTIN_MIC = {} THEN {}
  ELSE IF ori = "landscape" THEN {"main-mic-left"} ELSE {"main-mic-top"}

-----------------------------------------------------------------------------
(* Program counters.                                                       *)

EndSteps == {"end_dsp", "end_capture", "end_flag"}
StartSteps == {"start_dsp", "start_flag", "start_capture"}

OutCalls == {"out_write", "out_standby", "out_params", "close_out"}
InCalls == {"in_read", "in_standby", "in_params", "close_in"}
IoCalls == {"out_write", "in_read"}
CloseCalls == {"close_out", "close_in"}

Positions ==
  {"idle", "dev", "locked", "select", "playback", "route", "peer", "open",
   "io", "backoff", "free", "segv"} \cup EndSteps \cup StartSteps

(* The positions each call passes through; "segv" is where the process     *)
(* dies, and every thread with it.                                         *)
Flow ==
  [none |-> {"idle"},
   out_write |-> {"dev", "locked", "peer", "segv", "open", "io"} \cup EndSteps,
   in_read |-> {"dev", "locked", "peer", "segv", "open", "io", "backoff"},
   out_standby |-> {"dev", "locked"},
   in_standby |-> {"dev", "locked"},
   out_params |-> {"dev", "locked", "select", "playback", "route"} \cup EndSteps,
   in_params |-> {"dev", "locked", "select", "route"} \cup StartSteps,
   orientation |-> {"dev", "locked", "select", "route"} \cup StartSteps,
   close_out |-> {"dev", "locked", "free"},
   close_in |-> {"playback", "dev", "locked", "free"} \cup EndSteps]

Init ==
  /\ devLock = NULL
  /\ lock = [s \in Streams |-> NULL]
  /\ devices = {} /\ orientation = "undefined" /\ mixer = {}
  /\ active_out = NULL /\ active_in = NULL
  /\ isRecording = FALSE /\ capture = "unset" /\ dsp = "unset"
  /\ exists = [s \in Streams |-> FALSE]
  /\ standby = [s \in Streams |-> TRUE]
  /\ pcm = [s \in Streams |-> "none"]
  /\ pc = [t \in Threads |-> "idle"]
  /\ op = [t \in Threads |-> "none"]
  /\ str = [t \in Threads |-> NULL]
  /\ val = {} /\ faults = {} /\ raced = FALSE

-----------------------------------------------------------------------------
(* Mutex and control helpers.                                              *)

Goto(t, p) == pc' = [pc EXCEPT ![t] = p]

Return(t) ==
  /\ Goto(t, "idle")
  /\ op' = [op EXCEPT ![t] = "none"]
  /\ str' = [str EXCEPT ![t] = NULL]

ReleaseDev == devLock' = NULL

HoldStream(t) == lock' = [lock EXCEPT ![str[t]] = t]
ReleaseStream(t) == lock' = [lock EXCEPT ![str[t]] = NULL]

MutantStandbyKeepsPointer(s) ==      \* forgets to clear adev->active_in
  /\ standby' = [standby EXCEPT ![s] = TRUE]
  /\ pcm' = IF standby[s] THEN pcm ELSE [pcm EXCEPT ![s] = "none"]
  /\ active_out' = IF standby[s] \/ s \in Ins THEN active_out ELSE NULL
  /\ UNCHANGED <<exists, active_in>>

(* do_out_standby and do_in_standby, entered with both mutexes held.       *)
DoStandby(s) ==
  /\ standby' = [standby EXCEPT ![s] = TRUE]
  /\ pcm' = IF standby[s] THEN pcm ELSE [pcm EXCEPT ![s] = "none"]
  /\ active_out' = IF standby[s] \/ s \in Ins THEN active_out ELSE NULL
  /\ active_in' = IF standby[s] \/ s \in Outs THEN active_in ELSE NULL
  /\ UNCHANGED exists

-----------------------------------------------------------------------------
(* Opening streams and entering calls.                                     *)

(* adev_open_output_stream, adev_open_input_stream: no lock is taken and   *)
(* nothing of the audio_device changes.                                    *)
OpenStream(s) ==
  /\ ~exists[s]
  /\ exists' = [exists EXCEPT ![s] = TRUE]
  /\ standby' = [standby EXCEPT ![s] = TRUE]
  /\ pcm' = [pcm EXCEPT ![s] = "none"]
  /\ UNCHANGED <<locks, route, codec, active_out, active_in, pc, call, val>>

(* The framework never uses a stream while it closes it.                   *)
InFlight(s) == {t \in Threads : str[t] = s}

Callable(o, s) ==
  /\ exists[s]
  /\ s \in Outs <=> o \in OutCalls
  /\ \A t \in InFlight(s) : op[t] \notin CloseCalls
  /\ o \in CloseCalls => InFlight(s) = {}

(* adev_close_input_stream switches the codec before it takes any lock.    *)
Enter(t, o, s) ==
  /\ pc[t] = "idle"
  /\ op' = [op EXCEPT ![t] = o]
  /\ str' = [str EXCEPT ![t] = s]
  /\ Goto(t, IF o = "close_in" THEN "end_dsp" ELSE "dev")
  /\ UNCHANGED <<locks, streamState, route, codec, val>>

CallStream(t) ==
  \E o \in Ops \ {"orientation"}, s \in Streams :
    Callable(o, s) /\ Enter(t, o, s)

CallDevice(t) == "orientation" \in Ops /\ Enter(t, "orientation", NULL)

(* val & ~AUDIO_DEVICE_BIT_IN                                              *)
RoutedIn(v) == v \ BIT_IN

(* The routing values a call may carry; 0 also stands for no routing key.  *)
RoutingOf(o) ==
  {{}} \cup (IF o = "out_params" THEN OutRoutes
            ELSE IF o = "in_params" THEN {RoutedIn(v) : v \in InRoutes}
            ELSE {})

(* A transfer on a running stream that skips the device mutex.             *)
MutantLockDevUnlessRunning(t) ==
  /\ pc[t] = "dev"
  /\ \/ /\ op[t] \in IoCalls /\ ~standby[str[t]] /\ lock[str[t]] = NULL
        /\ HoldStream(t) /\ Goto(t, "io") /\ UNCHANGED <<devLock, val>>
     \/ /\ ~(op[t] \in IoCalls /\ ~standby[str[t]])
        /\ devLock = NULL /\ devLock' = t /\ val' \in RoutingOf(op[t])
        /\ Goto(t, "locked") /\ UNCHANGED lock
  /\ UNCHANGED <<streamState, route, codec, op, str>>

LockDev(t) ==
  /\ pc[t] = "dev" /\ devLock = NULL
  /\ devLock' = t
  /\ val' \in RoutingOf(op[t])
  /\ Goto(t, "locked")
  /\ UNCHANGED <<lock, streamState, route, codec, op, str>>

-----------------------------------------------------------------------------
(* out_standby, in_standby and the part of a close they make up.           *)

(* do_*_standby runs under the stream's own mutex.                         *)
MutantStreamIdle(s) == s \in Streams
StreamIdle(s) == lock[s] = NULL

StandbyCall(t) ==
  /\ pc[t] = "locked"
  /\ op[t] \in {"out_standby", "in_standby"} \cup CloseCalls
  /\ StreamIdle(str[t])
  /\ DoStandby(str[t])
  /\ ReleaseDev
  /\ IF op[t] \in CloseCalls THEN Goto(t, "free") /\ UNCHANGED call
                             ELSE Return(t)
  /\ UNCHANGED <<lock, route, codec, val>>

Free(t) ==
  /\ pc[t] = "free"
  /\ exists' = [exists EXCEPT ![str[t]] = FALSE]
  /\ Return(t)
  /\ UNCHANGED <<locks, standby, pcm, active_out, active_in, route, codec, val>>

-----------------------------------------------------------------------------
(* out_set_parameters, in_set_parameters, adev_set_parameters.             *)

Differ(v, mask) == v \cap mask # devices \cap mask

MutantMovesOutPort(v) == Differ(v, OUT_ALL_SCO)
MovesOutPort(v) == Differ(v, OUT_ALL_SCO) \/ Differ(v, OUT_AUX_DIGITAL)

MovesInPort(v) == Differ(v, IN_ALL_SCO)

Mask(o) == IF o = "out_params" THEN OUT_ALL ELSE IN_ALL

Unchanged(o) == val = {} \/ devices \cap Mask(o) = val

(* A routing value that changes nothing, or is 0, only releases the lock;  *)
(* so does an orientation equal to the current one.                        *)
IgnoreParams(t) ==
  /\ pc[t] = "locked"
  /\ \/ op[t] \in {"out_params", "in_params"} /\ Unchanged(op[t])
     \/ op[t] = "orientation"
  /\ ReleaseDev
  /\ Return(t)
  /\ val' = {}
  /\ UNCHANGED <<lock, streamState, route, codec>>

RouteParams(t) ==
  LET moves == IF op[t] = "out_params" THEN MovesOutPort(val)
                                       ELSE MovesInPort(val) IN
  /\ pc[t] = "locked" /\ op[t] \in {"out_params", "in_params"}
  /\ ~Unchanged(op[t])
  /\ IF moves THEN StreamIdle(str[t]) /\ DoStandby(str[t])
              ELSE UNCHANGED streamState
  /\ devices' = (devices \ Mask(op[t])) \cup val
  /\ val' = {}
  /\ Goto(t, "select")
  /\ UNCHANGED <<locks, orientation, mixer, codec, op, str>>

OrientationParam(t) ==
  /\ pc[t] = "locked" /\ op[t] = "orientation"
  /\ \E o \in Orientations \ {orientation} : orientation' = o
  /\ Goto(t, "select")
  /\ UNCHANGED <<locks, streamState, devices, mixer, codec, call, val>>

(* select_devices_out up to its mode switch.                               *)
SelectOut(t) ==
  /\ pc[t] = "select" /\ op[t] = "out_params"
  /\ Goto(t, IF OutPaths(devices) = {} THEN "route"
             ELSE IF isRecording THEN "end_dsp" ELSE "playback")
  /\ UNCHANGED <<locks, streamState, route, codec, call, val>>

(* select_devices_in up to its mode switch.                                *)
SelectIn(t) ==
  /\ pc[t] = "select" /\ op[t] \in {"in_params", "orientation"}
  /\ Goto(t, IF devices \cap IN_BUILTIN_MIC # {} /\ ~isRecording
             THEN "start_dsp" ELSE "route")
  /\ UNCHANGED <<locks, streamState, route, codec, call, val>>

MutantRouteAdds(t) ==                \* no reset_mixer_state
  /\ pc[t] = "route"
  /\ mixer' = mixer \cup (IF op[t] = "out_params" THEN OutPaths(devices)
                          ELSE InPaths(devices, orientation))
  /\ ReleaseDev
  /\ Return(t)
  /\ UNCHANGED <<lock, streamState, devices, orientation, codec, val>>

(* reset_mixer_state, audio_route_apply_path and update_mixer_state; then  *)
(* the handler unlocks the device and returns.                             *)
Route(t) ==
  /\ pc[t] = "route"
  /\ mixer' = IF op[t] = "out_params" THEN OutPaths(devices)
                                      ELSE InPaths(devices, orientation)
  /\ ReleaseDev
  /\ Return(t)
  /\ UNCHANGED <<lock, streamState, devices, orientation, codec, val>>

-----------------------------------------------------------------------------
(* switch_recording_mode: the DSP ioctl, then the flag and the capture     *)
(* ioctl in the order of the mode; nothing at all when a device node does  *)
(* not open.  The result of no ioctl is looked at.                         *)

AfterEnd(t) == IF op[t] = "out_write" THEN "peer" ELSE "playback"
AfterPlayback(t) == IF op[t] = "close_in" THEN "dev" ELSE "route"

(* The nodes open and the DSP is told: a switch begins, and the history    *)
(* of faults anew.                                                         *)
TellDsp(mode) ==
  \/ dsp' = mode /\ faults' = {}
  \/ "dsp" \in CodecFaults /\ faults' = {"dsp"} /\ UNCHANGED dsp

Unopened == "open" \in CodecFaults /\ faults' = faults \cup {"dsp"} /\ UNCHANGED dsp

Select(source) ==
  \/ capture' = source /\ UNCHANGED faults
  \/ /\ "capture" \in CodecFaults /\ faults' = faults \cup {"capture"}
     /\ UNCHANGED capture

MutantEndSkipsDsp(t) ==
  /\ pc[t] = "end_dsp"
  /\ Goto(t, "end_capture")
  /\ faults' = {}
  /\ UNCHANGED <<locks, streamState, route, isRecording, capture, dsp, call, val>>

EndDsp(t) ==
  /\ pc[t] = "end_dsp"
  /\ \/ TellDsp("end") /\ Goto(t, "end_capture")
     \/ Unopened /\ Goto(t, AfterEnd(t))
  /\ UNCHANGED <<locks, streamState, route, isRecording, capture, call, val>>

EndCapture(t) ==
  /\ pc[t] = "end_capture"
  /\ Select("output")
  /\ Goto(t, "end_flag")
  /\ UNCHANGED <<locks, streamState, route, isRecording, dsp, call, val>>

MutantEndFlagForgotten(t) ==
  /\ pc[t] = "end_flag"
  /\ Goto(t, AfterEnd(t))
  /\ UNCHANGED <<locks, streamState, route, codec, call, val>>

EndFlag(t) ==
  /\ pc[t] = "end_flag"
  /\ isRecording' = FALSE
  /\ Goto(t, AfterEnd(t))
  /\ UNCHANGED <<locks, streamState, route, capture, dsp, faults, call, val>>

Playback(t) ==
  /\ pc[t] = "playback"
  /\ dsp' = "playback" \/ (CodecFaults \cap {"open", "dsp"} # {} /\ UNCHANGED dsp)
  /\ Goto(t, AfterPlayback(t))
  /\ UNCHANGED <<locks, streamState, route, isRecording, capture, faults, call, val>>

StartDsp(t) ==
  /\ pc[t] = "start_dsp"
  /\ \/ TellDsp("start") /\ Goto(t, "start_flag")
     \/ Unopened /\ Goto(t, "route")
  /\ UNCHANGED <<locks, streamState, route, isRecording, capture, call, val>>

StartFlag(t) ==
  /\ pc[t] = "start_flag"
  /\ isRecording' = TRUE
  /\ Goto(t, "start_capture")
  /\ UNCHANGED <<locks, streamState, route, capture, dsp, faults, call, val>>

StartCapture(t) ==
  /\ pc[t] = "start_capture"
  /\ Select("input")
  /\ Goto(t, "route")
  /\ UNCHANGED <<locks, streamState, route, isRecording, dsp, call, val>>

Switch(t) ==
  \/ EndDsp(t) \/ EndCapture(t) \/ EndFlag(t) \/ Playback(t)
  \/ StartDsp(t) \/ StartFlag(t) \/ StartCapture(t)

-----------------------------------------------------------------------------
(* out_write and in_read.                                                  *)

(* The stream is running: keep only its mutex.                             *)
EnterIo(t) ==
  /\ pc[t] = "locked" /\ op[t] \in IoCalls
  /\ StreamIdle(str[t]) /\ ~standby[str[t]]
  /\ HoldStream(t)
  /\ ReleaseDev
  /\ Goto(t, "io")
  /\ UNCHANGED <<streamState, route, codec, call, val>>

(* start_output_stream ends a recording before it looks at the peer.       *)
MutantEndsRecording == FALSE
EndsRecording == isRecording

(* start_output_stream and start_input_stream up to the peer's mutex.      *)
StartStream(t) ==
  /\ pc[t] = "locked" /\ op[t] \in IoCalls
  /\ StreamIdle(str[t]) /\ standby[str[t]]
  /\ HoldStream(t)
  /\ Goto(t, IF op[t] = "out_write" /\ EndsRecording THEN "end_dsp"
                                                     ELSE "peer")
  /\ UNCHANGED <<devLock, streamState, route, codec, call, val>>

(* The active stream of the other direction, whose mutex a start takes.    *)
PeerOf(t) == IF op[t] = "out_write" THEN active_in ELSE active_out

Clashes(t) ==
  PeerOf(t) # NULL /\ RateClash(Rate(PortOf(str[t])), Rate(pcm[PeerOf(t)]))

Peer(t) ==
  /\ pc[t] = "peer" /\ ~Clashes(t)
  /\ PeerOf(t) # NULL => StreamIdle(PeerOf(t))
  /\ Goto(t, "open")
  /\ UNCHANGED <<locks, streamState, route, codec, call, val>>

(* The peer's rate is of the other group: its standby clears the pointer   *)
(* through which the start then gives its mutex back.                      *)
PeerClash(t) ==
  /\ pc[t] = "peer" /\ Clashes(t)
  /\ StreamIdle(PeerOf(t))
  /\ lock' = [lock EXCEPT ![PeerOf(t)] = t]
  /\ DoStandby(PeerOf(t))
  /\ Goto(t, "segv")
  /\ UNCHANGED <<devLock, route, codec, call, val>>

(* A port carries one stream in each direction.                            *)
PortFree(s) ==
  \A r \in Streams \ {s} : (r \in Outs <=> s \in Outs) => pcm[r] # PortOf(s)

PcmOpens(t) ==
  LET s == str[t] IN
  /\ pc[t] = "open" /\ PortFree(s)
  /\ pcm' = [pcm EXCEPT ![s] = PortOf(s)]
  /\ standby' = [standby EXCEPT ![s] = FALSE]
  /\ active_out' = IF s \in Outs THEN s ELSE active_out
  /\ active_in' = IF s \in Ins THEN s ELSE active_in
  /\ ReleaseDev
  /\ Goto(t, "io")
  /\ UNCHANGED <<lock, exists, route, codec, call, val>>

MutantPcmOpenFails(t) ==             \* returns with the device mutex held
  /\ pc[t] = "open"
  /\ pcm' = [pcm EXCEPT ![str[t]] = "stale"]
  /\ ReleaseStream(t) /\ Return(t)
  /\ UNCHANGED <<devLock, exists, standby, active_out, active_in, route, codec,
                 val>>

(* pcm_open fails: the closed handle stays in stream.pcm.  in_read sleeps  *)
(* with the stream's mutex held, out_write after it has released it.       *)
PcmOpenFails(t) ==
  /\ pc[t] = "open"
  /\ pcm' = [pcm EXCEPT ![str[t]] = "stale"]
  /\ ReleaseDev
  /\ IF op[t] = "in_read" THEN Goto(t, "backoff") /\ UNCHANGED <<lock, call>>
                          ELSE ReleaseStream(t) /\ Return(t)
  /\ UNCHANGED <<exists, standby, active_out, active_in, route, codec, val>>

MutantIoDone(t) ==                   \* tries again with the mutex it has
  /\ pc[t] \in {"io", "backoff"}
  /\ IF pc[t] = "backoff" THEN Goto(t, "dev") /\ UNCHANGED <<lock, call>>
                          ELSE ReleaseStream(t) /\ Return(t)
  /\ UNCHANGED <<devLock, streamState, route, codec, val>>

(* The transfer, or the sleep after a failed start, is over.               *)
IoDone(t) ==
  /\ pc[t] \in {"io", "backoff"}
  /\ ReleaseStream(t)
  /\ Return(t)
  /\ UNCHANGED <<devLock, streamState, route, codec, val>>

-----------------------------------------------------------------------------

(* A step of a call already entered.                                       *)
Step(t) ==
  \/ LockDev(t) \/ StandbyCall(t) \/ Free(t)
  \/ IgnoreParams(t) \/ RouteParams(t) \/ OrientationParam(t)
  \/ SelectOut(t) \/ SelectIn(t) \/ Route(t) \/ Switch(t)
  \/ EnterIo(t) \/ StartStream(t) \/ Peer(t) \/ PeerClash(t) \/ PcmOpens(t)
  \/ PcmOpenFails(t) \/ IoDone(t)

InSwitch(t) == pc[t] \in EndSteps \cup StartSteps \cup {"playback"}

Overlap == \E t, u \in Threads : t # u /\ InSwitch(t) /\ InSwitch(u)

(* A switch has opened its nodes.                                          *)
Begins ==
  \E t \in Threads :
    \/ pc[t] = "end_dsp" /\ pc'[t] = "end_capture"
    \/ pc[t] = "start_dsp" /\ pc'[t] = "start_flag"

Races == raced' = (Overlap' \/ (raced /\ ~Begins))

Alive == \A t \in Threads : pc[t] # "segv"

Next ==
  /\ Alive
  /\ \/ \E s \in Streams : OpenStream(s)
     \/ \E t \in Threads : CallStream(t) \/ CallDevice(t) \/ Step(t)
  /\ Races

Spec == Init /\ [][Next]_vars

(* A thread inside the HAL keeps running, and a PCM transfer ends.  Nothing *)
(* is assumed of mutex hand-over (weak fairness only) nor of new calls.    *)
FairSpec == Spec /\ \A t \in Threads : WF_vars(Alive /\ Step(t) /\ Races)

-----------------------------------------------------------------------------
(* Properties.                                                             *)

Running(s) == ~standby[s]

InIo(s) == \E t \in Threads : pc[t] = "io" /\ str[t] = s

DataOK ==
  /\ devLock \in Threads \cup {NULL}
  /\ lock \in [Streams -> Threads \cup {NULL}]
  /\ devices \subseteq (OUT_ALL \cup IN_ALL) \ BIT_IN
  /\ val \subseteq (OUT_ALL \cup IN_ALL) \ BIT_IN
  /\ orientation \in Orientations
  /\ active_out \in Outs \cup {NULL}
  /\ active_in \in Ins \cup {NULL}
  /\ mixer \subseteq DOMAIN OutBits \cup MicPaths
  /\ isRecording \in BOOLEAN
  /\ capture \in {"unset", "input", "output"}
  /\ dsp \in {"unset", "start", "end", "playback"}
  /\ exists \in [Streams -> BOOLEAN]
  /\ standby \in [Streams -> BOOLEAN]
  /\ pcm \in [Streams -> Ports \cup {"none", "stale"}]
  /\ faults \subseteq {"dsp", "capture"} /\ raced \in BOOLEAN

(* Each stream call has a stream of its direction.                         *)
StreamsOf(o) ==
  IF o \in OutCalls THEN Outs ELSE IF o \in InCalls THEN Ins ELSE {NULL}

ControlOK ==
  /\ op \in [Threads -> DOMAIN Flow]
  /\ str \in [Threads -> Streams \cup {NULL}]
  /\ pc \in [Threads -> Positions]
  /\ \A t \in Threads : pc[t] \in Flow[op[t]] /\ str[t] \in StreamsOf(op[t])

(* Every variable has its type, every call is at a position of its own     *)
(* handler with a stream of its direction, and the input bit that          *)
(* in_set_parameters filters out of the routing value never reaches        *)
(* audio_device.devices.                                                   *)
TypeOK == DataOK /\ ControlOK

(* A thread in pcm_write or pcm_read uses an open PCM of a stream that is  *)
(* allocated and not on standby: no standby, routing change, start of the  *)
(* other direction or close pulls it away (lines 292-338, 719-841).        *)
IoOnOpenPcm ==
  \A t \in Threads :
    pc[t] = "io" => /\ exists[str[t]] /\ Running(str[t])
                    /\ pcm[str[t]] \in Ports

(* adev->active_out and adev->active_in, which a start of the other        *)
(* direction dereferences to take a mutex (378-379, 447-448), never point  *)
(* to a freed stream or one on standby.                                    *)
ActivePointersValid ==
  /\ active_out # NULL => exists[active_out] /\ Running(active_out)
  /\ active_in # NULL => exists[active_in] /\ Running(active_in)

(* With one stream in each direction the pointers miss no running stream,  *)
(* so the rate check of a start always sees its peer.                      *)
ActiveIffRunning ==
  /\ \A s \in Outs : Running(s) <=> active_out = s
  /\ \A s \in Ins : Running(s) <=> active_in = s

(* The inductive invariant.  Which mutexes a thread holds follows from its *)
(* position; NOTE 186-189 (device first, then stream) is part of it, as no *)
(* thread that holds only a stream mutex is about to take the device's.    *)
(* A start that dies after its peer's standby has that mutex as well.      *)
HoldsDev(t) ==
  \/ pc[t] \in {"locked", "select", "route", "peer", "segv", "open"}
               \cup StartSteps
  \/ op[t] # "close_in" /\ pc[t] \in EndSteps \cup {"playback"}

HoldsStream(t) ==
  \/ pc[t] \in {"peer", "segv", "open", "io", "backoff"}
  \/ op[t] = "out_write" /\ pc[t] \in EndSteps

OwnershipInv ==
  \A t \in Threads :
    /\ devLock = t <=> HoldsDev(t)
    /\ \A s \in Streams :
         /\ str[t] = s /\ HoldsStream(t) => lock[s] = t
         /\ lock[s] = t /\ pc[t] # "segv" => str[t] = s /\ HoldsStream(t)

(* A stream in use is allocated, and one that is closed has no other user. *)
CallsInv ==
  \A t \in Threads :
    /\ str[t] \in Streams => exists[str[t]]
    /\ op[t] \in CloseCalls => \A u \in Threads \ {t} : str[u] # str[t]

StreamInv ==
  /\ \A s \in Streams : Running(s) => exists[s] /\ pcm[s] \in Ports
  /\ \A t \in Threads :
       /\ HoldsDev(t) /\ HoldsStream(t) => standby[str[t]]
       /\ pc[t] = "free" => standby[str[t]]
       /\ pc[t] = "io" => Running(str[t])

(* Mutexes are held by the threads that took them and only they are inside *)
(* a stream; with it every state of a stream and the two active pointers   *)
(* follow from the positions of the threads.                               *)
IInv == /\ TypeOK /\ OwnershipInv /\ CallsInv /\ StreamInv
        /\ ActivePointersValid

(* isRecording is never set over a codec left in playback: once a switch   *)
(* is over, the flag means that the capture source is the input, even when *)
(* adev_close_input_stream switches without the device mutex (1300-1301)   *)
(* or a node does not open; only a capture ioctl without effect, whose     *)
(* result nobody looks at (208, 213), makes it lie.  The converse does not *)
(* hold: that race may leave the input selected with the flag cleared.     *)
RecordingFlagSound ==
  isRecording =>
    \/ capture = "input" \/ "capture" \in faults
    \/ \E t \in Threads :
         pc[t] \in {"end_capture", "end_flag", "start_flag", "start_capture"}

(* When no handler holds the device mutex the codec carries the paths of   *)
(* the current devices and orientation, of one direction and not of an     *)
(* earlier routing.                                                        *)
NoStaleRoute ==
  devLock = NULL =>
    mixer \in {{}, OutPaths(devices), InPaths(devices, orientation)}

(* A start gives the mutex of its peer back through the pointer by which   *)
(* it took it (379-385, 448-454): no stream starts over one of the other   *)
(* rate group, whose standby would clear that pointer.                     *)
PeerGivenBack == Alive

(* "If SCO or HDMI is turned on/off, we need to put audio into standby     *)
(* because they use a different PCM PORT" (656-658, 965-967): outside a    *)
(* handler, a running stream is on the port its devices select.            *)
PortFollowsRouting ==
  devLock = NULL => \A s \in Streams : Running(s) => pcm[s] = PortOf(s)

(* start_output_stream opens the PCM only after the recording mode ended   *)
(* (368-369): from its peer check on, isRecording is clear, whatever other *)
(* threads do meanwhile.                                                   *)
PlaybackStartsAfterRecording ==
  \A t \in Threads :
    op[t] = "out_write" /\ pc[t] \in {"peer", "open"} => ~isRecording

(* Between two switches isRecording, the capture source and the DSP mode   *)
(* agree, whatever went wrong before, as soon as one switch has run alone  *)
(* and without a fault: a race with adev_close_input_stream, a node that   *)
(* does not open and an ioctl without effect are all made good by the next *)
(* whole switch, and nothing else sets the three apart.                    *)
SwitchAgrees ==
  ~raced /\ faults = {} /\ (\A t \in Threads : pc[t] \notin EndSteps \cup StartSteps) =>
    /\ isRecording <=> capture = "input"
    /\ isRecording <=> dsp = "start"

(* The mixer is set up for the input by the routing and orientation        *)
(* handlers "because select_devices() will not be called when the input    *)
(* device is opened" (1164-1170): a step never takes the microphone path   *)
(* away from an input stream that keeps running.                           *)
CaptureKeepsMicPath ==
  [][ (\E s \in Ins : Running(s) /\ Running(s)')
        /\ mixer \cap MicPaths # {}
      => mixer' \cap MicPaths # {} ]_vars

(* The device mutex is taken "systematically" in out_write and in_read so  *)
(* that a thread that holds it and waits for a stream mutex is not starved *)
(* (721-726, 1005-1010): whoever holds it lets it go, though the mutexes   *)
(* are not fair.                                                           *)
HolderProgresses ==
  \A t \in Threads : devLock = t ~> devLock # t

(* The stream mutex t is about to take, or NULL: its own stream's, once it *)
(* holds the device's, or that of the peer of a start.                     *)
StandbyCalls == {"out_standby", "in_standby"} \cup CloseCalls

MovesPort(o) ==
  /\ o \in {"out_params", "in_params"} /\ ~Unchanged(o)
  /\ IF o = "out_params" THEN MovesOutPort(val) ELSE MovesInPort(val)

Wanted(t) ==
  IF pc[t] = "locked" /\ (op[t] \in StandbyCalls \cup IoCalls \/ MovesPort(op[t]))
  THEN str[t]
  ELSE IF pc[t] = "peer"
  THEN IF op[t] = "out_write" THEN active_in ELSE active_out
  ELSE NULL

(* The thread that has the mutex t is about to take.                       *)
WaitsFor(t, u) ==
  \/ pc[t] = "dev" /\ devLock = u
  \/ Wanted(t) # NULL /\ lock[Wanted(t)] = u

(* No deadlock: whoever waits, waits for a thread inside a call; at most   *)
(* the device mutex and then one stream mutex stand between it and a       *)
(* thread that waits for nothing (186-189, 447-456).                       *)
WaitsEnd ==
  \A t, u \in Threads :
    WaitsFor(t, u) =>
      /\ pc[u] # "idle"
      /\ \A v \in Threads :
           WaitsFor(u, v) => \A w \in Threads : ~WaitsFor(v, w)

(* The mutexes follow their discipline: the device's is taken first, and   *)
(* no stream mutex is taken by a thread that does not hold it (186-189);   *)
(* so none is taken from under a thread that holds the device mutex and    *)
(* waits for it (721-726).                                                 *)
Order == INSTANCE LockOrder WITH device <- devLock, stream <- lock

LockOrderSpec == Order!Spec

(* The streams implement PcmSession.                                       *)
Phase(s) ==
  IF ~exists[s] THEN "absent"
  ELSE IF standby[s] THEN "standby"
  ELSE IF InIo(s) THEN "busy" ELSE "open"

Session == INSTANCE PcmSession WITH phase <- [s \in Streams |-> Phase(s)]

(* Closing, standby and freeing happen only between transfers.             *)
PcmSessionSpec == Session!Spec
=============================================================================
