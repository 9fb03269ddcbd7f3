------------------------ MODULE AudioHalStreamProofs ------------------------
(***************************************************************************)
(* Theorems about the streams: AudioHal implements PcmSession; and, with   *)
(* at most one stream in each direction, the active pointers are complete, *)
(* ports follow the routing when the masks of the two directions share no  *)
(* bit.  The mutexes follow their order, which rules out deadlock; and who *)
(* holds the device mutex gives it back in a bounded number of steps.      *)
(***************************************************************************)
EXTENDS AudioHalProofs

-----------------------------------------------------------------------------
(* The refinement.                                                         *)

phases == [s \in Streams |-> Phase(s)]

LEMMA SamePhases ==
  ASSUME UNCHANGED <<exists, standby>>, \A s \in Streams : InIo(s)' <=> InIo(s)
  PROVE  UNCHANGED phases
  BY DEF phases, Phase

(* The abstract step that moves one stream.                                *)
LEMMA OnePhase ==
  ASSUME NEW s \in Streams, NEW from, NEW to,
         Phase(s) \in from, Phase(s)' = to,
         \A r \in Streams \ {s} : Phase(r)' = Phase(r)
  PROVE  Session!Become(s, from, to)
  BY DEF Session!Become, phases

(* A thread that neither enters nor leaves a transfer.                     *)
LEMMA SameIo ==
  ASSUME NEW t \in Threads, pc[t] # "io", pc'[t] # "io",
         \A u \in Threads \ {t} : pc'[u] = pc[u] /\ str'[u] = str[u]
  PROVE  \A s \in Streams : InIo(s)' <=> InIo(s)
  BY DEF InIo

LEMMA IdleNotInIo ==
  ASSUME IInv, NEW s \in Streams, StreamIdle(s) PROVE ~InIo(s)
  BY NullIsNoThread DEF IInv, OwnershipInv, HoldsStream, InIo, StreamIdle

LEMMA ParkStep ==
  ASSUME IInv, NEW s \in Streams, StreamIdle(s), DoStandby(s),
         \A r \in Streams : InIo(r)' <=> InIo(r)
  PROVE  Session!Park(s) \/ UNCHANGED phases
<1>1. exists' = exists /\ standby' = [standby EXCEPT ![s] = TRUE]
      BY DEF DoStandby
<1>2. CASE standby[s]
      BY <1>1, <1>2, SamePhases DEF IInv, TypeOK, DataOK
<1>3. CASE ~standby[s]
  <2>1. exists[s] /\ ~InIo(s)
        BY <1>3, IdleNotInIo DEF IInv, StreamInv, Running
  <2>2. Phase(s) = "open" /\ Phase(s)' = "standby"
        BY <1>1, <1>3, <2>1 DEF Phase, IInv, TypeOK, DataOK
  <2>3. \A r \in Streams \ {s} : Phase(r)' = Phase(r)
        BY <1>1 DEF Phase, IInv, TypeOK, DataOK
  <2> QED
      BY <2>2, <2>3, OnePhase DEF Session!Park
<1> QED
    BY <1>2, <1>3

(* Where a transfer begins: the stream was open or on standby.             *)
LEMMA TransferStep ==
  ASSUME IInv, NEW t \in Threads, str[t] \in Streams, exists[str[t]], ~InIo(str[t]),
         exists' = exists, standby' = [standby EXCEPT ![str[t]] = FALSE],
         str' = str, pc' = [pc EXCEPT ![t] = "io"]
  PROVE  Session!Transfer(str[t])
<1>0. PICK s \in Streams : s = str[t]
      OBVIOUS
<1>1. Phase(s) \in {"standby", "open"}
      BY <1>0 DEF Phase
<1>2. InIo(s)'
      BY <1>0 DEF InIo, IInv, TypeOK, ControlOK
<1>3. \A r \in Streams \ {s} : InIo(r)' <=> InIo(r)
      BY <1>0 DEF InIo, IInv, TypeOK, ControlOK
<1>4. \A r \in Streams \ {s} : Phase(r)' = Phase(r)
      BY <1>0, <1>3 DEF Phase, IInv, TypeOK, DataOK
<1>5. Phase(s)' = "busy"
      BY <1>0, <1>2 DEF Phase, IInv, TypeOK, DataOK
<1>6. Session!Become(s, {"standby", "open"}, "busy")
      BY <1>1, <1>4, <1>5, OnePhase
<1> QED
    BY <1>0, <1>6 DEF Session!Transfer

(* Where it ends: no other thread transfers on the stream.                 *)
LEMMA FinishStep ==
  ASSUME IInv, NEW t \in Threads, pc[t] = "io", IoDone(t)
  PROVE  str[t] \in Streams /\ Session!Finish(str[t])
<1>0. str[t] \in Streams
      BY CallStreams, FlowValues
      DEF IInv, TypeOK, ControlOK, Calls, OutCalls, InCalls, EndSteps, StartSteps
<1>1. PICK s \in Streams : s = str[t]
      BY <1>0
<1>2. exists[s] /\ ~standby[s] /\ HoldsStream(t)
      BY <1>1 DEF IInv, StreamInv, Running, HoldsStream
<1>3. \A u \in Threads \ {t} : ~(pc[u] = "io" /\ str[u] = s)
      BY <1>1, <1>2 DEF IInv, OwnershipInv, HoldsStream
<1>4. /\ exists' = exists /\ standby' = standby
      /\ pc' = [pc EXCEPT ![t] = "idle"] /\ str' = [str EXCEPT ![t] = NULL]
      BY DEF IoDone, Return, Goto, streamState
<1>5. Phase(s) = "busy"
      BY <1>1, <1>2 DEF Phase, InIo
<1>6. Phase(s)' = "open"
      BY <1>2, <1>3, <1>4 DEF Phase, InIo, IInv, TypeOK, ControlOK
<1>7. \A r \in Streams \ {s} : Phase(r)' = Phase(r)
      BY <1>1, <1>4, NullIsNoStream DEF Phase, InIo, IInv, TypeOK, ControlOK
<1>8. Session!Become(s, {"busy"}, "open")
      BY <1>5, <1>6, <1>7, OnePhase
<1> QED
    BY <1>0, <1>1, <1>8 DEF Session!Finish

LEMMA RefinementStep ==
  ASSUME IInv, [Next]_vars PROVE Session!Next \/ UNCHANGED phases
<1> USE DEF locks, streamState, call, Goto, Return
<1>1. ASSUME NEW s \in Streams, OpenStream(s) PROVE Session!Create(s)
  <2>1. \A r \in Streams : InIo(r)' <=> InIo(r)
        BY <1>1 DEF OpenStream, InIo
  <2>2. Phase(s) = "absent" /\ Phase(s)' = "standby"
        BY <1>1 DEF OpenStream, Phase, IInv, TypeOK, DataOK
  <2>3. \A r \in Streams \ {s} : Phase(r)' = Phase(r)
        BY <1>1, <2>1 DEF OpenStream, Phase, IInv, TypeOK, DataOK
  <2> QED
      BY <2>2, <2>3, OnePhase DEF Session!Create
<1>2. ASSUME NEW t \in Threads, CallStream(t) \/ CallDevice(t)
      PROVE  UNCHANGED phases
  <2>1. \A s \in Streams : InIo(s)' <=> InIo(s)
        BY <1>2, SameIo DEF CallStream, CallDevice, Enter, IInv, TypeOK, ControlOK
  <2> QED
      BY <1>2, <2>1, SamePhases DEF CallStream, CallDevice, Enter
<1>3. ASSUME NEW t \in Threads, Step(t)
      PROVE  Session!Next \/ UNCHANGED phases
  <2> USE DEF IInv, TypeOK, ControlOK
  <2>1. CASE \/ LockDev(t) \/ IgnoreParams(t) \/ OrientationParam(t) \/ SelectOut(t)
             \/ SelectIn(t) \/ Route(t) \/ StartStream(t) \/ Peer(t) \/ PcmOpenFails(t)
    <3>1. \A s \in Streams : InIo(s)' <=> InIo(s)
          BY <2>1, SameIo
          DEF LockDev, IgnoreParams, OrientationParam, SelectOut, SelectIn, Route,
              StartStream, Peer, PcmOpenFails
    <3> QED
        BY <2>1, <3>1, SamePhases
        DEF LockDev, IgnoreParams, OrientationParam, SelectOut, SelectIn, Route,
            StartStream, Peer, PcmOpenFails
  <2>2. CASE Switch(t)
    <3>1. \A s \in Streams : InIo(s)' <=> InIo(s)
          BY <2>2, SameIo
          DEF Switch, EndDsp, EndCapture, EndFlag, Playback, StartDsp, StartFlag,
              StartCapture, AfterEnd, AfterPlayback
    <3> QED
        BY <2>2, <3>1, SamePhases
        DEF Switch, EndDsp, EndCapture, EndFlag, Playback, StartDsp, StartFlag,
            StartCapture
  <2>3. CASE StandbyCall(t)
    <3>1. str[t] \in Streams
          BY <2>3, CallStreams DEF StandbyCall, CloseCalls, OutCalls, InCalls
    <3>2. \A s \in Streams : InIo(s)' <=> InIo(s)
          BY <2>3, SameIo DEF StandbyCall
    <3> QED
        BY <2>3, <3>1, <3>2, ParkStep DEF StandbyCall, Session!Next
  <2>4. CASE Free(t)
    <3>1. op[t] \in CloseCalls
          BY <2>4, FlowValues DEF Free, Calls, CloseCalls, EndSteps, StartSteps
    <3>2. str[t] \in Streams
          BY <3>1, CallStreams DEF CloseCalls, OutCalls, InCalls
    <3>3. PICK s \in Streams : s = str[t]
          BY <3>2
    <3>4. standby[s] /\ exists[s]
          BY <2>4, <3>3 DEF Free, StreamInv, CallsInv
    <3>5. \A r \in Streams : InIo(r)' <=> InIo(r)
          BY <2>4, SameIo DEF Free
    <3>6. exists' = [exists EXCEPT ![s] = FALSE] /\ standby' = standby
          BY <2>4, <3>3 DEF Free
    <3>7. Phase(s) = "standby" /\ Phase(s)' = "absent"
          BY <3>4, <3>6 DEF Phase, DataOK
    <3>8. \A r \in Streams \ {s} : Phase(r)' = Phase(r)
          BY <3>5, <3>6 DEF Phase, DataOK
    <3>9. Session!Become(s, {"standby"}, "absent")
          BY <3>7, <3>8, OnePhase
    <3> QED
        BY <3>9 DEF Session!Next, Session!Destroy
  <2>5. CASE RouteParams(t)
    <3>1. str[t] \in Streams
          BY <2>5, CallStreams DEF RouteParams, OutCalls, InCalls
    <3>2. \A s \in Streams : InIo(s)' <=> InIo(s)
          BY <2>5, SameIo DEF RouteParams
    <3>3. UNCHANGED streamState \/ (StreamIdle(str[t]) /\ DoStandby(str[t]))
          BY <2>5 DEF RouteParams
    <3> QED
        BY <3>1, <3>2, <3>3, ParkStep, SamePhases DEF Session!Next
  <2>6. CASE PeerClash(t)
    <3>1. \A s \in Streams : InIo(s)' <=> InIo(s)
          BY <2>6, SameIo DEF PeerClash
    <3>2. PICK s \in Streams : s = PeerOf(t)
          BY <2>6 DEF PeerClash, Clashes, PeerOf, DataOK, Streams
    <3>3. StreamIdle(s) /\ DoStandby(s)
          BY <2>6, <3>2 DEF PeerClash
    <3> QED
        BY <3>1, <3>3, ParkStep DEF Session!Next
  <2>7. CASE EnterIo(t)
    <3>1. str[t] \in Streams
          BY <2>7, CallStreams DEF EnterIo, IoCalls, OutCalls, InCalls
    <3>2. exists[str[t]] /\ ~InIo(str[t])
          BY <2>7, <3>1, IdleNotInIo DEF EnterIo, CallsInv
    <3>3. /\ exists' = exists /\ standby' = [standby EXCEPT ![str[t]] = FALSE]
          /\ str' = str /\ pc' = [pc EXCEPT ![t] = "io"]
          BY <2>7, <3>1 DEF EnterIo, DataOK
    <3>4. Session!Transfer(str[t])
          BY <3>1, <3>2, <3>3, TransferStep
    <3> QED
        BY <3>1, <3>4 DEF Session!Next
  <2>8. CASE PcmOpens(t)
    <3>1. str[t] \in Streams /\ HoldsStream(t)
          BY <2>8, CallStreams, FlowValues
          DEF PcmOpens, Calls, OutCalls, InCalls, HoldsStream, EndSteps, StartSteps
    <3>2. exists[str[t]] /\ ~InIo(str[t])
          BY <2>8, <3>1 DEF PcmOpens, CallsInv, OwnershipInv, HoldsStream, InIo
    <3>3. /\ exists' = exists /\ standby' = [standby EXCEPT ![str[t]] = FALSE]
          /\ str' = str /\ pc' = [pc EXCEPT ![t] = "io"]
          BY <2>8 DEF PcmOpens
    <3>4. Session!Transfer(str[t])
          BY <3>1, <3>2, <3>3, TransferStep
    <3> QED
        BY <3>1, <3>4 DEF Session!Next
  <2>9. CASE IoDone(t)
    <3>1. CASE pc[t] = "io"
          BY <2>9, <3>1, FinishStep DEF Session!Next
    <3>2. CASE pc[t] = "backoff"
      <4>1. \A s \in Streams : InIo(s)' <=> InIo(s)
            BY <2>9, <3>2, SameIo DEF IoDone
      <4> QED
          BY <2>9, <4>1, SamePhases DEF IoDone
    <3> QED
        BY <2>9, <3>1, <3>2 DEF IoDone
  <2> QED
      BY <1>3, <2>1, <2>2, <2>3, <2>4, <2>5, <2>6, <2>7, <2>8, <2>9 DEF Step
<1>4. CASE UNCHANGED vars
  <2>1. \A s \in Streams : InIo(s)' <=> InIo(s)
        BY <1>4 DEF vars, InIo
  <2> QED
      BY <1>4, <2>1, SamePhases DEF vars
<1> QED
    BY <1>1, <1>2, <1>3, <1>4 DEF Next, Session!Next

(* The HAL implements PcmSession: whatever the interleaving, a PCM closes  *)
(* only between transfers and a stream is freed only on standby.           *)
THEOREM SessionRefinement == Spec => PcmSessionSpec
<1>1. Init => Session!Init
      BY DEF Init, Session!Init, Phase
<1>2. IInv /\ [Next]_vars => [Session!Next]_phases
      BY RefinementStep
<1> QED
    BY <1>1, <1>2, Invariance, PTL DEF Spec, PcmSessionSpec, Session!Spec, phases

-----------------------------------------------------------------------------
(* One stream in each direction, as audio_policy.conf's primary output has. *)

Single == /\ \A r, s \in Outs : r = s
          /\ \A r, s \in Ins : r = s

LEMMA ActiveNext ==
  ASSUME Single
  PROVE  IInv /\ ActiveIffRunning /\ [Next]_vars => ActiveIffRunning'
<1> SUFFICES ASSUME IInv, ActiveIffRunning, [Next]_vars PROVE ActiveIffRunning'
    OBVIOUS
<1> USE NullIsNoStream, StreamsAssumption
    DEF IInv, TypeOK, DataOK, ActiveIffRunning, Running, streamState, Streams
<1>1. ASSUME NEW s \in Streams, DoStandby(s) PROVE ActiveIffRunning'
  <2>1. CASE standby[s]
        BY <1>1, <2>1 DEF DoStandby
  <2>2. CASE ~standby[s] /\ s \in Outs
        BY <1>1, <2>2 DEF DoStandby, Single
  <2>3. CASE ~standby[s] /\ s \in Ins
        BY <1>1, <2>3 DEF DoStandby, Single
  <2> QED
      BY <2>1, <2>2, <2>3
<1>2. ASSUME UNCHANGED streamState PROVE ActiveIffRunning'
      BY <1>2
<1>3. ASSUME NEW s \in Streams, OpenStream(s) PROVE ActiveIffRunning'
  <2>1. standby[s]
        BY <1>3 DEF OpenStream, StreamInv
  <2> QED
      BY <1>3, <2>1 DEF OpenStream
<1>4. ASSUME NEW t \in Threads, CallStream(t) \/ CallDevice(t)
      PROVE  ActiveIffRunning'
      BY <1>2, <1>4 DEF CallStream, CallDevice, Enter
<1>5. ASSUME NEW t \in Threads, Step(t) PROVE ActiveIffRunning'
  <2>1. CASE \/ LockDev(t) \/ IgnoreParams(t) \/ OrientationParam(t) \/ SelectOut(t)
             \/ SelectIn(t) \/ Route(t) \/ StartStream(t) \/ EnterIo(t) \/ IoDone(t)
        BY <1>2, <2>1
        DEF LockDev, IgnoreParams, OrientationParam, SelectOut, SelectIn, Route,
            StartStream, EnterIo, IoDone
  <2>2. CASE Switch(t)
        BY <1>2, <2>2
        DEF Switch, EndDsp, EndCapture, EndFlag, Playback, StartDsp, StartFlag,
            StartCapture
  <2>3. CASE StandbyCall(t)
        BY <1>1, <2>3, CallStreams DEF StandbyCall, CloseCalls, OutCalls, InCalls
  <2>4. CASE RouteParams(t)
        BY <1>1, <1>2, <2>4, CallStreams DEF RouteParams, OutCalls, InCalls
  <2>5. CASE Peer(t) \/ PeerClash(t)
        BY <1>1, <1>2, <2>5 DEF Peer, PeerClash, Clashes, PeerOf
  <2>6. CASE Free(t) \/ PcmOpenFails(t)
        BY <2>6 DEF Free, PcmOpenFails
  <2>7. CASE PcmOpens(t)
    <3>1. str[t] \in Streams
          BY <2>7, CallStreams, FlowValues
          DEF PcmOpens, ControlOK, Calls, OutCalls, InCalls, EndSteps, StartSteps
    <3> QED
        BY <2>7, <3>1 DEF PcmOpens, Single
  <2> QED
      BY <1>5, <2>1, <2>2, <2>3, <2>4, <2>5, <2>6, <2>7 DEF Step
<1>6. CASE UNCHANGED vars
      BY <1>6 DEF vars
<1> QED
    BY <1>3, <1>4, <1>5, <1>6 DEF Next

(* The pointers name exactly the running streams, so a start's rate check  *)
(* misses none.                                                            *)
THEOREM ActiveCompleteness == ASSUME Single PROVE Spec => []ActiveIffRunning
<1>1. Init => ActiveIffRunning
      BY NullIsNoStream DEF Init, ActiveIffRunning, Running, Streams
<1> QED
    BY <1>1, ActiveNext, Invariance, PTL DEF Spec

-----------------------------------------------------------------------------
(* Ports follow the routing when no bit serves both directions.            *)

(* The routing value held under the device mutex is one the call may carry. *)
RoutingInv == \A t \in Threads : pc[t] = "locked" => val \in RoutingOf(op[t])

LEMMA RoutingNext == IInv /\ RoutingInv /\ [Next]_vars => RoutingInv'
<1> SUFFICES ASSUME IInv, RoutingInv, [Next]_vars PROVE RoutingInv'
    OBVIOUS
<1> USE DEF RoutingInv, IInv, TypeOK, ControlOK, call, Goto, Return
<1>1. ASSUME NEW s \in Streams, OpenStream(s) PROVE RoutingInv'
      BY <1>1 DEF OpenStream
<1>2. ASSUME NEW t \in Threads, CallStream(t) \/ CallDevice(t) PROVE RoutingInv'
      BY <1>2 DEF CallStream, CallDevice, Enter
<1>3. ASSUME NEW t \in Threads, Step(t) PROVE RoutingInv'
  <2>1. CASE LockDev(t)
    <3>1. \A u \in Threads \ {t} : pc[u] # "locked"
          BY <2>1, NullIsNoThread DEF LockDev, OwnershipInv, HoldsDev
    <3> QED
        BY <2>1, <3>1 DEF LockDev
  <2>2. CASE \/ StandbyCall(t) \/ Free(t) \/ IgnoreParams(t) \/ RouteParams(t)
             \/ OrientationParam(t) \/ SelectOut(t) \/ SelectIn(t) \/ Route(t)
             \/ EnterIo(t) \/ StartStream(t) \/ Peer(t) \/ PeerClash(t)
             \/ PcmOpens(t) \/ PcmOpenFails(t) \/ IoDone(t)
    <3>1. ASSUME val' # val PROVE \A u \in Threads \ {t} : pc[u] # "locked"
          BY <2>2, <3>1
          DEF StandbyCall, Free, IgnoreParams, RouteParams, OrientationParam, SelectOut,
              SelectIn, Route, EnterIo, StartStream, Peer, PeerClash, PcmOpens,
              PcmOpenFails, IoDone, OwnershipInv, HoldsDev
    <3>2. pc'[t] # "locked" /\ \A u \in Threads \ {t} : pc'[u] = pc[u] /\ op'[u] = op[u]
          BY <2>2
          DEF StandbyCall, Free, IgnoreParams, RouteParams, OrientationParam, SelectOut,
              SelectIn, Route, EnterIo, StartStream, Peer, PeerClash, PcmOpens,
              PcmOpenFails, IoDone
    <3> QED
        BY <3>1, <3>2
  <2>3. CASE Switch(t)
        BY <2>3
        DEF Switch, EndDsp, EndCapture, EndFlag, Playback, StartDsp, StartFlag,
            StartCapture, AfterEnd, AfterPlayback
  <2> QED
      BY <1>3, <2>1, <2>2, <2>3 DEF Step
<1>4. CASE UNCHANGED vars
      BY <1>4 DEF vars
<1> QED
    BY <1>1, <1>2, <1>3, <1>4 DEF Next

PortInv == \A s \in Streams : Running(s) => pcm[s] = PortOf(s)

LEMMA PortNext ==
  ASSUME Single, OUT_ALL \cap IN_ALL = {}
  PROVE  IInv /\ RoutingInv /\ PortInv /\ [Next]_vars => PortInv'
<1> SUFFICES ASSUME IInv, RoutingInv, PortInv, [Next]_vars PROVE PortInv'
    OBVIOUS
<1> USE DEF IInv, TypeOK, DataOK, streamState, route
<1>1. ASSUME NEW s \in Streams, DoStandby(s), devices' = devices PROVE PortInv'
      BY <1>1 DEF DoStandby, PortInv, Running, PortOf
<1>2. ASSUME UNCHANGED streamState, devices' = devices PROVE PortInv'
      BY <1>2 DEF PortInv, Running, PortOf
<1>3. ASSUME NEW s \in Streams, OpenStream(s) PROVE PortInv'
      BY <1>3 DEF OpenStream, PortInv, Running, PortOf
<1>4. ASSUME NEW t \in Threads, CallStream(t) \/ CallDevice(t) PROVE PortInv'
      BY <1>2, <1>4 DEF CallStream, CallDevice, Enter
<1>5. ASSUME NEW t \in Threads, Step(t) PROVE PortInv'
  <2>1. CASE \/ LockDev(t) \/ IgnoreParams(t) \/ OrientationParam(t) \/ SelectOut(t)
             \/ SelectIn(t) \/ Route(t) \/ StartStream(t) \/ EnterIo(t) \/ IoDone(t)
        BY <1>2, <2>1
        DEF LockDev, IgnoreParams, OrientationParam, SelectOut, SelectIn, Route,
            StartStream, EnterIo, IoDone
  <2>2. CASE Switch(t)
        BY <1>2, <2>2
        DEF Switch, EndDsp, EndCapture, EndFlag, Playback, StartDsp, StartFlag,
            StartCapture
  <2>3. CASE StandbyCall(t)
        BY <1>1, <2>3, CallStreams DEF StandbyCall, CloseCalls, OutCalls, InCalls
  <2>4. CASE RouteParams(t) /\ op[t] = "out_params"
    <3>1. str[t] \in Outs /\ Outs \cap Ins = {}
          BY <2>4, StreamsAssumption DEF ControlOK, StreamsOf, OutCalls
    <3>2. val \subseteq OUT_ALL
          BY <2>4, MaskAssumption DEF RouteParams, RoutingInv, RoutingOf
    <3>3. devices' = (devices \ OUT_ALL) \cup val
          BY <2>4 DEF RouteParams, Mask
    <3>4. InPort(devices') = InPort(devices)
          BY <3>2, <3>3, MaskAssumption DEF InPort
    <3>5. CASE MovesOutPort(val)
          BY <2>4, <3>1, <3>4, <3>5
          DEF RouteParams, DoStandby, Single, PortInv, Running, PortOf, Streams
    <3>6. CASE ~MovesOutPort(val)
      <4>1. OutPort(devices') = OutPort(devices)
            BY <3>3, <3>6, MaskAssumption DEF MovesOutPort, Differ, OutPort
      <4> QED
          BY <2>4, <3>4, <3>6, <4>1 DEF RouteParams, PortInv, Running, PortOf
    <3> QED
        BY <3>5, <3>6
  <2>5. CASE RouteParams(t) /\ op[t] = "in_params"
    <3>1. str[t] \in Ins /\ Outs \cap Ins = {}
          BY <2>5, StreamsAssumption DEF ControlOK, StreamsOf, OutCalls, InCalls
    <3>2. val \subseteq IN_ALL
          BY <2>5, MaskAssumption DEF RouteParams, RoutingInv, RoutingOf, RoutedIn
    <3>3. devices' = (devices \ IN_ALL) \cup val
          BY <2>5 DEF RouteParams, Mask
    <3>4. OutPort(devices') = OutPort(devices)
          BY <3>2, <3>3, MaskAssumption DEF OutPort
    <3>5. CASE MovesInPort(val)
          BY <2>5, <3>1, <3>4, <3>5
          DEF RouteParams, DoStandby, Single, PortInv, Running, PortOf, Streams
    <3>6. CASE ~MovesInPort(val)
      <4>1. InPort(devices') = InPort(devices)
            BY <3>3, <3>6, MaskAssumption DEF MovesInPort, Differ, InPort
      <4> QED
          BY <2>5, <3>4, <3>6, <4>1 DEF RouteParams, PortInv, Running, PortOf
    <3> QED
        BY <3>5, <3>6
  <2>6. CASE Peer(t) \/ PeerClash(t)
        BY <1>1, <1>2, <2>6 DEF Peer, PeerClash, Clashes, PeerOf, Streams
  <2>7. CASE Free(t) \/ PcmOpenFails(t)
    <3>1. \A s \in Streams : ~standby'[s] => ~standby[s] /\ pcm'[s] = pcm[s]
      <4>1. PcmOpenFails(t) => standby[str[t]]
            BY DEF PcmOpenFails, StreamInv, ControlOK, HoldsDev, HoldsStream
      <4> QED
          BY <2>7, <4>1 DEF Free, PcmOpenFails
    <3> QED
        BY <2>7, <3>1 DEF Free, PcmOpenFails, PortInv, Running, PortOf
  <2>8. CASE PcmOpens(t)
        BY <2>8 DEF PcmOpens, PortInv, Running, PortOf
  <2> QED
      BY <1>5, <2>1, <2>2, <2>3, <2>4, <2>5, <2>6, <2>7, <2>8 DEF Step, RouteParams
<1>6. CASE UNCHANGED vars
      BY <1>2, <1>6 DEF vars
<1> QED
    BY <1>3, <1>4, <1>5, <1>6 DEF Next

(* The standby the handlers do on a change of SCO or HDMI is enough when   *)
(* the masks of the two directions are disjoint.  On Android 4.2 they are  *)
(* not, and the property fails there.                                      *)
THEOREM PortsFollow ==
  ASSUME Single, OUT_ALL \cap IN_ALL = {}
  PROVE  Spec => []PortFollowsRouting
<1>1. Init => RoutingInv /\ PortInv
      BY DEF Init, RoutingInv, PortInv, Running
<1>2. PortInv => PortFollowsRouting
      BY DEF PortInv, PortFollowsRouting
<1>3. Spec => []PortInv
      BY <1>1, RoutingNext, PortNext, Invariance, PTL DEF Spec
<1> QED
    BY <1>2, <1>3, PTL

-----------------------------------------------------------------------------
(* The mutexes: their discipline, who waits for whom, and how far a holder *)
(* of the device mutex has to go.                                          *)

(* A holder of a stream mutex is in a call on that stream.                 *)
LEMMA HolderStreams ==
  ASSUME ControlOK, NEW t \in Threads, HoldsStream(t)
  PROVE  str[t] \in Streams
  BY CallStreams, FlowValues
  DEF ControlOK, HoldsStream, Calls, OutCalls, InCalls, EndSteps, StartSteps

(* A step of a call takes and gives mutexes as LockOrder does.             *)
LEMMA OrderStep ==
  ASSUME IInv, NEW t \in Threads, Step(t)
  PROVE  Order!Next \/ UNCHANGED Order!vars
<1> USE DEF IInv, TypeOK, ControlOK, Order!vars
<1>1. HoldsDev(t) => devLock = t
      BY DEF OwnershipInv
<1>2. HoldsStream(t) => str[t] \in Streams /\ lock[str[t]] = t
      BY HolderStreams DEF OwnershipInv
<1>3. CASE LockDev(t)
  <2>1. ~HoldsStream(t)
        BY <1>3 DEF LockDev, HoldsStream, EndSteps
  <2>2. Order!TakeDevice(t)
        BY <1>3, <2>1 DEF LockDev, OwnershipInv, Order!TakeDevice
  <2> QED
      BY <2>2 DEF Order!Next
<1>4. CASE StandbyCall(t) \/ IgnoreParams(t) \/ Route(t) \/ PcmOpens(t)
  <2>1. HoldsDev(t) /\ devLock' = NULL /\ UNCHANGED lock
        BY <1>4
        DEF StandbyCall, IgnoreParams, Route, PcmOpens, ReleaseDev, HoldsDev
  <2>2. Order!ReleaseDevice(t)
        BY <1>1, <2>1 DEF Order!ReleaseDevice, Order!GiveDevice
  <2> QED
      BY <2>2 DEF Order!Next
<1>5. CASE EnterIo(t) \/ StartStream(t)
  <2>1. HoldsDev(t) /\ op[t] \in OutCalls \cup InCalls
        BY <1>5 DEF EnterIo, StartStream, HoldsDev, IoCalls, OutCalls, InCalls
  <2>2. str[t] \in Streams
        BY <2>1, CallStreams
  <2>3. /\ lock[str[t]] = NULL /\ lock' = [lock EXCEPT ![str[t]] = t]
        /\ devLock' = devLock \/ devLock' = NULL
        BY <1>5
        DEF EnterIo, StartStream, StreamIdle, HoldStream, ReleaseDev
  <2>4. Order!TakeStream(t, str[t])
        BY <1>1, <2>1, <2>3 DEF Order!TakeStream, Order!GiveDevice
  <2> QED
      BY <2>2, <2>4 DEF Order!Next
<1>6. CASE PcmOpenFails(t) /\ op[t] = "in_read"
  <2>1. Order!ReleaseDevice(t)
        BY <1>1, <1>6
        DEF PcmOpenFails, ReleaseDev, HoldsDev, Order!ReleaseDevice, Order!GiveDevice
  <2> QED
      BY <2>1 DEF Order!Next
<1>7. CASE (PcmOpenFails(t) /\ op[t] # "in_read") \/ IoDone(t)
  <2>1. CASE PcmOpenFails(t) /\ op[t] # "in_read"
    <3>1. /\ HoldsStream(t) /\ HoldsDev(t) /\ devLock' = NULL
          /\ lock' = [lock EXCEPT ![str[t]] = NULL]
          BY <2>1 DEF PcmOpenFails, ReleaseDev, ReleaseStream, HoldsStream, HoldsDev
    <3>2. Order!ReleaseStream(t, str[t])
          BY <1>1, <1>2, <3>1 DEF Order!ReleaseStream, Order!GiveDevice
    <3> QED
        BY <1>2, <3>1, <3>2 DEF Order!Next
  <2>2. CASE IoDone(t)
    <3>1. /\ HoldsStream(t) /\ devLock' = devLock
          /\ lock' = [lock EXCEPT ![str[t]] = NULL]
          BY <2>2 DEF IoDone, ReleaseStream, HoldsStream
    <3>2. Order!ReleaseStream(t, str[t])
          BY <1>2, <3>1 DEF Order!ReleaseStream
    <3> QED
        BY <1>2, <3>1, <3>2 DEF Order!Next
  <2> QED
      BY <1>7, <2>1, <2>2
<1>8. CASE \/ Free(t) \/ RouteParams(t) \/ OrientationParam(t) \/ SelectOut(t)
           \/ SelectIn(t) \/ Switch(t) \/ Peer(t)
      BY <1>8
      DEF Free, RouteParams, OrientationParam, SelectOut, SelectIn, Peer, locks, Switch,
          EndDsp, EndCapture, EndFlag, Playback, StartDsp, StartFlag, StartCapture
<1>9. CASE PeerClash(t)
  <2>1. PICK s \in Streams : s = PeerOf(t)
        BY <1>9 DEF PeerClash, Clashes, PeerOf, DataOK, Streams
  <2>2. HoldsDev(t) /\ lock[s] = NULL /\ lock' = [lock EXCEPT ![s] = t]
        /\ devLock' = devLock
        BY <1>9, <2>1 DEF PeerClash, HoldsDev, StreamIdle
  <2>3. Order!TakeStream(t, s)
        BY <1>1, <2>2 DEF Order!TakeStream
  <2> QED
      BY <2>3 DEF Order!Next
<1> QED
    BY <1>3, <1>4, <1>5, <1>6, <1>7, <1>8, <1>9 DEF Step

LEMMA OrderNext == IInv /\ [Next]_vars => [Order!Next]_(Order!vars)
<1> SUFFICES ASSUME IInv, [Next]_vars PROVE Order!Next \/ UNCHANGED Order!vars
    OBVIOUS
<1> USE DEF Order!vars, locks
<1>1. ASSUME NEW s \in Streams, OpenStream(s) PROVE UNCHANGED Order!vars
      BY <1>1 DEF OpenStream
<1>2. ASSUME NEW t \in Threads, CallStream(t) \/ CallDevice(t)
      PROVE  UNCHANGED Order!vars
      BY <1>2 DEF CallStream, CallDevice, Enter
<1>3. CASE UNCHANGED vars
      BY <1>3 DEF vars
<1> QED
    BY <1>1, <1>2, <1>3, OrderStep DEF Next

(* The mutexes of the HAL follow the NOTE on their order in every call:    *)
(* the device's first, a stream's only by a thread that holds it, and each *)
(* given back by its holder.                                               *)
THEOREM MutexOrder == Spec => LockOrderSpec
<1>1. Init => Order!Init
      BY DEF Init, Order!Init
<1> QED
    BY <1>1, OrderNext, Invariance, PTL DEF Spec, LockOrderSpec, Order!Spec

(* A thread that keeps the device mutex is not overtaken: meanwhile no     *)
(* other thread takes a stream mutex, so the one it waits for, once free,  *)
(* stays free for it (the reason given at lines 721-726).                  *)
NotOvertaken ==
  [][ \A t \in Threads :
        devLock = t /\ devLock' = t =>
          \A s \in Streams : lock'[s] \in {lock[s], NULL, t} ]_vars

(* Whoever holds the device mutex gets a stream mutex before anyone else.  *)
THEOREM HolderFirst == Spec => NotOvertaken
<1>1. ASSUME IInv, [Next]_vars, NEW t \in Threads, devLock = t, devLock' = t,
             NEW s \in Streams
      PROVE  lock'[s] \in {lock[s], NULL, t}
  <2>1. lock \in [Streams -> Threads \cup {NULL}]
        BY <1>1 DEF IInv, TypeOK, DataOK
  <2>2. CASE UNCHANGED Order!vars
        BY <2>2 DEF Order!vars
  <2>3. ASSUME NEW u \in Threads, NEW r \in Streams,
               Order!TakeStream(u, r) \/ Order!ReleaseStream(u, r)
        PROVE  lock'[s] \in {lock[s], NULL, t}
        BY <1>1, <2>1, <2>3 DEF Order!TakeStream, Order!ReleaseStream
  <2>4. ASSUME NEW u \in Threads, Order!TakeDevice(u) \/ Order!ReleaseDevice(u)
        PROVE  lock'[s] \in {lock[s], NULL, t}
        BY <2>4 DEF Order!TakeDevice, Order!ReleaseDevice
  <2> QED
      BY <1>1, <2>2, <2>3, <2>4, OrderNext DEF Order!Next
<1>2. IInv /\ [Next]_vars =>
        [\A t \in Threads :
           devLock = t /\ devLock' = t =>
             \A s \in Streams : lock'[s] \in {lock[s], NULL, t}]_vars
      BY <1>1
<1> QED
    BY <1>2, Invariance, PTL DEF Spec, NotOvertaken

(* A stream mutex that a thread is about to take is held, if at all, by a  *)
(* thread in a transfer or in the sleep after a failed start.              *)
LEMMA WantedIsInIo ==
  ASSUME IInv, NEW t \in Threads, NEW u \in Threads,
         Wanted(t) # NULL, lock[Wanted(t)] = u
  PROVE  pc[u] \in {"io", "backoff"}
<1> USE DEF IInv, TypeOK, ControlOK
<1>1. HoldsDev(t)
      BY DEF Wanted, HoldsDev
<1>2. Wanted(t) \in Streams /\ (HoldsStream(t) => Wanted(t) # str[t])
  <2>1. CASE pc[t] = "peer"
    <3>1. op[t] \in {"out_write", "in_read"}
          BY <2>1, FlowValues DEF Calls, EndSteps, StartSteps
    <3>2. /\ op[t] = "out_write" => str[t] \in Outs /\ Wanted(t) = active_in
          /\ op[t] = "in_read" => str[t] \in Ins /\ Wanted(t) = active_out
          BY <2>1 DEF Wanted, StreamsOf, OutCalls, InCalls
    <3> QED
        BY <3>1, <3>2, StreamsAssumption DEF DataOK, Streams
  <2>2. CASE pc[t] # "peer"
    <3>1. /\ pc[t] = "locked" /\ Wanted(t) = str[t]
          /\ op[t] \in OutCalls \cup InCalls
          BY <2>2
          DEF Wanted, StandbyCalls, IoCalls, CloseCalls, MovesPort, OutCalls, InCalls
    <3> QED
        BY <3>1, CallStreams DEF HoldsStream, EndSteps
  <2> QED
      BY <2>1, <2>2
<1>5. pc[u] # "segv"
  <2> SUFFICES ASSUME pc[u] = "segv" PROVE FALSE
      OBVIOUS
  <2>1. u = t
        BY <1>1, OneHolder DEF HoldsDev
  <2> QED
      BY <2>1 DEF Wanted
<1>3. HoldsStream(u) /\ u # t
      BY <1>2, <1>5 DEF OwnershipInv
<1>4. ~HoldsDev(u)
      BY <1>1, <1>3, OneHolder
<1> QED
    BY <1>3, <1>4 DEF HoldsStream, HoldsDev, EndSteps

(* Such a thread waits for nobody.                                         *)
LEMMA InIoWaitsForNone ==
  ASSUME NEW u, NEW v, pc[u] \in {"io", "backoff"}
  PROVE  ~WaitsFor(u, v)
  BY DEF WaitsFor, Wanted

LEMMA InvWaits == IInv => WaitsEnd
<1> SUFFICES ASSUME IInv, NEW t \in Threads, NEW u \in Threads, WaitsFor(t, u)
             PROVE  /\ pc[u] # "idle"
                    /\ \A v \in Threads :
                         WaitsFor(u, v) => \A w \in Threads : ~WaitsFor(v, w)
    BY DEF WaitsEnd
<1>1. CASE pc[t] = "dev" /\ devLock = u
  <2>1. HoldsDev(u)
        BY <1>1 DEF IInv, OwnershipInv
  <2>2. pc[u] \notin {"idle", "dev"}
        BY <2>1 DEF HoldsDev, EndSteps, StartSteps
  <2>3. ASSUME NEW v \in Threads, WaitsFor(u, v) PROVE pc[v] \in {"io", "backoff"}
        BY <2>2, <2>3, WantedIsInIo DEF WaitsFor
  <2> QED
      BY <2>2, <2>3, InIoWaitsForNone
<1>2. CASE Wanted(t) # NULL /\ lock[Wanted(t)] = u
      BY <1>2, WantedIsInIo, InIoWaitsForNone
<1> QED
    BY <1>1, <1>2 DEF WaitsFor

(* No set of threads waits in a circle, nor for a thread that has left the *)
(* HAL: every wait ends at a thread that can go on.                        *)
THEOREM NoDeadlock == Spec => []WaitsEnd
  BY InvWaits, Invariance, PTL

(* How far a holder of the device mutex is from giving it back.            *)
Progress(p) ==
  CASE p = "locked" -> 1 [] p = "select" -> 2
    [] p \in {"end_dsp", "start_dsp"} -> 3
    [] p \in {"end_capture", "start_flag"} -> 4
    [] p \in {"end_flag", "start_capture"} -> 5
    [] p = "playback" -> 6 [] p \in {"peer", "route"} -> 7
    [] p \in {"open", "segv"} -> 8 [] OTHER -> 0

(* Each step of the holder of the device mutex gives it back or is a step  *)
(* forward, of at most eight: no path through select_devices, the switch   *)
(* of the codec or a start comes back to where it was.                     *)
HolderAdvances ==
  [][ \A t \in Threads :
        devLock = t /\ devLock' = t /\ pc'[t] # pc[t] =>
          Progress(pc[t]) < Progress(pc'[t]) /\ Progress(pc'[t]) <= 8 ]_vars

LEMMA AdvanceStep ==
  ASSUME IInv, NEW t \in Threads, Step(t), HoldsDev(t), HoldsDev(t)'
  PROVE  Progress(pc[t]) < Progress(pc'[t]) /\ Progress(pc'[t]) <= 8
<1> USE DEF IInv, TypeOK, ControlOK, Goto, Return, Progress
<1>1. CASE \/ LockDev(t) \/ StandbyCall(t) \/ Free(t) \/ IgnoreParams(t) \/ Route(t)
           \/ EnterIo(t) \/ PcmOpens(t) \/ PcmOpenFails(t) \/ IoDone(t)
      BY <1>1
      DEF LockDev, StandbyCall, Free, IgnoreParams, Route, EnterIo, PcmOpens,
          PcmOpenFails, IoDone, HoldsDev, EndSteps, StartSteps
<1>2. CASE \/ RouteParams(t) \/ OrientationParam(t) \/ SelectOut(t) \/ SelectIn(t)
           \/ StartStream(t) \/ Peer(t) \/ PeerClash(t)
      BY <1>2
      DEF RouteParams, OrientationParam, SelectOut, SelectIn, StartStream, Peer,
          PeerClash
<1>3. CASE Switch(t)
  <2>1. op[t] # "close_in"
        BY <1>3
        DEF HoldsDev, EndSteps, StartSteps, Switch, EndDsp, EndCapture, EndFlag,
            Playback, StartDsp, StartFlag, StartCapture, Flow
  <2> QED
      BY <1>3, <2>1
      DEF Switch, EndDsp, EndCapture, EndFlag, Playback, StartDsp, StartFlag,
          StartCapture, AfterEnd, AfterPlayback
<1> QED
    BY <1>1, <1>2, <1>3 DEF Step

(* A step moves no other thread.                                           *)
LEMMA OnlyItsPosition ==
  ASSUME pc \in [Threads -> Positions], NEW u \in Threads, Step(u),
         NEW t \in Threads \ {u}
  PROVE  pc'[t] = pc[t]
<1>1. ASSUME NEW p, Goto(u, p) PROVE pc'[t] = pc[t]
      BY <1>1 DEF Goto
<1>2. ASSUME Return(u) PROVE pc'[t] = pc[t]
      BY <1>1, <1>2 DEF Return
<1>3. CASE LockDev(u) \/ StandbyCall(u) \/ Free(u) \/ IgnoreParams(u)
      BY <1>1, <1>2, <1>3 DEF LockDev, StandbyCall, Free, IgnoreParams
<1>4. CASE RouteParams(u) \/ OrientationParam(u) \/ SelectOut(u) \/ SelectIn(u)
      BY <1>1, <1>4 DEF RouteParams, OrientationParam, SelectOut, SelectIn
<1>5. CASE Route(u) \/ EnterIo(u) \/ StartStream(u) \/ Peer(u) \/ PeerClash(u)
      BY <1>1, <1>2, <1>5 DEF Route, EnterIo, StartStream, Peer, PeerClash
<1>6. CASE PcmOpens(u) \/ PcmOpenFails(u) \/ IoDone(u)
      BY <1>1, <1>2, <1>6 DEF PcmOpens, PcmOpenFails, IoDone
<1>7. CASE EndDsp(u) \/ EndCapture(u) \/ EndFlag(u) \/ Playback(u)
      BY <1>1, <1>7 DEF EndDsp, EndCapture, EndFlag, Playback
<1>8. CASE StartDsp(u) \/ StartFlag(u) \/ StartCapture(u)
      BY <1>1, <1>8 DEF StartDsp, StartFlag, StartCapture
<1> QED
    BY <1>3, <1>4, <1>5, <1>6, <1>7, <1>8 DEF Step, Switch

(* A holder of the device mutex is at most eight steps of its own away     *)
(* from giving it back, whatever the codec nodes and the PCM do.           *)
THEOREM BoundedHold == Spec => HolderAdvances
<1>1. ASSUME IInv, IInv', [Next]_vars, NEW t \in Threads,
             devLock = t, devLock' = t, pc'[t] # pc[t]
      PROVE  Progress(pc[t]) < Progress(pc'[t]) /\ Progress(pc'[t]) <= 8
  <2>1. HoldsDev(t) /\ HoldsDev(t)'
        BY <1>1 DEF IInv, OwnershipInv
  <2>2. CASE Step(t)
        BY <1>1, <2>1, <2>2, AdvanceStep
  <2>3. ASSUME NEW u \in Threads, Step(u), u # t PROVE pc'[t] = pc[t]
        BY <2>3, <1>1, OnlyItsPosition DEF IInv, TypeOK, ControlOK
  <2>4. ASSUME NEW s \in Streams, OpenStream(s) PROVE pc'[t] = pc[t]
        BY <2>4 DEF OpenStream
  <2>5. ASSUME NEW u \in Threads, CallStream(u) \/ CallDevice(u) PROVE pc'[t] = pc[t]
    <3>1. pc[u] = "idle"
          BY <2>5 DEF CallStream, CallDevice, Enter
    <3>2. u # t
          BY <3>1, <2>1 DEF HoldsDev, EndSteps, StartSteps
    <3> QED
        BY <2>5, <3>2, <1>1
        DEF CallStream, CallDevice, Enter, Goto, IInv, TypeOK, ControlOK
  <2>6. CASE UNCHANGED vars
        BY <1>1, <2>6 DEF vars
  <2> QED
      BY <1>1, <2>2, <2>3, <2>4, <2>5, <2>6 DEF Next
<1>2. IInv /\ IInv' /\ [Next]_vars =>
        [\A t \in Threads :
           devLock = t /\ devLock' = t /\ pc'[t] # pc[t] =>
             Progress(pc[t]) < Progress(pc'[t]) /\ Progress(pc'[t]) <= 8]_vars
      BY <1>1
<1> QED
    BY <1>2, Invariance, PTL DEF Spec, HolderAdvances

-----------------------------------------------------------------------------
(* The microphone path, when the framework never routes the output.        *)

RoutedMics == {RoutedIn(v) : v \in InRoutes} \ {{}}

(* Each input routing selects a microphone path or SCO, and not both.      *)
MicOrSco ==
  \A d \in RoutedMics :
    d \cap (IN_WIRED_HEADSET \cup IN_BUILTIN_MIC) # {} <=> d \cap IN_ALL_SCO = {}

(* in_set_parameters is turning SCO on, with every input on standby.       *)
TurnsScoOn ==
  /\ \A s \in Ins : standby[s]
  /\ \E t \in Threads :
       devLock = t /\ op[t] = "in_params" /\ pc[t] \in {"select", "route"} \cup StartSteps

(* The mixer has paths without a microphone behind them at no other time.  *)
MicInv ==
  /\ \A t \in Threads : op[t] # "out_params"
  /\ mixer \subseteq MicPaths
  /\ devices \in RoutedMics \/ (devices = {} /\ mixer = {})
  /\ devices \cap IN_ALL_SCO # {} /\ mixer # {} => TurnsScoOn

LEMMA MicPath ==
  ASSUME MicOrSco, devices \in RoutedMics
  PROVE  /\ InPaths(devices, orientation) \subseteq MicPaths
         /\ InPaths(devices, orientation) = {} <=> devices \cap IN_ALL_SCO # {}
  BY DEF MicOrSco, InPaths, MicPaths

(* Without out_set_parameters no call of it is ever under way.             *)
LEMMA NoOutParams ==
  ASSUME "out_params" \notin Ops, IInv, \A t \in Threads : op[t] # "out_params",
         [Next]_vars
  PROVE  \A t \in Threads : op'[t] # "out_params"
<1> USE DEF IInv, TypeOK, ControlOK
<1>1. ASSUME NEW t \in Threads, Step(t)
      PROVE  op' = op \/ op' = [op EXCEPT ![t] = "none"]
      BY <1>1
      DEF Step, LockDev, StandbyCall, Free, IgnoreParams, RouteParams,
          OrientationParam, SelectOut, SelectIn, Route, EnterIo, StartStream,
          Peer, PeerClash, PcmOpens, PcmOpenFails, IoDone, Switch, EndDsp, EndCapture, EndFlag,
          Playback, StartDsp, StartFlag, StartCapture, call, Return
<1>2. ASSUME NEW t \in Threads, CallStream(t) \/ CallDevice(t)
      PROVE  \E o \in (Ops \ {"orientation"}) \cup {"orientation"} :
               op' = [op EXCEPT ![t] = o]
      BY <1>2 DEF CallStream, CallDevice, Enter
<1>3. (\E s \in Streams : OpenStream(s)) \/ UNCHANGED vars => op' = op
      BY DEF OpenStream, call, vars
<1> QED
    BY <1>1, <1>2, <1>3 DEF Next

(* While the device mutex is held to turn SCO on, no stream starts and the *)
(* holder goes on to select_devices.                                       *)
LEMMA TurnsScoOnStep ==
  ASSUME IInv, TurnsScoOn, NEW t \in Threads, Step(t), ~Route(t)
  PROVE  TurnsScoOn'
<1> USE DEF IInv, TypeOK, ControlOK, DataOK
<1>1. PICK r \in Threads :
        /\ devLock = r /\ op[r] = "in_params"
        /\ pc[r] \in {"select", "route"} \cup StartSteps
      BY DEF TurnsScoOn
<1>2. HoldsDev(r)
      BY <1>1 DEF OwnershipInv
<1>3. CASE t # r
  <2>1. ~HoldsDev(t)
        BY <1>2, <1>3, OneHolder
  <2>2. pc'[r] = pc[r]
        BY <1>3, OnlyItsPosition
  <2>3. LockDev(t) \/ Free(t) \/ IoDone(t) \/ Switch(t)
        BY <2>1
        DEF Step, StandbyCall, IgnoreParams, RouteParams, OrientationParam, SelectOut,
            SelectIn, Route, EnterIo, StartStream, Peer, PeerClash, PcmOpens,
            PcmOpenFails, HoldsDev
  <2>4. ~LockDev(t)
        BY <1>1, NullIsNoThread DEF LockDev
  <2>5. UNCHANGED <<devLock, standby>> /\ op'[r] = op[r]
        BY <1>3, <2>3, <2>4
        DEF Free, IoDone, Switch, EndDsp, EndCapture, EndFlag, Playback, StartDsp,
            StartFlag, StartCapture, locks, streamState, call, Return
  <2> QED
      BY <1>1, <2>2, <2>5 DEF TurnsScoOn
<1>4. CASE t = r
  <2>1. pc[t] \in {"select", "route"} \cup StartSteps /\ op[t] = "in_params"
        BY <1>1, <1>4
  <2>2. SelectIn(t) \/ StartDsp(t) \/ StartFlag(t) \/ StartCapture(t)
        BY <2>1
        DEF Step, LockDev, StandbyCall, Free, IgnoreParams, RouteParams,
            OrientationParam, SelectOut, EnterIo, StartStream, Peer, PeerClash, PcmOpens,
            PcmOpenFails, IoDone, Switch, EndDsp, EndCapture, EndFlag, Playback,
            StartSteps
  <2>3. pc'[t] \in {"select", "route"} \cup StartSteps
        BY <2>2 DEF SelectIn, StartDsp, StartFlag, StartCapture, Goto, StartSteps
  <2>4. UNCHANGED <<devLock, standby, op>>
        BY <2>2
        DEF SelectIn, StartDsp, StartFlag, StartCapture, locks, streamState, call
  <2> QED
      BY <1>1, <1>4, <2>3, <2>4 DEF TurnsScoOn
<1> QED
    BY <1>3, <1>4

LEMMA MicNext ==
  ASSUME Single, MicOrSco, "out_params" \notin Ops
  PROVE  IInv /\ RoutingInv /\ MicInv /\ [Next]_vars => MicInv'
<1> SUFFICES ASSUME IInv, RoutingInv, MicInv, [Next]_vars PROVE MicInv'
    OBVIOUS
<1> USE DEF IInv, TypeOK, ControlOK, DataOK
<1>1. \A t \in Threads : op'[t] # "out_params"
      BY NoOutParams DEF MicInv
<1>2. ASSUME UNCHANGED <<devices, mixer>>, TurnsScoOn => TurnsScoOn' PROVE MicInv'
      BY <1>1, <1>2 DEF MicInv
<1>3. ASSUME NEW t \in Threads, Route(t) PROVE MicInv'
  <2>1. devices' = devices /\ mixer' = InPaths(devices, orientation)
        BY <1>3 DEF Route, MicInv
  <2>2. CASE devices = {}
        BY <1>1, <2>1, <2>2 DEF MicInv, InPaths
  <2>3. CASE devices \in RoutedMics
        BY <1>1, <2>1, <2>3, MicPath DEF MicInv
  <2> QED
      BY <2>2, <2>3 DEF MicInv
<1>4. ASSUME NEW t \in Threads, RouteParams(t) PROVE MicInv'
  <2>1. op[t] = "in_params" /\ pc[t] = "locked" /\ devLock = t /\ str[t] \in Ins
        BY <1>4, StreamsAssumption
        DEF RouteParams, MicInv, OwnershipInv, HoldsDev, StreamsOf, OutCalls, InCalls
  <2>2. val \in RoutedMics
        BY <1>4, <2>1 DEF RouteParams, Unchanged, RoutingInv, RoutingOf, RoutedMics
  <2>3. devices \subseteq IN_ALL
        BY MaskAssumption DEF MicInv, RoutedMics, RoutedIn
  <2>4. devices' = val /\ mixer' = mixer
        BY <1>4, <2>1, <2>3 DEF RouteParams, Mask
  <2>5. pc'[t] = "select" /\ op' = op /\ devLock' = t
        BY <1>4, <2>1 DEF RouteParams, Goto, locks
  <2>6. CASE val \cap IN_ALL_SCO # {} /\ mixer # {}
    <3>1. devices \cap IN_ALL_SCO = {}
          BY <2>1, <2>6 DEF MicInv, TurnsScoOn, StartSteps
    <3>2. MovesInPort(val)
          BY <2>6, <3>1 DEF MovesInPort, Differ
    <3>3. DoStandby(str[t])
          BY <1>4, <2>1, <3>2 DEF RouteParams
    <3>4. \A s \in Ins : standby'[s]
          BY <2>1, <3>3 DEF DoStandby, Single, Streams
    <3> QED
        BY <1>1, <2>1, <2>2, <2>4, <2>5, <3>4 DEF MicInv, TurnsScoOn
  <2> QED
      BY <1>1, <2>2, <2>4, <2>6 DEF MicInv
<1>5. ASSUME NEW t \in Threads, Step(t), ~Route(t), ~RouteParams(t) PROVE MicInv'
  <2>1. UNCHANGED <<devices, mixer>>
        BY <1>5
        DEF Step, LockDev, StandbyCall, Free, IgnoreParams, OrientationParam,
            SelectOut, SelectIn, EnterIo, StartStream, Peer, PeerClash, PcmOpens,
            PcmOpenFails, IoDone, Switch, EndDsp, EndCapture, EndFlag, Playback, StartDsp, StartFlag,
            StartCapture, route
  <2> QED
      BY <1>2, <1>5, <2>1, TurnsScoOnStep
<1>6. ASSUME NEW s \in Streams, OpenStream(s) PROVE MicInv'
      BY <1>2, <1>6 DEF OpenStream, route, locks, call, TurnsScoOn
<1>7. ASSUME NEW t \in Threads, CallStream(t) \/ CallDevice(t) PROVE MicInv'
  <2>1. pc[t] = "idle"
        BY <1>7 DEF CallStream, CallDevice, Enter
  <2>2. /\ UNCHANGED <<devices, mixer, devLock, standby>>
        /\ \A u \in Threads \ {t} : pc'[u] = pc[u] /\ op'[u] = op[u]
        BY <1>7
        DEF CallStream, CallDevice, Enter, Goto, route, locks, streamState
  <2>3. TurnsScoOn => TurnsScoOn'
        BY <2>1, <2>2 DEF TurnsScoOn, StartSteps
  <2> QED
      BY <1>2, <2>2, <2>3
<1>8. CASE UNCHANGED vars
      BY <1>2, <1>8 DEF vars, route, locks, streamState, call, TurnsScoOn
<1> QED
    BY <1>3, <1>4, <1>5, <1>6, <1>7, <1>8 DEF Next

(* What takes the microphone from a running capture is the mixer reset of  *)
(* out_set_parameters and nothing else: if it is never called and each     *)
(* input routing has a microphone or is SCO, no step does.                 *)
THEOREM CaptureKeepsMicPathAlone ==
  ASSUME Single, MicOrSco, "out_params" \notin Ops
  PROVE  Spec => CaptureKeepsMicPath
<1>1. Init => RoutingInv /\ MicInv
      BY DEF Init, RoutingInv, MicInv
<1>2. Spec => [](IInv /\ RoutingInv /\ MicInv)
      BY <1>1, RoutingNext, MicNext, Invariance, PTL DEF Spec
<1> DEFINE Keeps ==
      (\E s \in Ins : Running(s) /\ Running(s)') /\ mixer \cap MicPaths # {}
        => mixer' \cap MicPaths # {}
<1>3. IInv /\ MicInv /\ [Next]_vars => Keeps
  <2> SUFFICES ASSUME IInv, MicInv, [Next]_vars, NEW s \in Ins, Running(s),
                      mixer \cap MicPaths # {}
               PROVE  mixer' \cap MicPaths # {}
      OBVIOUS
  <2>1. CASE \E t \in Threads : Route(t)
    <3>1. mixer' = InPaths(devices, orientation)
          BY <2>1 DEF Route, MicInv
    <3>2. devices \in RoutedMics /\ devices \cap IN_ALL_SCO = {}
          BY DEF MicInv, TurnsScoOn, Running
    <3> QED
        BY <3>1, <3>2, MicPath
  <2>2. CASE mixer' = mixer
        BY <2>2
  <2>3. (\E t \in Threads : Route(t)) \/ mixer' = mixer
        BY DEF Next, vars, OpenStream, CallStream, CallDevice, Enter, Step, LockDev,
           StandbyCall, Free, IgnoreParams, RouteParams, OrientationParam, SelectOut,
           SelectIn, EnterIo, StartStream, Peer, PeerClash, PcmOpens, PcmOpenFails,
           IoDone, Switch, EndDsp, EndCapture, EndFlag, Playback, StartDsp, StartFlag, StartCapture,
           route
  <2> QED
      BY <2>1, <2>2, <2>3
<1>4. IInv /\ MicInv /\ [Next]_vars => [Keeps]_vars
      BY <1>3
<1> QED
    BY <1>2, <1>4, PTL DEF Spec, CaptureKeepsMicPath
=============================================================================
