--------------------------- MODULE AudioHalProofs ---------------------------
(***************************************************************************)
(* Theorems about AudioHal for any number of threads and streams, any      *)
(* device masks and any routing values: types and mutex ownership, then    *)
(* the codec, whose recording flag, recording mode and mixer paths rest on *)
(* the ownership of the device mutex although adev_close_input_stream does *)
(* not take it around its own switch.                                      *)
(***************************************************************************)
EXTENDS AudioHal, TLAPS

-----------------------------------------------------------------------------
(* The typing invariant is inductive by itself.                            *)

LEMMA FlowValues ==
  /\ DOMAIN Flow = Calls \cup {"none"}
  /\ Flow["none"] = {"idle"}
  /\ Flow["out_write"] =
       {"dev", "locked", "peer", "segv", "open", "io"} \cup EndSteps
  /\ Flow["in_read"] =
       {"dev", "locked", "peer", "segv", "open", "io", "backoff"}
  /\ Flow["out_standby"] = {"dev", "locked"}
  /\ Flow["in_standby"] = {"dev", "locked"}
  /\ Flow["out_params"] =
       {"dev", "locked", "select", "playback", "route"} \cup EndSteps
  /\ Flow["in_params"] = {"dev", "locked", "select", "route"} \cup StartSteps
  /\ Flow["orientation"] = {"dev", "locked", "select", "route"} \cup StartSteps
  /\ Flow["close_out"] = {"dev", "locked", "free"}
  /\ Flow["close_in"] = {"playback", "dev", "locked", "free"} \cup EndSteps
  BY DEF Flow, Calls

LEMMA TypeInit == Init => TypeOK
<1> SUFFICES ASSUME Init PROVE TypeOK
    OBVIOUS
<1> USE DEF Init
<1>1. ControlOK
      BY FlowValues DEF ControlOK, Positions, StreamsOf, OutCalls, InCalls
<1>2. DataOK
      BY OrientationAssumption DEF DataOK
<1> QED
    BY <1>1, <1>2 DEF TypeOK

(* A thread that moves within its handler, and one that returns, keep      *)
(* every thread at a position of its call.                                 *)
LEMMA ControlMove ==
  ASSUME ControlOK, NEW t \in Threads, NEW p \in Flow[op[t]], p \in Positions,
         Goto(t, p), op' = op, str' = str
  PROVE  ControlOK'
  BY DEF ControlOK, StreamsOf, Goto

LEMMA ControlReturn ==
  ASSUME ControlOK, NEW t \in Threads, Return(t)
  PROVE  ControlOK'
  BY FlowValues DEF ControlOK, StreamsOf, Goto, Return, Positions, OutCalls, InCalls

LEMMA ControlNext == ControlOK /\ [Next]_vars => ControlOK'
<1> SUFFICES ASSUME ControlOK, [Next]_vars PROVE ControlOK'
    OBVIOUS
<1> USE DEF call, EndSteps, StartSteps
<1>1. ASSUME NEW s \in Streams, OpenStream(s) PROVE ControlOK'
      BY <1>1 DEF OpenStream, ControlOK, StreamsOf
<1>2. ASSUME NEW t \in Threads, CallStream(t) PROVE ControlOK'
  <2>1. PICK o \in Ops \ {"orientation"}, s \in Streams :
          Callable(o, s) /\ Enter(t, o, s)
        BY <1>2 DEF CallStream
  <2>2. s \in StreamsOf(o)
        BY <2>1, OpsAssumption
        DEF Callable, StreamsOf, Calls, OutCalls, InCalls, Streams
  <2>3. Enter(t, o, s) /\ o \in Calls
        BY <2>1, OpsAssumption
  <2> QED
      BY <2>2, <2>3, FlowValues
      DEF Enter, Goto, ControlOK, Calls, Positions, StreamsOf
<1>3. ASSUME NEW t \in Threads, CallDevice(t) PROVE ControlOK'
      BY <1>3, FlowValues
      DEF CallDevice, Enter, Goto, ControlOK, Calls, Positions, StreamsOf, OutCalls, InCalls
<1>4. ASSUME NEW t \in Threads, Step(t) PROVE ControlOK'
  <2> DEFINE here == op[t] \in DOMAIN Flow /\ pc[t] \in Flow[op[t]]
  <2>0. here
        BY DEF ControlOK
  <2> HIDE DEF here
  <2> USE FlowValues, <2>0 DEF here, Calls, Positions
  <2>1. CASE LockDev(t)
        BY <2>1, ControlMove DEF LockDev
  <2>2. CASE StandbyCall(t)
        BY <2>2, ControlMove, ControlReturn DEF StandbyCall, CloseCalls
  <2>3. CASE Free(t)
        BY <2>3, ControlReturn DEF Free
  <2>4. CASE IgnoreParams(t)
        BY <2>4, ControlReturn DEF IgnoreParams
  <2>5. CASE RouteParams(t)
        BY <2>5, ControlMove DEF RouteParams
  <2>6. CASE OrientationParam(t)
        BY <2>6, ControlMove DEF OrientationParam
  <2>7. CASE SelectOut(t)
        BY <2>7, ControlMove DEF SelectOut
  <2>8. CASE SelectIn(t)
        BY <2>8, ControlMove DEF SelectIn
  <2>9. CASE Route(t)
        BY <2>9, ControlReturn DEF Route
  <2>10. CASE Switch(t)
    <3>1. CASE EndDsp(t)
          BY <3>1, ControlMove DEF EndDsp, AfterEnd
    <3>2. CASE EndCapture(t)
          BY <3>2, ControlMove DEF EndCapture
    <3>3. CASE EndFlag(t)
          BY <3>3, ControlMove DEF EndFlag, AfterEnd
    <3>4. CASE Playback(t)
          BY <3>4, ControlMove DEF Playback, AfterPlayback
    <3>5. CASE StartDsp(t)
          BY <3>5, ControlMove DEF StartDsp
    <3>6. CASE StartFlag(t)
          BY <3>6, ControlMove DEF StartFlag
    <3>7. CASE StartCapture(t)
          BY <3>7, ControlMove DEF StartCapture
    <3> QED
        BY <2>10, <3>1, <3>2, <3>3, <3>4, <3>5, <3>6, <3>7 DEF Switch
  <2>11. CASE EnterIo(t)
         BY <2>11, ControlMove DEF EnterIo, IoCalls
  <2>12. CASE StartStream(t)
         BY <2>12, ControlMove DEF StartStream, IoCalls
  <2>13. CASE Peer(t) \/ PeerClash(t)
         BY <2>13, ControlMove DEF Peer, PeerClash
  <2>14. CASE PcmOpens(t)
         BY <2>14, ControlMove DEF PcmOpens
  <2>15. CASE PcmOpenFails(t)
         BY <2>15, ControlMove, ControlReturn DEF PcmOpenFails
  <2>16. CASE IoDone(t)
         BY <2>16, ControlReturn DEF IoDone
  <2> QED
      BY <1>4, <2>1, <2>2, <2>3, <2>4, <2>5, <2>6, <2>7, <2>8, <2>9, <2>10, <2>11,
         <2>12, <2>13, <2>14, <2>15, <2>16 DEF Step
<1>5. CASE UNCHANGED vars
      BY <1>5 DEF vars, ControlOK
<1> QED
    BY <1>1, <1>2, <1>3, <1>4, <1>5 DEF Next

LEMMA StandbyData ==
  ASSUME DataOK, NEW s, DoStandby(s)
  PROVE  /\ exists' = exists
         /\ standby' \in [Streams -> BOOLEAN]
         /\ pcm' \in [Streams -> Ports \cup {"none", "stale"}]
         /\ active_out' \in Outs \cup {NULL}
         /\ active_in' \in Ins \cup {NULL}
  BY DEF DataOK, DoStandby

LEMMA DataNext == DataOK /\ [Next]_vars => DataOK'
<1> SUFFICES ASSUME DataOK, [Next]_vars PROVE DataOK'
    OBVIOUS
<1>0. raced' \in BOOLEAN
      BY DEF Next, Races, vars, DataOK
<1> USE <1>0
    DEF DataOK, locks, streamState, route, codec, ReleaseDev, HoldStream, ReleaseStream
<1>1. ASSUME NEW s \in Streams, OpenStream(s) PROVE DataOK'
      BY <1>1 DEF OpenStream
<1>2. ASSUME NEW t \in Threads, CallStream(t) PROVE DataOK'
      BY <1>2 DEF CallStream, Enter
<1>3. ASSUME NEW t \in Threads, CallDevice(t) PROVE DataOK'
      BY <1>3 DEF CallDevice, Enter
<1>4. ASSUME NEW t \in Threads, Step(t) PROVE DataOK'
  <2>1. CASE LockDev(t)
        BY <2>1, MaskAssumption DEF LockDev, RoutingOf, RoutedIn
  <2>2. CASE StandbyCall(t)
        BY <2>2, StandbyData DEF StandbyCall
  <2>3. CASE Free(t)
        BY <2>3 DEF Free
  <2>4. CASE IgnoreParams(t)
        BY <2>4 DEF IgnoreParams
  <2>5. CASE RouteParams(t)
        BY <2>5, StandbyData DEF RouteParams
  <2>6. CASE OrientationParam(t)
        BY <2>6 DEF OrientationParam
  <2>7. CASE SelectOut(t) \/ SelectIn(t)
        BY <2>7 DEF SelectOut, SelectIn
  <2>8. CASE Route(t)
        BY <2>8 DEF Route, OutPaths, InPaths, MicPaths
  <2>9. CASE Switch(t)
        BY <2>9
        DEF Switch, EndDsp, EndCapture, EndFlag, Playback, StartDsp, StartFlag, StartCapture,
            TellDsp, Unopened, Select
  <2>10. CASE EnterIo(t)
         BY <2>10 DEF EnterIo
  <2>11. CASE StartStream(t)
         BY <2>11 DEF StartStream
  <2>12. CASE Peer(t)
         BY <2>12 DEF Peer
  <2>16. CASE PeerClash(t)
         BY <2>16, StandbyData DEF PeerClash
  <2>13. CASE PcmOpens(t)
         BY <2>13 DEF PcmOpens, PortOf, OutPort, InPort, Ports
  <2>14. CASE PcmOpenFails(t)
         BY <2>14 DEF PcmOpenFails
  <2>15. CASE IoDone(t)
         BY <2>15 DEF IoDone
  <2> QED
      BY <1>4, <2>1, <2>2, <2>3, <2>4, <2>5, <2>6, <2>7, <2>8, <2>9, <2>10, <2>11,
         <2>12, <2>13, <2>14, <2>15, <2>16 DEF Step
<1>5. CASE UNCHANGED vars
      BY <1>5 DEF vars
<1> QED
    BY <1>1, <1>2, <1>3, <1>4, <1>5 DEF Next

(* Every variable keeps its type and every call its handler, for any       *)
(* number of threads and streams and any masks.                            *)
THEOREM Typing == Spec => []TypeOK
<1>1. TypeOK /\ [Next]_vars => TypeOK'
      BY ControlNext, DataNext DEF TypeOK
<1> QED
    BY TypeInit, <1>1, PTL DEF Spec

-----------------------------------------------------------------------------
(* The mutexes: who holds them follows from the positions of the threads.  *)

LEMMA NullIsNoThread == \A t \in Threads : t # NULL
  BY StreamsAssumption

LEMMA NullIsNoStream == \A s \in Streams : s # NULL
  BY StreamsAssumption

LEMMA OwnershipInit == Init => OwnershipInv
  BY NullIsNoThread
  DEF Init, OwnershipInv, HoldsDev, HoldsStream, EndSteps, StartSteps

LEMMA OwnershipNext == ControlOK /\ OwnershipInv /\ DataOK /\ [Next]_vars => OwnershipInv'
<1> SUFFICES ASSUME ControlOK, OwnershipInv, DataOK, [Next]_vars PROVE OwnershipInv'
    OBVIOUS
<1> USE NullIsNoThread, NullIsNoStream
    DEF locks, call, EndSteps, StartSteps
<1>0. CASE UNCHANGED vars
      BY <1>0 DEF vars, OwnershipInv, HoldsDev, HoldsStream
<1> SUFFICES ASSUME Alive, Next PROVE OwnershipInv'
    BY <1>0 DEF Next
<1>1. ASSUME NEW s \in Streams, OpenStream(s) PROVE OwnershipInv'
      BY <1>1 DEF OpenStream, OwnershipInv, HoldsDev, HoldsStream
<1>2. ASSUME NEW t \in Threads, CallStream(t) PROVE OwnershipInv'
      BY <1>2, FlowValues DEF CallStream, Enter, Goto, ControlOK, OwnershipInv, HoldsDev, HoldsStream
<1>3. ASSUME NEW t \in Threads, CallDevice(t) PROVE OwnershipInv'
      BY <1>3 DEF CallDevice, Enter, Goto, ControlOK, OwnershipInv, HoldsDev, HoldsStream
<1>4. ASSUME NEW t \in Threads, Step(t) PROVE OwnershipInv'
  <2> USE DEF OwnershipInv, HoldsDev, HoldsStream, ControlOK, DataOK, Goto, Return,
              ReleaseDev, ReleaseStream, HoldStream, Alive
  <2>1. CASE LockDev(t)
        BY <2>1 DEF LockDev
  <2>2. CASE StandbyCall(t)
        BY <2>2 DEF StandbyCall
  <2>3. CASE Free(t)
        BY <2>3 DEF Free
  <2>4. CASE IgnoreParams(t)
        BY <2>4 DEF IgnoreParams
  <2>5. CASE RouteParams(t)
        BY <2>5 DEF RouteParams
  <2>6. CASE OrientationParam(t)
        BY <2>6 DEF OrientationParam
  <2>7. CASE SelectOut(t)
        BY <2>7 DEF SelectOut
  <2>8. CASE SelectIn(t)
        BY <2>8 DEF SelectIn
  <2>9. CASE Route(t)
        BY <2>9 DEF Route
  <2>10. CASE Switch(t)
    <3>1. CASE EndDsp(t)
          BY <3>1 DEF EndDsp, AfterEnd
    <3>2. CASE EndCapture(t)
          BY <3>2 DEF EndCapture
    <3>3. CASE EndFlag(t)
          BY <3>3 DEF EndFlag, AfterEnd
    <3>4. CASE Playback(t)
          BY <3>4 DEF Playback, AfterPlayback
    <3>5. CASE StartDsp(t)
          BY <3>5 DEF StartDsp
    <3>6. CASE StartFlag(t)
          BY <3>6 DEF StartFlag
    <3>7. CASE StartCapture(t)
          BY <3>7 DEF StartCapture
    <3> QED
        BY <2>10, <3>1, <3>2, <3>3, <3>4, <3>5, <3>6, <3>7 DEF Switch
  <2>11. CASE EnterIo(t)
         BY <2>11 DEF EnterIo, StreamIdle
  <2>12. CASE StartStream(t)
         BY <2>12 DEF StartStream, StreamIdle
  <2>13. CASE Peer(t)
         BY <2>13 DEF Peer
  <2>17. CASE PeerClash(t)
         BY <2>17 DEF PeerClash, StreamIdle
  <2>14. CASE PcmOpens(t)
         BY <2>14 DEF PcmOpens
  <2>15. CASE PcmOpenFails(t)
         BY <2>15 DEF PcmOpenFails
  <2>16. CASE IoDone(t)
         BY <2>16 DEF IoDone
  <2> QED
      BY <1>4, <2>1, <2>2, <2>3, <2>4, <2>5, <2>6, <2>7, <2>8, <2>9, <2>10, <2>11,
         <2>12, <2>13, <2>14, <2>15, <2>16, <2>17 DEF Step
<1> QED
    BY <1>1, <1>2, <1>3, <1>4 DEF Next

-----------------------------------------------------------------------------
(* Allocation: the framework's discipline on closing, and the streams that *)
(* the calls in flight use.                                                *)

LEMMA CallsInit == Init => CallsInv
  BY NullIsNoStream DEF Init, CallsInv, CloseCalls

(* A step that starts no call and frees no stream changes nothing here.    *)
LEMMA CallsSame ==
  ASSUME CallsInv, exists' = exists, op' = op, str' = str
  PROVE  CallsInv'
  BY DEF CallsInv

LEMMA CallsReturn ==
  ASSUME ControlOK, CallsInv, NEW t \in Threads, Return(t), exists' = exists
  PROVE  CallsInv'
  BY NullIsNoStream, FlowValues
  DEF CallsInv, ControlOK, Return, CloseCalls, StreamsOf, OutCalls, InCalls, Streams

LEMMA StandbyExists ==
  ASSUME NEW s, DoStandby(s) PROVE exists' = exists
  BY DEF DoStandby

LEMMA CallsNext == ControlOK /\ DataOK /\ CallsInv /\ [Next]_vars => CallsInv'
<1> SUFFICES ASSUME ControlOK, DataOK, CallsInv, [Next]_vars PROVE CallsInv'
    OBVIOUS
<1> USE DEF streamState, call
<1>1. ASSUME NEW s \in Streams, OpenStream(s) PROVE CallsInv'
      BY <1>1 DEF OpenStream, CallsInv, DataOK, ControlOK
<1>2. ASSUME NEW t \in Threads, CallStream(t) PROVE CallsInv'
  <2>1. PICK o \in Ops \ {"orientation"}, s \in Streams :
          Callable(o, s) /\ Enter(t, o, s)
        BY <1>2 DEF CallStream
  <2>2. \A u \in Threads \ {t} : str[u] = s => o \notin CloseCalls
                                             /\ op[u] \notin CloseCalls
        BY <2>1 DEF Callable, InFlight
  <2> QED
      BY <2>1, <2>2, NullIsNoStream DEF Callable, Enter, CallsInv, ControlOK
<1>3. ASSUME NEW t \in Threads, CallDevice(t) PROVE CallsInv'
  <2>1. \A u \in Threads : op[u] \in CloseCalls => str[u] \in Streams
        BY DEF ControlOK, StreamsOf, CloseCalls, OutCalls, InCalls, Streams
  <2> QED
      BY <2>1, <1>3, NullIsNoStream DEF CallDevice, Enter, CallsInv, ControlOK, CloseCalls
<1>4. ASSUME NEW t \in Threads, Step(t) PROVE CallsInv'
  <2>1. CASE Free(t)
    <3>1. op[t] \in CloseCalls
          BY <2>1, FlowValues
          DEF Free, ControlOK, Calls, CloseCalls, EndSteps, StartSteps
    <3>2. \A u \in Threads \ {t} : str[u] # str[t]
          BY <3>1 DEF CallsInv
    <3>3. \A u \in Threads : op[u] \in CloseCalls => str[u] \in Streams
          BY DEF ControlOK, StreamsOf, CloseCalls, OutCalls, InCalls, Streams
    <3> QED
        BY <2>1, <3>1, <3>2, <3>3, NullIsNoStream
        DEF Free, Return, CallsInv, ControlOK, DataOK, CloseCalls
  <2>2. CASE \/ StandbyCall(t) \/ IgnoreParams(t) \/ Route(t) \/ PcmOpenFails(t)
             \/ IoDone(t)
        BY <2>2, CallsSame, CallsReturn, StandbyExists
        DEF StandbyCall, IgnoreParams, Route, PcmOpenFails, IoDone
  <2>3. CASE \/ LockDev(t) \/ RouteParams(t) \/ OrientationParam(t) \/ SelectOut(t)
             \/ SelectIn(t) \/ EnterIo(t) \/ StartStream(t) \/ Peer(t) \/ PeerClash(t)
             \/ PcmOpens(t)
        BY <2>3, CallsSame, StandbyExists
        DEF LockDev, RouteParams, OrientationParam, SelectOut, SelectIn, EnterIo,
            StartStream, Peer, PeerClash, PcmOpens
  <2>4. CASE Switch(t)
        BY <2>4, CallsSame
        DEF Switch, EndDsp, EndCapture, EndFlag, Playback, StartDsp, StartFlag,
            StartCapture
  <2> QED
      BY <1>4, <2>1, <2>2, <2>3, <2>4 DEF Step
<1>5. CASE UNCHANGED vars
      BY <1>5, CallsSame DEF vars
<1> QED
    BY <1>1, <1>2, <1>3, <1>4, <1>5 DEF Next

-----------------------------------------------------------------------------
(* The streams: which PCM is open, who uses it, and the active pointers.   *)

SessionInv == StreamInv /\ ActivePointersValid

LEMMA SessionInit == Init => SessionInv
  BY DEF Init, SessionInv, StreamInv, ActivePointersValid, Running, HoldsDev, EndSteps,
         StartSteps

(* Nothing of the streams changes and t only moves: the invariant asks of  *)
(* its new position no more than of the old one.                           *)
LEMMA SessionMove ==
  ASSUME ControlOK, SessionInv, UNCHANGED streamState, NEW t \in Threads,
         \A u \in Threads \ {t} : op'[u] = op[u] /\ str'[u] = str[u] /\ pc'[u] = pc[u],
         HoldsDev(t)' /\ HoldsStream(t)' => standby[str'[t]],
         pc'[t] = "free" => standby[str'[t]],
         pc'[t] = "io" => Running(str'[t])
  PROVE  SessionInv'
  BY DEF SessionInv, StreamInv, ActivePointersValid, Running, streamState, HoldsDev,
         HoldsStream

(* do_*_standby of a stream whose mutex was free.                          *)
LEMMA SessionStandby ==
  ASSUME TypeOK, OwnershipInv, SessionInv,
         NEW s \in Streams, StreamIdle(s), DoStandby(s)
  PROVE  /\ ActivePointersValid'
         /\ \A r \in Streams : Running(r)' => exists'[r] /\ pcm'[r] \in Ports
         /\ \A r \in Streams : standby[r] => standby'[r]
         /\ standby'[s]
         /\ \A u \in Threads : pc[u] = "io" => ~standby'[str[u]]
<1> USE DEF DoStandby, StreamIdle, TypeOK, DataOK
<1>1. ActivePointersValid'
  <2>1. active_out' # NULL => exists'[active_out'] /\ ~standby'[active_out']
        BY StreamsAssumption, NullIsNoStream
        DEF SessionInv, ActivePointersValid, Running, Streams
  <2>2. active_in' # NULL => exists'[active_in'] /\ ~standby'[active_in']
        BY StreamsAssumption, NullIsNoStream
        DEF SessionInv, ActivePointersValid, Running, Streams
  <2> QED
      BY <2>1, <2>2 DEF ActivePointersValid, Running
<1>2. \A u \in Threads : pc[u] = "io" => str[u] # s
      BY NullIsNoThread DEF OwnershipInv, HoldsStream
<1>3. \A u \in Threads : pc[u] = "io" => ~standby'[str[u]]
      BY <1>2 DEF SessionInv, StreamInv, Running
<1> QED
    BY <1>1, <1>3 DEF SessionInv, StreamInv, Running

LEMMA StandbyKeepsStarts ==
  ASSUME TypeOK, OwnershipInv, SessionInv, NEW t \in Threads, NEW s \in Streams,
         StreamIdle(s), DoStandby(s),
         \A u \in Threads \ {t} : op'[u] = op[u] /\ str'[u] = str[u] /\ pc'[u] = pc[u],
         pc'[t] # "io",
         HoldsDev(t)' /\ HoldsStream(t)' => standby'[str'[t]],
         pc'[t] = "free" => standby'[str'[t]]
  PROVE  SessionInv'
<1>1. \A u \in Threads : HoldsStream(u) => str[u] \in Streams
      BY FlowValues
      DEF TypeOK, ControlOK, HoldsStream, StreamsOf, OutCalls, InCalls, Streams, Calls,
          EndSteps, StartSteps
<1>2. \A u \in Threads : pc[u] = "free" => str[u] \in Streams
      BY FlowValues
      DEF TypeOK, ControlOK, StreamsOf, OutCalls, InCalls, Streams, Calls, EndSteps,
          StartSteps
<1>3. \A u \in Threads : HoldsDev(u)' /\ HoldsStream(u)' => standby'[str'[u]]
  <2> SUFFICES ASSUME NEW u \in Threads, HoldsDev(u)' /\ HoldsStream(u)'
               PROVE  standby'[str'[u]]
      OBVIOUS
  <2>1. CASE u = t
        BY <2>1
  <2>2. CASE u # t
    <3>1. HoldsDev(u) /\ HoldsStream(u) /\ str'[u] = str[u]
          BY <2>2 DEF HoldsDev, HoldsStream
    <3>2. standby[str[u]] /\ str[u] \in Streams
          BY <1>1, <3>1 DEF SessionInv, StreamInv
    <3> QED
        BY <3>1, <3>2, SessionStandby
  <2> QED
      BY <2>1, <2>2
<1>4. \A u \in Threads : pc'[u] = "free" => standby'[str'[u]]
      BY <1>2, SessionStandby DEF SessionInv, StreamInv
<1>5. \A u \in Threads : pc'[u] = "io" => ~standby'[str'[u]]
      BY SessionStandby
<1> QED
    BY <1>3, <1>4, <1>5, SessionStandby DEF SessionInv, StreamInv, Running

(* The stream of a call that handles one is in Streams.                    *)
LEMMA CallStreams ==
  ControlOK => \A t \in Threads : op[t] \in OutCalls \cup InCalls => str[t] \in Streams
  BY DEF ControlOK, StreamsOf, Streams

LEMMA SessionNext ==
  TypeOK /\ OwnershipInv /\ CallsInv /\ SessionInv /\ [Next]_vars => SessionInv'
<1> SUFFICES ASSUME TypeOK, OwnershipInv, CallsInv, SessionInv, [Next]_vars
             PROVE  SessionInv'
    OBVIOUS
<1> USE DEF TypeOK, call, EndSteps, StartSteps
<1>1. ASSUME NEW s \in Streams, OpenStream(s) PROVE SessionInv'
  <2>1. \A t \in Threads : str[t] # s
        BY <1>1 DEF OpenStream, CallsInv
  <2>2. active_out # s /\ active_in # s
        BY <1>1, NullIsNoStream DEF OpenStream, SessionInv, ActivePointersValid
  <2> QED
      BY <1>1, <2>1, <2>2
      DEF OpenStream, SessionInv, StreamInv, ActivePointersValid, Running, DataOK,
          HoldsDev, HoldsStream, Streams
<1>2. ASSUME NEW t \in Threads, CallStream(t) PROVE SessionInv'
      BY <1>2, SessionMove DEF CallStream, Enter, Goto, ControlOK, HoldsDev, HoldsStream
<1>3. ASSUME NEW t \in Threads, CallDevice(t) PROVE SessionInv'
      BY <1>3, SessionMove DEF CallDevice, Enter, Goto, ControlOK, HoldsDev, HoldsStream
<1>4. ASSUME NEW t \in Threads, Step(t) PROVE SessionInv'
  <2> USE DEF Goto, Return, ControlOK
  <2>1. CASE LockDev(t)
        BY <2>1, SessionMove DEF LockDev, HoldsStream
  <2>2. CASE StandbyCall(t)
    <3>1. str[t] \in Streams
          BY <2>2, CallStreams DEF StandbyCall, CloseCalls, OutCalls, InCalls
    <3>2. standby'[str[t]]
          BY <2>2, <3>1, SessionStandby DEF StandbyCall
    <3> QED
        BY <2>2, <3>1, <3>2, StandbyKeepsStarts DEF StandbyCall, HoldsDev, HoldsStream
  <2>3. CASE Free(t)
    <3>1. op[t] \in CloseCalls
          BY <2>3, FlowValues DEF Free, Calls, CloseCalls
    <3>2. str[t] \in Streams /\ standby[str[t]]
          BY <2>3, <3>1, CallStreams
          DEF Free, CloseCalls, OutCalls, InCalls, SessionInv, StreamInv
    <3>3. active_out # str[t] /\ active_in # str[t]
          BY <3>2, NullIsNoStream DEF SessionInv, ActivePointersValid, Running
    <3> QED
        BY <2>3, <3>2, <3>3
        DEF Free, SessionInv, StreamInv, ActivePointersValid, Running, DataOK, HoldsDev,
            HoldsStream
  <2>4. CASE IgnoreParams(t) \/ Route(t)
        BY <2>4, SessionMove DEF IgnoreParams, Route, HoldsStream
  <2>5. CASE RouteParams(t)
    <3>1. CASE UNCHANGED streamState
          BY <2>5, <3>1, SessionMove DEF RouteParams, HoldsStream
    <3>2. CASE StreamIdle(str[t]) /\ DoStandby(str[t])
      <4>1. str[t] \in Streams
            BY <2>5, CallStreams DEF RouteParams, OutCalls, InCalls
      <4> QED
          BY <2>5, <3>2, <4>1, StandbyKeepsStarts DEF RouteParams, HoldsStream
    <3> QED
        BY <2>5, <3>1, <3>2 DEF RouteParams
  <2>6. CASE OrientationParam(t) \/ SelectOut(t) \/ SelectIn(t)
        BY <2>6, SessionMove DEF OrientationParam, SelectOut, SelectIn, HoldsStream
  <2>7. CASE Switch(t)
    <3> USE FlowValues DEF AfterEnd, AfterPlayback, HoldsDev, HoldsStream, SessionInv,
            StreamInv
    <3>1. CASE EndDsp(t)
          BY <2>7, <3>1, SessionMove DEF EndDsp
    <3>2. CASE EndCapture(t)
          BY <2>7, <3>2, SessionMove DEF EndCapture
    <3>3. CASE EndFlag(t)
          BY <2>7, <3>3, SessionMove DEF EndFlag
    <3>4. CASE Playback(t)
          BY <2>7, <3>4, SessionMove DEF Playback
    <3>5. CASE StartDsp(t) \/ StartFlag(t) \/ StartCapture(t)
          BY <2>7, <3>5, SessionMove DEF StartDsp, StartFlag, StartCapture
    <3> QED
        BY <2>7, <3>1, <3>2, <3>3, <3>4, <3>5 DEF Switch
  <2>8. CASE EnterIo(t)
        BY <2>8, SessionMove DEF EnterIo, HoldsDev, Running
  <2>9. CASE StartStream(t)
        BY <2>9, SessionMove DEF StartStream
  <2>10. CASE Peer(t) \/ PeerClash(t)
    <3>1. standby[str[t]] /\ str[t] \in Streams
          BY <2>10, CallStreams, FlowValues
          DEF Peer, PeerClash, SessionInv, StreamInv, HoldsDev, HoldsStream, Calls,
              OutCalls, InCalls
    <3>2. CASE Peer(t)
          BY <3>1, <3>2, SessionMove DEF Peer
    <3>3. CASE PeerClash(t)
      <4>1. PICK s \in Streams : s = PeerOf(t)
            BY <3>3 DEF PeerClash, Clashes, PeerOf, DataOK, Streams
      <4>2. StreamIdle(s) /\ DoStandby(s)
            BY <3>3, <4>1 DEF PeerClash
      <4>3. standby'[str[t]]
            BY <3>1, <4>2, SessionStandby
      <4> QED
          BY <3>3, <4>2, <4>3, StandbyKeepsStarts DEF PeerClash
    <3> QED
        BY <2>10, <3>2, <3>3
  <2>11. CASE PcmOpens(t)
    <3>1. str[t] \in Streams /\ HoldsStream(t)
          BY <2>11, CallStreams, FlowValues
          DEF PcmOpens, Calls, OutCalls, InCalls, HoldsStream
    <3>2. \A u \in Threads \ {t} : ~(str[u] = str[t] /\ HoldsStream(u))
          BY <3>1 DEF OwnershipInv
    <3>3. \A u \in Threads \ {t} : ~(str[u] = str[t] /\ pc[u] = "free")
          BY <2>11, <3>1, FlowValues DEF PcmOpens, CallsInv, Calls, CloseCalls
    <3>4. exists[str[t]]
          BY <3>1 DEF CallsInv
    <3>5. PortOf(str[t]) \in Ports
          BY DEF PortOf, OutPort, InPort, Ports
    <3>6. /\ pcm' = [pcm EXCEPT ![str[t]] = PortOf(str[t])]
          /\ standby' = [standby EXCEPT ![str[t]] = FALSE]
          /\ exists' = exists
          BY <2>11 DEF PcmOpens
    <3>7. ActivePointersValid'
          BY <2>11, <3>1, <3>4
          DEF PcmOpens, SessionInv, ActivePointersValid, Running, DataOK, Streams
    <3>8. \A s \in Streams : ~standby'[s] => exists'[s] /\ pcm'[s] \in Ports
          BY <3>1, <3>4, <3>5, <3>6 DEF SessionInv, StreamInv, Running, DataOK
    <3>9. \A u \in Threads :
             /\ HoldsDev(u)' /\ HoldsStream(u)' => standby'[str'[u]]
             /\ pc'[u] = "free" => standby'[str'[u]]
             /\ pc'[u] = "io" => ~standby'[str'[u]]
          BY <2>11, <3>1, <3>2, <3>3, <3>6
          DEF PcmOpens, SessionInv, StreamInv, Running, DataOK, HoldsDev, HoldsStream
    <3> QED
        BY <3>7, <3>8, <3>9 DEF SessionInv, StreamInv, Running
  <2>12. CASE PcmOpenFails(t)
        BY <2>12
        DEF PcmOpenFails, SessionInv, StreamInv, ActivePointersValid, Running, DataOK,
            HoldsDev, HoldsStream
  <2>13. CASE IoDone(t)
        BY <2>13, SessionMove DEF IoDone, HoldsStream
  <2> QED
      BY <1>4, <2>1, <2>2, <2>3, <2>4, <2>5, <2>6, <2>7, <2>8, <2>9, <2>10, <2>11,
         <2>12, <2>13 DEF Step
<1>5. CASE UNCHANGED vars
      BY <1>5
      DEF vars, streamState, SessionInv, StreamInv, ActivePointersValid, Running,
          HoldsDev, HoldsStream
<1> QED
    BY <1>1, <1>2, <1>3, <1>4, <1>5 DEF Next

-----------------------------------------------------------------------------

LEMMA InvInit == Init => IInv
  BY TypeInit, OwnershipInit, CallsInit, SessionInit DEF IInv, SessionInv

LEMMA InvNext == IInv /\ [Next]_vars => IInv'
  BY ControlNext, DataNext, OwnershipNext, CallsNext, SessionNext
  DEF IInv, TypeOK, SessionInv

(* The inductive invariant: in every reachable state a mutex belongs to    *)
(* the thread whose position says so, and the streams and active pointers  *)
(* agree with the positions of the threads.                                *)
THEOREM Invariance == Spec => []IInv
  BY InvInit, InvNext, PTL DEF Spec

(* No thread ever transfers on a PCM that another one closed.              *)
THEOREM IoSafety == Spec => []IoOnOpenPcm
<1>1. IInv => IoOnOpenPcm
  <2> SUFFICES ASSUME IInv, NEW t \in Threads, pc[t] = "io"
               PROVE  /\ exists[str[t]] /\ Running(str[t])
                      /\ pcm[str[t]] \in Ports
      BY DEF IoOnOpenPcm
  <2>1. str[t] \in Streams
        BY CallStreams, FlowValues
        DEF IInv, TypeOK, ControlOK, Calls, OutCalls, InCalls, EndSteps, StartSteps
  <2> QED
      BY <2>1 DEF IInv, StreamInv
<1> QED
    BY <1>1, Invariance, PTL

(* The pointer a start of the other direction follows is never dangling.   *)
THEOREM PointerSafety == Spec => []ActivePointersValid
<1>1. IInv => ActivePointersValid
      BY DEF IInv
<1> QED
    BY <1>1, Invariance, PTL

-----------------------------------------------------------------------------
(* isRecording and the capture source.                                     *)

LEMMA FlagNext == ControlOK /\ RecordingFlagSound /\ [Next]_vars => RecordingFlagSound'
<1> SUFFICES ASSUME ControlOK, RecordingFlagSound, [Next]_vars
             PROVE  RecordingFlagSound'
    OBVIOUS
<1> USE DEF ControlOK, RecordingFlagSound, codec, Goto, Return
<1>1. ASSUME NEW s \in Streams, OpenStream(s) PROVE RecordingFlagSound'
      BY <1>1 DEF OpenStream
<1>2. ASSUME NEW t \in Threads, CallStream(t) \/ CallDevice(t)
      PROVE  RecordingFlagSound'
      BY <1>2 DEF CallStream, CallDevice, Enter
<1>3. ASSUME NEW t \in Threads, Step(t), ~Switch(t) PROVE RecordingFlagSound'
      BY <1>3
      DEF Step, LockDev, StandbyCall, Free, IgnoreParams, RouteParams, OrientationParam,
          SelectOut, SelectIn, Route, EnterIo, StartStream, Peer, PeerClash, PcmOpens,
          PcmOpenFails, IoDone
<1>4. ASSUME NEW t \in Threads, Switch(t) PROVE RecordingFlagSound'
  <2> USE DEF TellDsp, Unopened, Select, AfterEnd, AfterPlayback
  <2>1. CASE EndDsp(t)
        BY <2>1 DEF EndDsp
  <2>2. CASE EndCapture(t)
        BY <2>2 DEF EndCapture
  <2>3. CASE EndFlag(t)
        BY <2>3 DEF EndFlag
  <2>4. CASE Playback(t)
        BY <2>4 DEF Playback
  <2>5. CASE StartDsp(t)
        BY <2>5 DEF StartDsp
  <2>6. CASE StartFlag(t)
        BY <2>6 DEF StartFlag
  <2>7. CASE StartCapture(t)
        BY <2>7 DEF StartCapture
  <2> QED
      BY <1>4, <2>1, <2>2, <2>3, <2>4, <2>5, <2>6, <2>7 DEF Switch
<1>5. CASE UNCHANGED vars
      BY <1>5 DEF vars
<1> QED
    BY <1>1, <1>2, <1>3, <1>4, <1>5 DEF Next, Step

(* The flag is never left set over a codec in playback, by any             *)
(* interleaving of locked and unlocked switches and any fault but a        *)
(* capture ioctl without effect.                                           *)
THEOREM RecordingFlag == Spec => []RecordingFlagSound
<1>1. Init => RecordingFlagSound
      BY DEF Init, RecordingFlagSound
<1>2. TypeOK => ControlOK
      BY DEF TypeOK
<1> QED
    BY <1>1, <1>2, FlagNext, Typing, PTL DEF Spec

-----------------------------------------------------------------------------
(* The mixer follows the devices and the orientation.                      *)

Handlers == {"out_params", "in_params", "orientation"}

(* The thread, if any, between a change of the routing and select_devices'  *)
(* update of the mixer.                                                    *)
Rerouting(t) ==
  op[t] \in Handlers
    /\ pc[t] \in {"select", "route", "playback"} \cup EndSteps \cup StartSteps

RouteInv ==
  \/ mixer \in {{}, OutPaths(devices), InPaths(devices, orientation)}
  \/ \E t \in Threads : Rerouting(t)

LEMMA RouteNext == ControlOK /\ RouteInv /\ [Next]_vars => RouteInv'
<1> SUFFICES ASSUME ControlOK, RouteInv, [Next]_vars PROVE RouteInv'
    OBVIOUS
<1> USE FlowValues
    DEF ControlOK, RouteInv, Rerouting, route, call, Goto, Return, EndSteps, StartSteps,
        Handlers
<1>1. ASSUME NEW s \in Streams, OpenStream(s) PROVE RouteInv'
      BY <1>1 DEF OpenStream
<1>2. ASSUME NEW t \in Threads, CallStream(t) \/ CallDevice(t) PROVE RouteInv'
      BY <1>2 DEF CallStream, CallDevice, Enter
<1>3. ASSUME NEW t \in Threads, Step(t) PROVE RouteInv'
  <2>1. CASE \/ LockDev(t) \/ StandbyCall(t) \/ Free(t) \/ IgnoreParams(t)
             \/ EnterIo(t) \/ StartStream(t) \/ Peer(t) \/ PeerClash(t)
             \/ PcmOpens(t) \/ PcmOpenFails(t) \/ IoDone(t)
        BY <2>1
        DEF LockDev, StandbyCall, Free, IgnoreParams, EnterIo, StartStream, Peer,
            PeerClash, PcmOpens, PcmOpenFails, IoDone
  <2>2. CASE RouteParams(t) \/ OrientationParam(t)
        BY <2>2 DEF RouteParams, OrientationParam
  <2>3. CASE SelectOut(t) \/ SelectIn(t)
        BY <2>3 DEF SelectOut, SelectIn
  <2>4. CASE Route(t)
        BY <2>4 DEF Route
  <2>5. CASE Switch(t)
        BY <2>5
        DEF Switch, EndDsp, EndCapture, EndFlag, Playback, StartDsp, StartFlag,
            StartCapture, AfterEnd, AfterPlayback
  <2> QED
      BY <1>3, <2>1, <2>2, <2>3, <2>4, <2>5 DEF Step
<1>4. CASE UNCHANGED vars
      BY <1>4 DEF vars
<1> QED
    BY <1>1, <1>2, <1>3, <1>4 DEF Next

(* Whenever the device mutex is free the mixer carries the current routing. *)
THEOREM MixerFollowsRouting == Spec => []NoStaleRoute
<1>1. Init => RouteInv
      BY DEF Init, RouteInv
<1>2. IInv /\ RouteInv => NoStaleRoute
      BY NullIsNoThread
      DEF IInv, OwnershipInv, RouteInv, Rerouting, NoStaleRoute, HoldsDev, Handlers
<1>3. IInv => ControlOK
      BY DEF IInv, TypeOK
<1>4. Spec => []RouteInv
      BY <1>1, <1>3, RouteNext, Invariance, PTL DEF Spec
<1> QED
    BY <1>2, <1>4, Invariance, PTL

-----------------------------------------------------------------------------
(* A start of playback ends the recording first.                           *)

(* The device mutex excludes.                                              *)
LEMMA OneHolder ==
  ASSUME OwnershipInv, NEW t \in Threads, NEW u \in Threads, HoldsDev(t), HoldsDev(u)
  PROVE  t = u
  BY DEF OwnershipInv

LEMMA PlaybackNext ==
  ASSUME "open" \notin CodecFaults
  PROVE  IInv /\ PlaybackStartsAfterRecording /\ [Next]_vars
           => PlaybackStartsAfterRecording'
<1> SUFFICES ASSUME IInv, PlaybackStartsAfterRecording, [Next]_vars
             PROVE  PlaybackStartsAfterRecording'
    OBVIOUS
<1>0. ControlOK /\ OwnershipInv
      BY DEF IInv, TypeOK
<1> USE <1>0 DEF ControlOK, PlaybackStartsAfterRecording, codec, call, Goto, Return
<1>1. ASSUME NEW s \in Streams, OpenStream(s) PROVE PlaybackStartsAfterRecording'
      BY <1>1 DEF OpenStream
<1>2. ASSUME NEW t \in Threads, CallStream(t) \/ CallDevice(t)
      PROVE  PlaybackStartsAfterRecording'
      BY <1>2 DEF CallStream, CallDevice, Enter
<1>3. ASSUME NEW t \in Threads, Step(t) PROVE PlaybackStartsAfterRecording'
  <2>1. CASE \/ LockDev(t) \/ StandbyCall(t) \/ Free(t) \/ IgnoreParams(t)
             \/ RouteParams(t) \/ OrientationParam(t) \/ Route(t) \/ EnterIo(t)
             \/ SelectOut(t) \/ SelectIn(t) \/ Peer(t) \/ PeerClash(t)
             \/ PcmOpens(t) \/ PcmOpenFails(t) \/ IoDone(t)
        BY <2>1
        DEF LockDev, StandbyCall, Free, IgnoreParams, RouteParams, OrientationParam,
            Route, EnterIo, SelectOut, SelectIn, Peer, PeerClash, PcmOpens, PcmOpenFails,
            IoDone
  <2>2. CASE StartStream(t)
        BY <2>2 DEF StartStream, EndsRecording
  <2>3. CASE \/ EndDsp(t) \/ EndCapture(t) \/ EndFlag(t) \/ Playback(t)
             \/ StartDsp(t) \/ StartCapture(t)
        BY <2>3
        DEF EndDsp, EndCapture, EndFlag, Playback, StartDsp, StartCapture, AfterPlayback,
            Unopened
  <2>4. CASE StartFlag(t)
    <3>1. HoldsDev(t)
          BY <2>4 DEF StartFlag, HoldsDev, StartSteps
    <3>2. \A u \in Threads \ {t} : pc[u] \notin {"peer", "open"}
          BY <3>1, OneHolder DEF HoldsDev
    <3> QED
        BY <2>4, <3>2 DEF StartFlag
  <2> QED
      BY <1>3, <2>1, <2>2, <2>3, <2>4 DEF Step, Switch
<1>4. CASE UNCHANGED vars
      BY <1>4 DEF vars
<1> QED
    BY <1>1, <1>2, <1>3, <1>4 DEF Next

(* While the codec nodes open, no playback starts over a recording: the    *)
(* only step that sets isRecording needs the mutex the start holds, and    *)
(* the unlocked switch of a close can only clear it.  Ioctls may fail.     *)
THEOREM PlaybackAfterRecording ==
  ASSUME "open" \notin CodecFaults
  PROVE  Spec => []PlaybackStartsAfterRecording
<1>1. Init => PlaybackStartsAfterRecording
      BY DEF Init, PlaybackStartsAfterRecording
<1> QED
    BY <1>1, PlaybackNext, Invariance, PTL DEF Spec

-----------------------------------------------------------------------------
(* The flag, the capture source and the DSP agree after a switch that ran  *)
(* alone and without a fault.                                              *)

Agree == /\ isRecording <=> capture = "input"
         /\ isRecording <=> dsp = "start"

SwitchPoint(t) ==
  /\ pc[t] = "end_dsp" => Agree
  /\ pc[t] = "end_capture" => dsp = "end"
  /\ pc[t] = "end_flag" => dsp = "end" /\ capture = "output"
  /\ pc[t] \in {"playback", "start_dsp"} => Agree /\ ~isRecording
  /\ pc[t] = "start_flag" => dsp = "start"
  /\ pc[t] = "start_capture" => isRecording /\ dsp = "start"

SwitchInv ==
  /\ ~raced => ~Overlap
  /\ ~raced /\ faults = {} => \A t \in Threads : SwitchPoint(t)
  /\ SwitchAgrees

(* A step of a switch that ends up neither raced nor faulted: it is at its *)
(* next point, or leaves agreement behind.                                 *)
LEMMA SwitchStep ==
  ASSUME ControlOK, SwitchInv, NEW t \in Threads, Switch(t), Races
  PROVE  SwitchInv'
<1> USE DEF ControlOK, Goto, EndSteps, StartSteps
<1> SUFFICES ASSUME ~raced', faults' = {}
             PROVE  (\A u \in Threads : SwitchPoint(u)') /\ SwitchAgrees'
    BY DEF SwitchInv, SwitchAgrees, Races
<1>1. ~Overlap' /\ (~raced \/ Begins)
      BY DEF Races
<1>2. InSwitch(t) /\ \A v \in Threads \ {t} : pc'[v] = pc[v]
      BY DEF Switch, EndDsp, EndCapture, EndFlag, Playback, StartDsp, StartFlag,
         StartCapture, InSwitch
<1>3. \A v \in Threads \ {t} : ~InSwitch(v)'
  <2>1. CASE raced
    <3>1. InSwitch(t)'
          BY <1>1, <1>2, <2>1 DEF Begins, InSwitch
    <3> QED
        BY <1>1, <3>1 DEF Overlap
  <2>2. CASE ~raced
    <3>1. ~Overlap
          BY <2>2 DEF SwitchInv
    <3> QED
        BY <1>2, <3>1 DEF Overlap, InSwitch
  <2> QED
      BY <2>1, <2>2
<1>4. SwitchPoint(t)' /\ (pc'[t] \notin EndSteps \cup StartSteps => Agree')
  <2>1. CASE EndDsp(t)
        BY <2>1 DEF EndDsp, TellDsp, Unopened, SwitchPoint
  <2>2. CASE StartDsp(t)
        BY <2>2 DEF StartDsp, TellDsp, Unopened, SwitchPoint
  <2>3. CASE pc[t] \notin {"end_dsp", "start_dsp"}
    <3>1. ~raced
          BY <1>1, <1>2, <2>3 DEF Begins
    <3>2. faults = {}
          BY <2>3
          DEF Switch, EndDsp, EndCapture, EndFlag, Playback, StartDsp, StartFlag,
              StartCapture, Select
    <3>3. SwitchPoint(t)
          BY <3>1, <3>2 DEF SwitchInv
    <3>4. CASE EndCapture(t)
          BY <3>3, <3>4 DEF EndCapture, Select, SwitchPoint
    <3>5. CASE EndFlag(t)
          BY <3>3, <3>5 DEF EndFlag, AfterEnd, SwitchPoint, Agree
    <3>6. CASE Playback(t)
          BY <3>3, <3>6 DEF Playback, AfterPlayback, SwitchPoint, Agree
    <3>7. CASE StartFlag(t)
          BY <3>3, <3>7 DEF StartFlag, SwitchPoint
    <3>8. CASE StartCapture(t)
          BY <3>3, <3>8 DEF StartCapture, Select, SwitchPoint, Agree
    <3> QED
        BY <2>3, <3>4, <3>5, <3>6, <3>7, <3>8 DEF Switch, EndDsp, StartDsp
  <2> QED
      BY <2>1, <2>2, <2>3 DEF Switch, EndCapture, EndFlag, Playback, StartFlag, StartCapture
<1>5. \A u \in Threads : SwitchPoint(u)'
      BY <1>3, <1>4 DEF SwitchPoint, InSwitch
<1> QED
    BY <1>4, <1>5 DEF SwitchAgrees, Agree

(* A step of a thread outside a switch, which may enter one: with no other *)
(* in a switch, it enters it on agreement.                                 *)
LEMMA SwitchEntered ==
  ASSUME ControlOK, SwitchInv, NEW t \in Threads, ~InSwitch(t),
         \A v \in Threads \ {t} : pc'[v] = pc[v],
         InSwitch(t)' =>
           pc'[t] = "end_dsp" \/ (pc'[t] \in {"playback", "start_dsp"} /\ ~isRecording),
         UNCHANGED codec, Races
  PROVE  SwitchInv'
<1> USE DEF ControlOK, EndSteps, StartSteps, codec
<1> SUFFICES ASSUME ~raced', faults = {}
             PROVE  (\A u \in Threads : SwitchPoint(u)') /\ SwitchAgrees'
    BY DEF SwitchInv, SwitchAgrees, Races
<1>1. ~Begins
      BY DEF Begins, InSwitch
<1>2. ~raced /\ ~Overlap'
      BY <1>1 DEF Races
<1>3. \A u \in Threads \ {t} : SwitchPoint(u)'
      BY <1>2 DEF SwitchInv, SwitchPoint, Agree
<1>4. SwitchAgrees'
      BY <1>2 DEF SwitchInv, SwitchAgrees, InSwitch
<1>5. SwitchPoint(t)'
  <2>1. CASE ~InSwitch(t)'
        BY <2>1 DEF SwitchPoint, InSwitch
  <2>2. CASE InSwitch(t)'
    <3>1. \A v \in Threads : ~InSwitch(v)
          BY <1>2, <2>2 DEF Overlap, InSwitch
    <3>2. Agree
          BY <1>2, <3>1 DEF SwitchInv, SwitchAgrees, InSwitch, Agree
    <3> QED
        BY <2>2, <3>2 DEF SwitchPoint, Agree
  <2> QED
      BY <2>1, <2>2
<1> QED
    BY <1>3, <1>4, <1>5

LEMMA SwitchNext == IInv /\ SwitchInv /\ [Next]_vars => SwitchInv'
<1> SUFFICES ASSUME IInv, SwitchInv, [Next]_vars PROVE SwitchInv'
    OBVIOUS
<1>0. ControlOK
      BY DEF IInv, TypeOK
<1>1. CASE UNCHANGED vars
      BY <1>1
      DEF vars, codec, SwitchInv, SwitchAgrees, SwitchPoint, Agree, Overlap, InSwitch
<1> SUFFICES ASSUME Next, Races PROVE SwitchInv'
    BY <1>1 DEF Next
<1> USE <1>0 DEF ControlOK, codec, call, Goto, Return
<1>2. ASSUME NEW s \in Streams, OpenStream(s) PROVE SwitchInv'
  <2>1. UNCHANGED <<pc, isRecording, capture, dsp, faults>>
        BY <1>2 DEF OpenStream
  <2>2. ~Begins
        BY <2>1 DEF Begins
  <2> QED
      BY <2>1, <2>2
      DEF Races, SwitchInv, SwitchAgrees, SwitchPoint, Agree, Overlap, InSwitch
<1>3. ASSUME NEW t \in Threads, CallStream(t) \/ CallDevice(t) PROVE SwitchInv'
      BY <1>3, SwitchEntered
      DEF CallStream, CallDevice, Enter, InSwitch, EndSteps, StartSteps
<1>4. ASSUME NEW t \in Threads, Step(t) PROVE SwitchInv'
  <2>1. CASE Switch(t)
        BY <2>1, SwitchStep
  <2>2. CASE \/ LockDev(t) \/ StandbyCall(t) \/ Free(t) \/ IgnoreParams(t)
             \/ RouteParams(t) \/ OrientationParam(t) \/ Route(t) \/ EnterIo(t)
             \/ Peer(t) \/ PeerClash(t) \/ PcmOpens(t) \/ PcmOpenFails(t) \/ IoDone(t)
        BY <2>2, SwitchEntered
        DEF LockDev, StandbyCall, Free, IgnoreParams, RouteParams, OrientationParam,
            Route, EnterIo, Peer, PeerClash, PcmOpens, PcmOpenFails, IoDone, InSwitch,
            EndSteps, StartSteps
  <2>3. CASE SelectOut(t) \/ SelectIn(t) \/ StartStream(t)
        BY <2>3, SwitchEntered
        DEF SelectOut, SelectIn, StartStream, EndsRecording, InSwitch, EndSteps,
            StartSteps
  <2> QED
      BY <1>4, <2>1, <2>2, <2>3 DEF Step
<1> QED
    BY <1>2, <1>3, <1>4 DEF Next

(* Flag, capture source and DSP mode agree after any switch that ran alone *)
(* and met no fault, whatever races with a close and whatever faults came  *)
(* before it.                                                              *)
THEOREM SwitchAgreement == Spec => []SwitchAgrees
<1>1. Init => SwitchInv
      BY DEF Init, SwitchInv, SwitchAgrees, SwitchPoint, Overlap, InSwitch, EndSteps,
         StartSteps
<1>2. Spec => []SwitchInv
      BY <1>1, SwitchNext, Invariance, PTL DEF Spec
<1>3. SwitchInv => SwitchAgrees
      BY DEF SwitchInv
<1> QED
    BY <1>2, <1>3, PTL

-----------------------------------------------------------------------------
(* A start and the mutex of its peer.                                      *)

LEMMA AliveNext ==
  ASSUME ~RateClash(44100, ScoRate), ~RateClash(ScoRate, 44100)
  PROVE  ControlOK /\ PeerGivenBack /\ [Next]_vars => PeerGivenBack'
<1> SUFFICES ASSUME ControlOK, Alive, [Next]_vars PROVE Alive'
    BY DEF PeerGivenBack
<1> USE DEF ControlOK, Alive, call, Goto, Return
<1>1. ASSUME NEW t \in Threads PROVE ~PeerClash(t)
  <2>1. \A p : Rate(p) \in {44100, ScoRate}
        BY DEF Rate
  <2>2. \A x : ~RateClash(x, x)
        BY DEF RateClash
  <2> QED
      BY <2>1, <2>2 DEF PeerClash, Clashes
<1>2. ASSUME NEW s \in Streams, OpenStream(s) PROVE Alive'
      BY <1>2 DEF OpenStream
<1>3. ASSUME NEW t \in Threads, CallStream(t) \/ CallDevice(t) PROVE Alive'
      BY <1>3 DEF CallStream, CallDevice, Enter
<1>4. ASSUME NEW t \in Threads, Step(t), ~Switch(t) PROVE Alive'
      BY <1>1, <1>4
      DEF Step, LockDev, StandbyCall, Free, IgnoreParams, RouteParams, OrientationParam,
          SelectOut, SelectIn, Route, EnterIo, StartStream, Peer, PcmOpens,
          PcmOpenFails, IoDone
<1>5. ASSUME NEW t \in Threads, Switch(t) PROVE Alive'
      BY <1>5
      DEF Switch, EndDsp, EndCapture, EndFlag, Playback, StartDsp, StartFlag,
          StartCapture, AfterEnd, AfterPlayback
<1>6. CASE UNCHANGED vars
      BY <1>6 DEF vars
<1> QED
    BY <1>2, <1>3, <1>4, <1>5, <1>6 DEF Next

(* As long as SCO_SAMPLING_RATE is of the group of the other rates, no     *)
(* start loses the pointer through which it gives its peer's mutex back.   *)
THEOREM PeerSafety ==
  ASSUME ~RateClash(44100, ScoRate), ~RateClash(ScoRate, 44100)
  PROVE  Spec => []PeerGivenBack
<1>1. Init => PeerGivenBack
      BY DEF Init, PeerGivenBack, Alive
<1>2. IInv => ControlOK
      BY DEF IInv, TypeOK
<1> QED
    BY <1>1, <1>2, AliveNext, Invariance, PTL DEF Spec
=============================================================================
