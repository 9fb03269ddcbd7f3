------------------------------ MODULE LockOrder ------------------------------
(***************************************************************************)
(* The discipline of the mutexes of the audio HAL, whatever its calls do   *)
(* with them (NOTE of src/audio/audio_hw.c, lines 186-189): the mutex of   *)
(* the audio_device is taken first, a stream's only under it, and a mutex  *)
(* is given back by the thread that holds it.  The device mutex may be     *)
(* given up in the same step, before the stream's; a thread that has only  *)
(* a stream's goes on to give it back.                                     *)
(***************************************************************************)
CONSTANTS Threads, Streams, NULL

VARIABLES
  device,     \* the holder of audio_device.lock, or NULL
  stream      \* the holder of each stream's lock, or NULL

vars == <<device, stream>>

Init == device = NULL /\ stream = [s \in Streams |-> NULL]

GiveDevice(t) == device = t /\ device' = NULL

TakeDevice(t) ==
  /\ device = NULL /\ \A s \in Streams : stream[s] # t
  /\ device' = t
  /\ UNCHANGED stream

ReleaseDevice(t) == GiveDevice(t) /\ UNCHANGED stream

TakeStream(t, s) ==
  /\ device = t /\ stream[s] = NULL
  /\ stream' = [stream EXCEPT ![s] = t]
  /\ UNCHANGED device \/ GiveDevice(t)

ReleaseStream(t, s) ==
  /\ stream[s] = t
  /\ stream' = [stream EXCEPT ![s] = NULL]
  /\ UNCHANGED device \/ GiveDevice(t)

Next ==
  \E t \in Threads :
    \/ TakeDevice(t) \/ ReleaseDevice(t)
    \/ \E s \in Streams : TakeStream(t, s) \/ ReleaseStream(t, s)

Spec == Init /\ [][Next]_vars
=============================================================================
