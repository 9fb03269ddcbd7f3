----------------------------- MODULE PcmSession -----------------------------
(***************************************************************************)
(* What the audio HAL promises of each stream, whatever its threads do: a  *)
(* PCM is closed only between transfers, a stream is freed only once its   *)
(* PCM is closed, and one transfer at a time uses it.                      *)
(***************************************************************************)

CONSTANT Streams

VARIABLE phase     \* of each stream: absent, standby, open or busy

Phases == {"absent", "standby", "open", "busy"}

Become(s, from, to) ==
  /\ phase[s] \in from
  /\ phase' = [phase EXCEPT ![s] = to]

Init == phase = [s \in Streams |-> "absent"]

Create(s) == Become(s, {"absent"}, "standby")
Transfer(s) == Become(s, {"standby", "open"}, "busy")
Finish(s) == Become(s, {"busy"}, "open")
Park(s) == Become(s, {"open"}, "standby")
Destroy(s) == Become(s, {"standby"}, "absent")

Next ==
  \E s \in Streams :
    Create(s) \/ Transfer(s) \/ Finish(s) \/ Park(s) \/ Destroy(s)

Spec == Init /\ [][Next]_phase
=============================================================================
