-------------------------------- MODULE Batch --------------------------------
(***************************************************************************)
(* What the caller of ComputeDifferences (src/releasetools/common.py) is   *)
(* promised: between the call and its return each result is written at     *)
(* most once, and none is written before the one or after the other.       *)
(***************************************************************************)
CONSTANTS
  Items,     \* the Difference objects
  Results,   \* what a computation may leave
  None       \* no result

VARIABLES phase, result

vars == <<phase, result>>

Init == phase = "before" /\ result = [i \in Items |-> None]

Begin == phase = "before" /\ phase' = "running" /\ UNCHANGED result

Produce(i) ==
  /\ phase = "running" /\ result[i] = None
  /\ \E r \in Results : result' = [result EXCEPT ![i] = r]
  /\ UNCHANGED phase

End == phase = "running" /\ phase' = "over" /\ UNCHANGED result

Next == Begin \/ End \/ \E i \in Items : Produce(i)

Spec == Init /\ [][Next]_vars
=============================================================================
