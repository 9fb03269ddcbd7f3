----------------------------- MODULE OutWriteMC -----------------------------
(* Instances of OutWrite for TLC: periods of 4 frames, a long buffer of 4  *)
(* periods.  A frame lasts less than MIN_WRITE_SLEEP_US.                   *)
EXTENDS OutWrite

(* What the stack slot of kernel_frames holds: a negative number, or more  *)
(* or fewer frames than the kernel has.                                    *)
StackSlots == {-10, 0, 7, 16}
=============================================================================
