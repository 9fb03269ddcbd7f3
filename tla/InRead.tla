------------------------------- MODULE InRead -------------------------------
(***************************************************************************)
(* Capture through the resampler (src/audio/audio_hw.c): in_read asks      *)
(* read_frames for frames, the resampler pulls them from get_next_buffer   *)
(* and release_buffer, and a partly used period waits in in->buffer for    *)
(* the next pull.                                                          *)
(*                                                                         *)
(* One stream_in whose rate is not that of its port, and its reader, which *)
(* holds in->lock for a whole in_read; standby comes between two reads.    *)
(***************************************************************************)
EXTENDS Naturals

CONSTANTS
  PERIOD,     \* period_size of the port
  WANTED      \* frames a read asks for

ASSUME FramesAssumption == PERIOD \in Nat \ {0} /\ WANTED \in Nat \ {0}

VARIABLES
  standby,       \* stream_in.standby
  frames_in,     \* stream_in.frames_in
  buffer,        \* what in->buffer holds: nothing, what malloc left, samples
  read_status,   \* stream_in.read_status: whether it is 0
  reading,       \* whether a read_frames is under way
  frames_wr,     \* frames it has put out
  frame_count,   \* size of the resampler buffer between get and release
  served         \* what that buffer holds

stream == <<standby, frames_in, buffer, read_status>>
reader == <<reading, frames_wr>>
pulled == <<frame_count, served>>
vars == <<stream, reader, pulled>>

Init ==
  /\ standby = TRUE /\ frames_in = 0 /\ buffer = "none"
  /\ read_status = "ok"
  /\ reading = FALSE /\ frames_wr = 0
  /\ frame_count = 0 /\ served = "none"

-----------------------------------------------------------------------------
(* Start and standby.                                                      *)

(* in_read up to read_frames; start_input_stream allocates the buffer.     *)
StartRead ==
  /\ ~reading
  /\ reading' = TRUE /\ frames_wr' = 0
  /\ standby' = FALSE
  /\ buffer' = IF standby THEN "malloc" ELSE buffer
  /\ UNCHANGED <<frames_in, read_status, pulled>>

(* in_standby and the other callers of do_in_standby.                      *)
Standby ==
  /\ ~reading /\ ~standby
  /\ standby' = TRUE /\ buffer' = "none"
  /\ UNCHANGED <<frames_in, read_status, reader, pulled>>

-----------------------------------------------------------------------------
(* get_next_buffer, with pcm open: the resampler asks for n frames.        *)

Pulling == reading /\ frame_count = 0

Least(a, b) == IF a < b THEN a ELSE b

(* An empty buffer is filled by a pcm_read of one period.                  *)
Fill ==
  /\ Pulling /\ frames_in = 0
  /\ frames_in' = PERIOD /\ buffer' = "samples" /\ read_status' = "ok"
  /\ \E n \in 1..PERIOD : frame_count' = n
  /\ served' = "samples"
  /\ UNCHANGED <<standby, reader>>

(* What is left of the last period is served first.                        *)
MutantServeRest ==                   \* not cut to what is left
  /\ Pulling /\ frames_in > 0
  /\ \E n \in 1..PERIOD : frame_count' = n
  /\ served' = buffer
  /\ UNCHANGED <<stream, reader>>

ServeRest ==
  /\ Pulling /\ frames_in > 0
  /\ \E n \in 1..PERIOD : frame_count' = Least(n, frames_in)
  /\ served' = buffer
  /\ UNCHANGED <<stream, reader>>

(* pcm_read fails: read_frames returns the status and in_read ends.        *)
MutantFillFails ==                   \* takes the period for read
  /\ Pulling /\ frames_in = 0
  /\ frames_in' = PERIOD /\ read_status' = "error"
  /\ reading' = FALSE
  /\ UNCHANGED <<standby, buffer, frames_wr, pulled>>

FillFails ==
  /\ Pulling /\ frames_in = 0
  /\ read_status' = "error"
  /\ reading' = FALSE
  /\ UNCHANGED <<standby, frames_in, buffer, frames_wr, pulled>>

(* release_buffer; the resampler may use less than it was given, but not   *)
(* nothing.  read_frames puts out what the resampler made of it and looks  *)
(* at read_status.                                                         *)
Release ==
  /\ reading /\ frame_count > 0
  /\ \E used \in 1..frame_count : frames_in' = frames_in - used
  /\ \E out \in 0..(WANTED - frames_wr) :
       /\ frames_wr' = frames_wr + out
       /\ reading' = (read_status = "ok" /\ frames_wr' < WANTED)
  /\ frame_count' = 0 /\ served' = "none"
  /\ UNCHANGED <<standby, buffer, read_status>>

Next ==
  \/ StartRead \/ Standby
  \/ Fill \/ ServeRest \/ FillFails \/ Release

Spec == Init /\ [][Next]_vars

-----------------------------------------------------------------------------
(* Properties.                                                             *)

(* The types; a running stream has a buffer.                               *)
TypeOK ==
  /\ standby \in BOOLEAN /\ reading \in BOOLEAN
  /\ frames_in \in 0..PERIOD /\ frames_wr \in 0..WANTED
  /\ buffer \in {"none", "malloc", "samples"}
  /\ served \in {"none", "malloc", "samples"}
  /\ read_status \in {"ok", "error"}
  /\ frame_count \in 0..PERIOD

(* The frames handed to the resampler lie inside the period in in->buffer: *)
(* they start at PERIOD - frames_in, so there are at most frames_in of     *)
(* them, and frames_in never wraps below zero or passes the period (lines  *)
(* 527-529, 546).                                                          *)
ServedInsidePeriod == frame_count <= frames_in /\ frames_in \in 0..PERIOD

(* A failed pcm_read is not remembered: as long as read_status is set the  *)
(* buffer is empty, so the next read tries the PCM again rather than fail  *)
(* on frames it has (507-516, 577-580).                                    *)
ErrorIsRetried == read_status = "error" => frames_in = 0

(* "read_frames() reads frames from kernel driver" (549): what it hands to *)
(* the resampler was read from the PCM, not left by the allocation.        *)
OnlyKernelFrames == served # "malloc"
=============================================================================
