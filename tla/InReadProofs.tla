---------------------------- MODULE InReadProofs ----------------------------
(* The capture buffer of InRead, for every period and request size.        *)
EXTENDS InRead, TLAPS

(* What is served lies in the period and what is left in it is never       *)
(* negative; an error leaves nothing behind.  Together they are inductive: *)
(* the types alone do not bound frames_in - used from below.               *)
FramesInv == TypeOK /\ ServedInsidePeriod /\ ErrorIsRetried

LEMMA FramesInit == Init => FramesInv
<1> SUFFICES ASSUME Init PROVE FramesInv
  OBVIOUS
<1>1. standby \in BOOLEAN /\ reading \in BOOLEAN
  BY Zenon DEF Init
<1>2. frames_in \in 0..PERIOD /\ frames_wr \in 0..WANTED /\ frame_count \in 0..PERIOD
  BY FramesAssumption DEF FramesAssumption, Init
<1>3. frame_count <= frames_in
  BY DEF Init
<1> QED
  BY <1>1, <1>2, <1>3, Zenon
     DEF Init, FramesInv, TypeOK, ServedInsidePeriod, ErrorIsRetried

LEMMA FramesStep == FramesInv /\ [Next]_vars => FramesInv'
<1> SUFFICES ASSUME FramesInv, [Next]_vars PROVE FramesInv'
  OBVIOUS
<1> USE FramesAssumption
    DEF FramesAssumption, FramesInv, TypeOK, ServedInsidePeriod, ErrorIsRetried
<1>1. CASE StartRead
  <2>1. standby' \in BOOLEAN /\ reading' \in BOOLEAN
    BY <1>1, Zenon DEF StartRead
  <2>2. /\ buffer' \in {"none", "malloc", "samples"}
        /\ frames_wr' \in 0..WANTED
        /\ UNCHANGED <<frames_in, read_status, frame_count, served>>
    BY <1>1 DEF StartRead, pulled
  <2> QED
    BY <2>1, <2>2
<1>2. CASE Standby
  BY <1>2 DEF Standby, reader, pulled
<1>3. CASE Fill
  BY <1>3 DEF Fill, Pulling, reader
<1>4. CASE ServeRest
  <2>1. PICK n \in 1..PERIOD : frame_count' = Least(n, frames_in)
    BY <1>4 DEF ServeRest
  <2> QED
    BY <1>4, <2>1 DEF ServeRest, Least, stream, reader
<1>5. CASE FillFails
  BY <1>5 DEF FillFails, Pulling, pulled
<1>6. CASE Release
  BY <1>6 DEF Release
<1>7. CASE UNCHANGED vars
  BY <1>7 DEF vars, stream, reader, pulled
<1> QED
  BY <1>1, <1>2, <1>3, <1>4, <1>5, <1>6, <1>7 DEF Next

(* The count of frames left never leaves the period, nor that of frames    *)
(* written the request.                                                    *)
THEOREM Typing == Spec => []TypeOK
<1>1. FramesInv => TypeOK
  BY DEF FramesInv
<1> QED
  BY <1>1, FramesInit, FramesStep, PTL DEF Spec

(* The resampler is never given frames from outside the period that was    *)
(* read (get_next_buffer, release_buffer).                                 *)
THEOREM FramesInside == Spec => []ServedInsidePeriod
<1>1. FramesInv => ServedInsidePeriod
  BY DEF FramesInv
<1> QED
  BY <1>1, FramesInit, FramesStep, PTL DEF Spec

(* A failed pcm_read is retried by the next read.                          *)
THEOREM ErrorsAreRetried == Spec => []ErrorIsRetried
<1>1. FramesInv => ErrorIsRetried
  BY DEF FramesInv
<1> QED
  BY <1>1, FramesInit, FramesStep, PTL DEF Spec

(* The stream goes to standby only with nothing left of its last period.   *)
EmptyStandby == [][Standby => frames_in = 0]_vars

(* Frames that are left are then samples of a stream that still runs.      *)
SamplesInv ==
  /\ FramesInv
  /\ reading => ~standby
  /\ frames_in > 0 => buffer = "samples" /\ ~standby
  /\ OnlyKernelFrames

LEMMA SamplesStep ==
  ASSUME SamplesInv, [Next]_vars, Standby => frames_in = 0
  PROVE  SamplesInv'
<1> USE DEF SamplesInv, OnlyKernelFrames
<1>1. FramesInv'
  BY FramesStep
<1>2. frames_in \in Nat
  BY FramesAssumption DEF FramesAssumption, FramesInv, TypeOK
<1>3. CASE StartRead
  BY <1>1, <1>2, <1>3 DEF StartRead, pulled
<1>4. CASE Standby
  <2>1. reading' = reading /\ standby' = TRUE /\ ~reading /\ served' = served
    BY <1>4 DEF Standby, reader, pulled
  <2>2. frames_in' = 0
    BY <1>4 DEF Standby
  <2> QED
    BY <1>1, <2>1, <2>2
<1>5. CASE Fill
  BY <1>1, <1>5 DEF Fill, Pulling, reader
<1>6. CASE ServeRest
  BY <1>1, <1>6 DEF ServeRest, stream, reader
<1>7. CASE FillFails
  BY <1>1, <1>7 DEF FillFails, pulled
<1>8. CASE Release
  <2>1. frames_in' \in Nat => frames_in' <= frames_in
    BY <1>2, <1>8, FramesAssumption
       DEF Release, FramesAssumption, FramesInv, TypeOK, ServedInsidePeriod
  <2> QED
    BY <1>1, <1>2, <1>8, <2>1 DEF Release, FramesInv, TypeOK
<1>9. CASE UNCHANGED vars
  BY <1>1, <1>9 DEF vars, stream, reader, pulled
<1> QED
  BY <1>3, <1>4, <1>5, <1>6, <1>7, <1>8, <1>9 DEF Next

(* What hands the resampler frames that were never read is the frames_in   *)
(* a standby leaves behind and nothing else: as long as it leaves none,    *)
(* all that is served comes from the PCM (318-338, 507-529).               *)
THEOREM KernelFramesIfEmpty == Spec /\ EmptyStandby => []OnlyKernelFrames
<1>1. Init => SamplesInv
  BY FramesInit DEF Init, SamplesInv, OnlyKernelFrames
<1>2. SamplesInv /\ [Next]_vars /\ [Standby => frames_in = 0]_vars => SamplesInv'
  <2>1. SamplesInv /\ UNCHANGED vars => SamplesInv'
    BY FramesStep
       DEF SamplesInv, OnlyKernelFrames, vars, stream, reader, pulled
  <2> QED
    BY <2>1, SamplesStep
<1>3. SamplesInv => OnlyKernelFrames
  BY DEF SamplesInv
<1> QED
  BY <1>1, <1>2, <1>3, PTL DEF Spec, EmptyStandby
=============================================================================
