--------------------------- MODULE OutWriteProofs ---------------------------
(* The playback buffer control of OutWrite, for every period, period count *)
(* and rate.                                                               *)
EXTENDS OutWrite, TLAPS

-----------------------------------------------------------------------------
(* Sizes.                                                                  *)

LEMMA Sizes ==
  /\ PERIOD \in Nat \ {0} /\ SHORT \in Nat /\ LONG \in Nat /\ SCO \in Nat \ {0}
  /\ RATE \in Nat \ {0} /\ MIN_SLEEP \in Nat \ {0}
  /\ PERIOD % 4 = 0 /\ RATE % 100 = 0 /\ 2 <= SHORT /\ SHORT <= LONG
  BY SizesAssumption DEF SizesAssumption

(* A quarter of a period and the two targets of the threshold.             *)
LEMMA Targets ==
  /\ PERIOD \div 4 \in Nat /\ PERIOD \div 4 <= PERIOD
  /\ PERIOD * SHORT \in Nat /\ PERIOD * LONG \in Nat
  /\ 2 * PERIOD <= PERIOD * SHORT
  /\ PERIOD * SHORT <= PERIOD * LONG
<1>1. PERIOD \div 4 \in Nat /\ PERIOD \div 4 <= PERIOD
  BY Sizes
<1>2. \A a, b, c \in Nat : a <= b => c * a <= c * b
  OBVIOUS
<1>3. PERIOD * 2 <= PERIOD * SHORT /\ PERIOD * SHORT <= PERIOD * LONG
  BY <1>2, Sizes
<1> QED
  BY <1>1, <1>3, Sizes

LEMMA Quotient ==
  ASSUME NEW a \in Nat, NEW b \in Nat \ {0}
  PROVE  a \div b \in Nat /\ (a \div b) * b <= a
  OBVIOUS

LEMMA SleepTime == ASSUME NEW n \in Int PROVE SleepFor(n) \in Int
<1>1. RATE \div 100 \in Nat \ {0}
  BY Sizes
<1> QED
  BY <1>1 DEF SleepFor

LEMMA LongestSleep == MAX_SLEEP \in Nat
<1>1. RATE \div 100 \in Nat \ {0} /\ PERIOD * SHORT * 10000 \in Nat
  BY Sizes, Targets
<1> QED
  BY <1>1, Quotient DEF MAX_SLEEP, SleepFor

LEMMA Buffer == BufferSize \in Nat
  BY Sizes, Targets DEF BufferSize

-----------------------------------------------------------------------------
(* The types.                                                              *)

(* A stream whose write is under way is not on standby, and one on standby *)
(* has nothing in the kernel: with the types inductive, as Write moves the *)
(* state of a PCM that must be open and a start changes the buffer size.   *)
WriteInv ==
  /\ TypeOK
  /\ pc # "idle" => ~standby
  /\ standby => kernel = 0

LEMMA WriteInit == Init => WriteInv
<1> SUFFICES ASSUME Init PROVE WriteInv
  OBVIOUS
<1>1. /\ {screen_off, active_in, hdmi, sco, standby} \subseteq BOOLEAN
      /\ standby /\ pcm = "none"
  BY Zenon DEF Init
<1>2. kernel \in 0..BufferSize
  BY Buffer DEF Init
<1> QED
  BY <1>1, <1>2 DEF Init, WriteInv, TypeOK

LEMMA WriteStep == WriteInv /\ [Next]_vars => WriteInv'
<1> SUFFICES ASSUME WriteInv, [Next]_vars PROVE WriteInv'
  OBVIOUS
<1> USE Buffer DEF WriteInv, TypeOK
<1>1. CASE DeviceChanges
  <2>1. screen_off' \in BOOLEAN /\ active_in' \in BOOLEAN /\ sco' \in BOOLEAN
    BY <1>1, Zenon DEF DeviceChanges
  <2>2. UNCHANGED <<hdmi, stream, driver, locals, pc>>
    BY <1>1 DEF DeviceChanges
  <2>3. {screen_off', active_in', hdmi', sco', standby'} \subseteq BOOLEAN
    BY <2>1, <2>2, Zenon DEF stream
  <2> QED
    BY <2>2, <2>3 DEF stream, threshold, driver, locals, BufferSize
<1>2. CASE StandbyOrRoute
  <2>1. /\ pc = "idle" /\ standby' = TRUE /\ pcm' = "none" /\ kernel' = 0
        /\ UNCHANGED <<pcm_config, threshold, locals, pc>>
    BY <1>2 DEF StandbyOrRoute, Stop
  <2>2. {screen_off', active_in', hdmi', sco', standby'} \subseteq BOOLEAN
    <3>1. CASE UNCHANGED device
      BY <2>1, <3>1, Zenon DEF device
    <3>2. CASE hdmi' \in BOOLEAN /\ sco' \in BOOLEAN
                 /\ UNCHANGED <<screen_off, active_in>>
      BY <2>1, <3>2, Zenon
    <3> QED
      BY <1>2, <3>1, <3>2, Zenon DEF StandbyOrRoute
  <2> QED
    BY <2>1, <2>2 DEF threshold, locals, BufferSize
<1>3. CASE Play
  <2>1. PICK d \in Drains :
          /\ kernel' = IF kernel > d THEN kernel - d ELSE 0
          /\ pcm' = IF kernel > d THEN "running" ELSE "xrun"
    BY <1>3 DEF Play
  <2>2. d \in Nat
    BY InputsAssumption DEF InputsAssumption
  <2>3. pcm = "running" /\ UNCHANGED <<device, stream, locals, pc>>
    BY <1>3 DEF Play
  <2> QED
    BY <2>1, <2>2, <2>3 DEF device, stream, threshold, locals, BufferSize
<1>4. CASE Begin
  <2>1. /\ standby' = FALSE
        /\ total_sleep_time_us' = 0 /\ UNCHANGED <<device, kernel>>
        /\ pc' \in {"write", "look"}
    BY <1>4 DEF Begin
  <2>2. kernel_frames' \in Int
    BY <1>4, InputsAssumption DEF Begin, InputsAssumption
  <2>3. /\ buffer_type' \in {"UNKNOWN", "SHORT", "LONG"}
        /\ write_threshold' \in {0, PERIOD * SHORT, PERIOD * LONG}
        /\ cur_write_threshold' \in Int
    BY <1>4, Targets DEF Begin, AdaptThreshold, Started, WantedType, Periods
  <2>4. pcm' \in {"prepared", "running", "xrun"}
    BY <1>4 DEF Begin
  <2>5. /\ UNCHANGED <<screen_off, active_in, hdmi, sco, kernel>>
        /\ pcm_config' \in {"none", "out", "sco"}
    BY <1>4, <2>1 DEF device, Begin, Config
  <2>6. {screen_off', active_in', hdmi', sco', standby'} \subseteq BOOLEAN
    BY <2>1, <2>5, Zenon
  <2>7. standby' <=> pcm' = "none"
    BY <2>1, <2>4
  <2>8. kernel' \in 0..BufferSize' /\ total_sleep_time_us' \in Int
    <3>1. CASE standby
      <4>1. BufferSize' \in Nat
        BY Sizes, Targets DEF BufferSize
      <4> QED
        BY <2>1, <2>5, <3>1, <4>1
    <3>2. CASE ~standby
      BY <1>4, <2>1, <2>5, <3>2 DEF Begin, Config, BufferSize
    <3> QED
      BY <3>1, <3>2
  <2> QED
    BY <2>1, <2>2, <2>3, <2>4, <2>5, <2>6, <2>7, <2>8, Zenon
<1>5. CASE BeginFails
  <2>1. /\ buffer_type' \in {"UNKNOWN", "SHORT", "LONG"}
        /\ pcm_config' \in {"none", "out", "sco"}
    BY <1>5 DEF BeginFails, Started, Config
  <2>2. BufferSize' \in Nat
    BY Sizes, Targets DEF BufferSize
  <2> QED
    BY <1>5, <2>1, <2>2 DEF BeginFails, device, driver, locals
<1>6. CASE LookFails
  BY <1>6 DEF LookFails, device, stream, threshold, driver, locals, BufferSize
<1>7. CASE LookEnough
  BY <1>7 DEF LookEnough, device, stream, threshold, driver, BufferSize
<1>8. CASE LookSleep
  <2>1. SleepFor(kernel - cur_write_threshold) \in Int
    BY SleepTime
  <2>2. total_sleep_time_us' \in Int /\ kernel_frames' \in Int
    BY <1>8, <2>1, LongestSleep DEF LookSleep, Limited
  <2>3. /\ pc' \in {"look", "adjust"} /\ pc = "look"
        /\ UNCHANGED <<device, stream, driver>>
    BY <1>8 DEF LookSleep
  <2> QED
    BY <2>2, <2>3 DEF device, stream, threshold, driver, BufferSize
<1>9. CASE Adjust
  <2>1. JustAbove(kernel_frames) \in Int
    BY Sizes DEF JustAbove
  <2>2. StepUp \in Int /\ StepDown \in Int
    BY Targets DEF StepUp, StepDown, Least, Most
  <2>3. cur_write_threshold' \in Int
    BY <1>9, <2>1, <2>2 DEF Adjust
  <2> QED
    BY <1>9, <2>3 DEF Adjust, device, driver, BufferSize
<1>10. CASE Write
  <2>1. /\ pc' = "idle" /\ UNCHANGED <<device, stream, locals>>
        /\ pcm # "none"
    BY <1>10 DEF Write
  <2>2. pcm' \in {"prepared", "running", pcm} /\ kernel' \in 0..BufferSize
    BY <1>10, Sizes DEF Write
  <2> QED
    BY <2>1, <2>2 DEF device, stream, threshold, locals, BufferSize
<1>11. CASE UNCHANGED vars
  BY <1>11 DEF vars, device, stream, threshold, driver, locals, BufferSize
<1> QED
  BY <1>1, <1>2, <1>3, <1>4, <1>5, <1>6, <1>7, <1>8, <1>9, <1>10, <1>11 DEF Next

(* The types; a stream has a PCM exactly when it is not on standby, and    *)
(* the kernel never holds more than the buffer of the port.                *)
THEOREM Typing == Spec => []TypeOK
<1>1. WriteInv => TypeOK
  BY DEF WriteInv
<1> QED
  BY <1>1, WriteInit, WriteStep, PTL DEF Spec

-----------------------------------------------------------------------------
(* The target of the threshold.                                            *)

(* The target is the one of the buffer type, once there is one.            *)
TargetInv ==
  buffer_type # "UNKNOWN" => write_threshold = PERIOD * Periods(buffer_type)

LEMMA TargetStep == TargetInv /\ [Next]_vars => TargetInv'
<1> SUFFICES ASSUME TargetInv, [Next]_vars PROVE TargetInv'
  OBVIOUS
<1>1. CASE Begin
  BY <1>1 DEF Begin, AdaptThreshold, Started, WantedType, Periods, TargetInv
<1>2. CASE BeginFails
  BY <1>2 DEF BeginFails, Started, Periods, TargetInv
<1>3. CASE Adjust
  BY <1>3 DEF Adjust, Periods, TargetInv
<1>4. CASE UNCHANGED <<buffer_type, write_threshold>>
  BY <1>4 DEF Periods, TargetInv
<1> QED
  BY <1>1, <1>2, <1>3, <1>4
     DEF Next, vars, DeviceChanges, StandbyOrRoute, Stop, Play, LookFails,
         LookEnough, LookSleep, Write, stream, threshold

(* Whatever port, standby and screen changes came before, a write aims at  *)
(* the buffer out_get_latency reports (691-694, 737-757).                  *)
THEOREM TargetIsLatency == Spec => ThresholdMatchesLatency
<1>1. Init => TargetInv
  BY DEF Init, TargetInv
<1>2. TargetInv /\ [Next]_vars =>
        [pc = "idle" /\ pc' = "look" => write_threshold' = LatencyFrames]_vars
  <2> SUFFICES ASSUME TargetInv, Next, pc = "idle", pc' = "look"
               PROVE  write_threshold' = LatencyFrames
    OBVIOUS
  <2>1. Begin
    BY DEF Next, DeviceChanges, StandbyOrRoute, Stop, Play, BeginFails,
           LookFails, LookEnough, LookSleep, Adjust, Write
  <2>2. ~sco
    BY <2>1 DEF Begin
  <2>3. write_threshold' = PERIOD * Periods(WantedType)
    BY <2>1, <2>2 DEF Begin, AdaptThreshold, Started, WantedType, TargetInv
  <2> QED
    BY <2>2, <2>3 DEF LatencyFrames, WantedType, Periods
<1> QED
  BY <1>1, <1>2, TargetStep, PTL DEF Spec, ThresholdMatchesLatency

-----------------------------------------------------------------------------
(* The range of the threshold.                                             *)

(* The look of a running PCM is a fill, and the threshold is at most the   *)
(* long buffer.                                                            *)
RangeInv ==
  /\ WriteInv /\ TargetInv
  /\ pc = "adjust" /\ pcm = "running" => kernel_frames \in Nat
  /\ buffer_type # "UNKNOWN" => cur_write_threshold <= PERIOD * LONG

(* A depleted buffer is two periods and more below the long target, which  *)
(* leaves room for the period played, the next one and a quarter.          *)
LEMMA DepletedRange ==
  ASSUME write_threshold \in {PERIOD * SHORT, PERIOD * LONG},
         kernel_frames \in Int, Depleted
  PROVE  /\ JustAbove(kernel_frames) <= PERIOD * LONG
         /\ kernel_frames \in Nat => JustAbove(kernel_frames) >= LOW
<1> DEFINE n == kernel_frames \div PERIOD
<1>1. n \in Int /\ n * PERIOD <= kernel_frames
  BY Sizes
<1>2. n * PERIOD \in Int /\ (n + 1) * PERIOD = n * PERIOD + PERIOD
  BY <1>1, Sizes
<1>3. PERIOD * LONG - kernel_frames > PERIOD * SHORT
  BY Targets DEF Depleted
<1>4. kernel_frames \in Nat => n * PERIOD \in Nat
  BY Quotient, Sizes
<1> HIDE DEF n
<1>5. n * PERIOD + PERIOD + PERIOD \div 4 <= PERIOD * LONG
  BY <1>1, <1>2, <1>3, Targets, Sizes
<1>6. JustAbove(kernel_frames) = n * PERIOD + PERIOD + PERIOD \div 4
  BY <1>2 DEF JustAbove, n
<1> QED
  BY <1>2, <1>4, <1>5, <1>6, Targets, Sizes DEF LOW

(* What a step may do to the threshold of a stream that has a buffer type. *)
Range ==
  buffer_type' # "UNKNOWN" =>
    /\ cur_write_threshold' <= PERIOD * LONG
    /\ \/ cur_write_threshold' >= LOW
       \/ cur_write_threshold' >= cur_write_threshold /\ buffer_type # "UNKNOWN"
       \/ pc = "adjust" /\ pcm # "running" /\ kernel_frames < 0

LEMMA RangeStep ==
  ASSUME RangeInv, [Next]_vars
  PROVE  Range
<1>1. /\ LOW \in Nat /\ PERIOD * LONG \in Nat
      /\ PERIOD * SHORT \in LOW..(PERIOD * LONG) /\ PERIOD * LONG \in LOW..(PERIOD * LONG)
  BY Targets, Sizes DEF LOW
<1>2. cur_write_threshold \in Int /\ kernel_frames \in Int
  BY DEF RangeInv, WriteInv, TypeOK
<1>3. CASE Begin
  BY <1>1, <1>2, <1>3 DEF Begin, AdaptThreshold, Started, WantedType, Periods,
                          RangeInv, Range
<1>4. CASE BeginFails
  BY <1>2, <1>4 DEF BeginFails, Started, RangeInv, Range
<1>5. CASE Adjust
  <2> SUFFICES ASSUME buffer_type' # "UNKNOWN"
               PROVE  /\ cur_write_threshold' <= PERIOD * LONG
                      /\ \/ cur_write_threshold' >= LOW
                         \/ cur_write_threshold' >= cur_write_threshold
                         \/ pcm # "running" /\ kernel_frames < 0
    BY <1>5 DEF Range, Adjust
  <2>1. buffer_type # "UNKNOWN" /\ cur_write_threshold <= PERIOD * LONG
    BY <1>5 DEF Adjust, RangeInv
  <2>2. write_threshold \in {PERIOD * SHORT, PERIOD * LONG}
    BY <2>1 DEF RangeInv, TargetInv, Periods
  <2>3. CASE cur_write_threshold > write_threshold
    <3>1. cur_write_threshold' = StepDown
      BY <1>5, <2>3 DEF Adjust
    <3> QED
      BY <1>1, <1>2, <2>1, <2>2, <2>3, <3>1, Targets DEF StepDown, Most
  <2>4. CASE cur_write_threshold < write_threshold
    <3>1. cur_write_threshold' = StepUp
      BY <1>2, <1>5, <2>2, <2>4, Targets DEF Adjust
    <3> QED
      BY <1>1, <1>2, <2>1, <2>2, <2>4, <3>1, Targets DEF StepUp, Least
  <2>5. CASE ~(cur_write_threshold > write_threshold \/
               cur_write_threshold < write_threshold)
    <3>1. cur_write_threshold' = IF Depleted THEN JustAbove(kernel_frames)
                                 ELSE cur_write_threshold
      BY <1>5, <2>5 DEF Adjust
    <3>2. pcm = "running" => kernel_frames \in Nat
      BY <1>5 DEF Adjust, RangeInv
    <3>3. kernel_frames < 0 \/ kernel_frames \in Nat
      BY <1>2
    <3>4. CASE Depleted
      <4>1. JustAbove(kernel_frames) <= PERIOD * LONG
        BY <1>2, <2>2, <3>4, DepletedRange
      <4>2. kernel_frames \in Nat => JustAbove(kernel_frames) >= LOW
        BY <1>2, <2>2, <3>4, DepletedRange
      <4> QED
        BY <3>1, <3>2, <3>3, <3>4, <4>1, <4>2
    <3>5. CASE ~Depleted
      BY <1>2, <2>1, <3>1, <3>5
    <3> QED
      BY <3>4, <3>5
  <2> QED
    BY <2>3, <2>4, <2>5
<1>6. CASE UNCHANGED threshold
  BY <1>2, <1>6 DEF threshold, RangeInv, Range
<1> QED
  BY <1>3, <1>4, <1>5, <1>6
     DEF Next, vars, DeviceChanges, StandbyOrRoute, Stop, Play, LookFails,
         LookEnough, LookSleep, Write, stream

LEMMA RangeInvStep ==
  ASSUME RangeInv, [Next]_vars
  PROVE  RangeInv'
<1>1. WriteInv' /\ TargetInv'
  BY WriteStep, TargetStep DEF RangeInv
<1>2. buffer_type' # "UNKNOWN" => cur_write_threshold' <= PERIOD * LONG
  BY RangeStep DEF Range
<1>3. ASSUME pc' = "adjust", pcm' = "running" PROVE kernel_frames' \in Nat
  <2>1. kernel \in Nat
    BY Buffer DEF RangeInv, WriteInv, TypeOK
  <2>2. CASE LookEnough \/ LookSleep
    BY <2>1, <2>2 DEF LookEnough, LookSleep
  <2>3. CASE UNCHANGED <<pc, pcm, kernel_frames>>
    BY <1>3, <2>3 DEF RangeInv
  <2>4. CASE Play
    BY <1>3, <2>4 DEF Play, locals, RangeInv
  <2> QED
    BY <1>3, <2>2, <2>3, <2>4
       DEF Next, vars, driver, locals, DeviceChanges, StandbyOrRoute, Stop,
           Begin, BeginFails, LookFails, Adjust, Write
<1> QED
  BY <1>1, <1>2, <1>3 DEF RangeInv

(* For every size and whatever the stack holds, the threshold never passes *)
(* the long buffer, and only the reset of a PCM that does not run, from a  *)
(* negative kernel_frames nothing has read (718), takes it below a period  *)
(* and a quarter, from where it only climbs (744-757, 823-838).            *)
THEOREM ThresholdRange == Spec => ThresholdInRange
<1>1. Init => RangeInv
  BY WriteInit DEF Init, RangeInv, TargetInv
<1>2. RangeInv /\ [Next]_vars => RangeInv'
  BY RangeInvStep
<1>3. RangeInv /\ [Next]_vars => [Range]_vars
  BY RangeStep
<1> QED
  BY <1>1, <1>2, <1>3, PTL DEF Spec, ThresholdInRange, Range

-----------------------------------------------------------------------------
(* The wait.                                                               *)

SleepInv == WriteInv /\ SleepBounded

LEMMA SleepStep == SleepInv /\ [Next]_vars => SleepInv'
<1> SUFFICES ASSUME SleepInv, [Next]_vars PROVE SleepInv'
  OBVIOUS
<1>1. WriteInv'
  BY WriteStep DEF SleepInv
<1>2. CASE LookSleep
  <2> DEFINE sleep == SleepFor(kernel - cur_write_threshold)
  <2>1. kernel \in Int /\ cur_write_threshold \in Int
    BY Buffer DEF SleepInv, WriteInv, TypeOK
  <2>2. sleep \in Int
    BY <2>1, SleepTime
  <2>3. sleep >= MIN_SLEEP
    BY <1>2, <2>2, Sizes DEF LookSleep, Enough
  <2>4. total_sleep_time_us' = total_sleep_time_us + Limited(sleep)
    BY <1>2 DEF LookSleep
  <2> HIDE DEF sleep
  <2> QED
    BY <1>1, <2>2, <2>3, <2>4, LongestSleep, Sizes
       DEF Limited, SleepInv, SleepBounded
<1>3. CASE total_sleep_time_us' \in {0, total_sleep_time_us}
  BY <1>1, <1>3, LongestSleep DEF SleepInv, SleepBounded
<1> QED
  BY <1>2, <1>3
     DEF Next, vars, locals, DeviceChanges, StandbyOrRoute, Stop, Play, Begin,
         BeginFails, LookFails, LookEnough, Adjust, Write

(* However slowly the codec drains, a write sleeps at most                 *)
(* MAX_WRITE_SLEEP_US (803-814).                                           *)
THEOREM SleepLimit == Spec => []SleepBounded
<1>1. Init => SleepInv
  BY WriteInit, LongestSleep DEF Init, SleepInv, SleepBounded
<1>2. SleepInv => SleepBounded
  BY DEF SleepInv
<1> QED
  BY <1>1, <1>2, SleepStep, PTL DEF Spec

(* Each turn of the wait that is not the last adds at least MIN_SLEEP to   *)
(* the time slept, which MAX_SLEEP bounds: a codec that plays nothing      *)
(* cannot keep out_write in the loop.                                      *)
EachTurnSleeps ==
  [][ pc = "look" /\ UNCHANGED <<device, driver>> =>
        \/ pc' = "adjust"
        \/ total_sleep_time_us' \in (total_sleep_time_us + MIN_SLEEP)..MAX_SLEEP ]_vars

(* The wait of out_write ends after MAX_SLEEP / MIN_SLEEP turns at the     *)
(* latest (794-814).                                                       *)
THEOREM BoundedTurns == Spec => EachTurnSleeps
<1>1. Spec => []TypeOK
  BY Typing
<1>2. TypeOK /\ [Next]_vars =>
        [ pc = "look" /\ UNCHANGED <<device, driver>> =>
            \/ pc' = "adjust"
            \/ total_sleep_time_us' \in (total_sleep_time_us + MIN_SLEEP)..MAX_SLEEP ]_vars
  <2> SUFFICES ASSUME TypeOK, Next, vars' # vars, pc = "look",
                      UNCHANGED <<device, driver>>, pc' # "adjust"
               PROVE  total_sleep_time_us' \in
                        (total_sleep_time_us + MIN_SLEEP)..MAX_SLEEP
    OBVIOUS
  <2> DEFINE sleep == SleepFor(kernel - cur_write_threshold)
  <2>1. LookSleep
    BY DEF Next, vars, device, driver, DeviceChanges, StandbyOrRoute, Play, Begin,
           BeginFails, LookFails, LookEnough, Adjust, Write
  <2>2. sleep \in Int /\ total_sleep_time_us \in Int
    BY SleepTime, Buffer DEF TypeOK
  <2>3. sleep >= MIN_SLEEP
    BY <2>1, <2>2, Sizes DEF LookSleep, Enough
  <2>4. /\ total_sleep_time_us' = total_sleep_time_us + Limited(sleep)
        /\ total_sleep_time_us + sleep <= MAX_SLEEP
    BY <2>1 DEF LookSleep
  <2> HIDE DEF sleep
  <2>5. Limited(sleep) = sleep
    BY <2>2, <2>4, LongestSleep DEF Limited
  <2> QED
    BY <2>2, <2>3, <2>4, <2>5, LongestSleep, Sizes
<1> QED
  BY <1>1, <1>2, PTL DEF Spec, EachTurnSleeps

-----------------------------------------------------------------------------
(* The reset of a depleted buffer, were kernel_frames initialized.         *)

(* A PCM that does not run yet was never looked at by this write, so       *)
(* kernel_frames still has the value it started with.                      *)
FillInv ==
  /\ WriteInv
  /\ pc \in {"look", "adjust"} /\ pcm = "prepared" => kernel_frames = 0

LEMMA FillStep ==
  ASSUME Garbage = {0}, FillInv, [Next]_vars
  PROVE  FillInv'
<1>1. WriteInv'
  BY WriteStep DEF FillInv
<1>2. CASE Begin
  BY <1>1, <1>2 DEF Begin, FillInv
<1>3. CASE pc' \in {"idle", "write"}
  BY <1>1, <1>3 DEF FillInv
<1>4. CASE UNCHANGED <<pc, pcm, kernel_frames>>
  BY <1>1, <1>4 DEF FillInv
<1>5. CASE LookFails
  BY <1>1, <1>5 DEF LookFails, driver, locals, FillInv
<1>6. CASE LookEnough \/ LookSleep \/ Play
  <2>1. pcm = "running" /\ pcm' # "prepared"
    BY <1>6 DEF LookEnough, LookSleep, Play, driver
  <2> QED
    BY <1>1, <2>1 DEF FillInv
<1> QED
  BY <1>2, <1>3, <1>4, <1>5, <1>6
     DEF Next, vars, driver, locals, DeviceChanges, StandbyOrRoute, Stop,
         BeginFails, Adjust, Write

(* What resets the threshold below the fill of the buffer is the           *)
(* uninitialized kernel_frames and nothing else: if it starts at zero, the *)
(* reset of a PCM that does not run yet is to just above its fill          *)
(* (816-838).                                                              *)
THEOREM DropsToFillingIfInitialized ==
  ASSUME Garbage = {0}
  PROVE  Spec => DropsToFilling
<1>1. Init => FillInv
  BY WriteInit DEF Init, FillInv
<1>2. Spec => []FillInv
  BY <1>1, FillStep, PTL DEF Spec
<1>3. FillInv /\ [Next]_vars =>
        [ pc = "adjust" /\ pcm = "prepared"
            /\ cur_write_threshold' < cur_write_threshold - PERIOD \div 4
          => cur_write_threshold' <= kernel + PERIOD + PERIOD \div 4 ]_vars
  <2> SUFFICES ASSUME FillInv, Next, pc = "adjust", pcm = "prepared",
                      cur_write_threshold' < cur_write_threshold - PERIOD \div 4
               PROVE  cur_write_threshold' <= kernel + PERIOD + PERIOD \div 4
    BY DEF FillInv
  <2>1. /\ cur_write_threshold \in Int /\ write_threshold \in Nat
        /\ kernel \in Nat /\ kernel_frames = 0
    BY Targets, Buffer DEF FillInv, WriteInv, TypeOK
  <2>2. CASE Adjust
    <3>1. CASE cur_write_threshold > write_threshold
      BY <2>1, <2>2, <3>1, Targets DEF Adjust, StepDown, Most
    <3>2. CASE cur_write_threshold < write_threshold
      BY <2>1, <2>2, <3>2, Targets DEF Adjust, StepUp, Least
    <3>3. CASE cur_write_threshold = write_threshold
      <4>1. 0 \div PERIOD = 0
        BY Sizes
      <4>2. cur_write_threshold' \in {PERIOD + PERIOD \div 4, cur_write_threshold}
        BY <2>1, <2>2, <3>3, <4>1, Sizes DEF Adjust, JustAbove
      <4> QED
        BY <2>1, <4>2, Targets, Sizes
    <3> QED
      BY <2>1, <3>1, <3>2, <3>3
  <2>3. CASE UNCHANGED threshold
    BY <2>1, <2>3, Targets DEF threshold
  <2> QED
    BY <2>2, <2>3
       DEF Next, DeviceChanges, StandbyOrRoute, Stop, Play, Begin, BeginFails,
           LookFails, LookEnough, LookSleep, Write, stream
<1> QED
  BY <1>2, <1>3, PTL DEF Spec, DropsToFilling
=============================================================================
