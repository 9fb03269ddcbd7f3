------------------------------ MODULE OutWrite ------------------------------
(***************************************************************************)
(* The playback buffer control of out_write (src/audio/audio_hw.c): how    *)
(* long a write waits so that the kernel holds no more than                *)
(* cur_write_threshold frames, and how that threshold moves when the       *)
(* screen, the inputs or the route change.                                 *)
(*                                                                         *)
(* One stream_out and its writer, which holds out->lock from Begin to      *)
(* Write: routing and standby wait for it (AudioHal has the mutexes).  The *)
(* screen and the inputs change and the codec plays at any time.           *)
(***************************************************************************)
EXTENDS Integers

CONSTANTS
  PERIOD,        \* period_size, the same for every port
  SHORT, LONG,   \* OUT_SHORT_PERIOD_COUNT, OUT_LONG_PERIOD_COUNT
  SCO,           \* SCO_PERIOD_COUNT
  RATE,          \* frames per second
  MIN_SLEEP,     \* MIN_WRITE_SLEEP_US
  Drains,        \* frames the codec plays between two steps
  Garbage        \* what an uninitialized kernel_frames may hold

ASSUME SizesAssumption ==
  /\ {PERIOD, SHORT, LONG, SCO, RATE, MIN_SLEEP} \subseteq Nat \ {0}
  /\ PERIOD % 4 = 0 /\ RATE % 100 = 0
  /\ 2 <= SHORT /\ SHORT <= LONG
ASSUME InputsAssumption == Drains \subseteq Nat /\ Garbage \subseteq Int

VARIABLES
  screen_off,           \* audio_device.screen_off
  active_in,            \* whether audio_device.active_in is set
  hdmi, sco,            \* whether audio_device.devices has an HDMI, an SCO bit
  standby,              \* stream_out.standby
  pcm_config,           \* stream_out.pcm_config
  buffer_type, write_threshold, cur_write_threshold,  \* of stream_out
  pcm,                  \* none, or the state of the open PCM
  kernel,               \* frames in the kernel buffer
  kernel_frames, total_sleep_time_us,                 \* locals of out_write
  pc                    \* idle, or the part of out_write under way

device == <<screen_off, active_in, hdmi, sco>>
threshold == <<buffer_type, write_threshold, cur_write_threshold>>
stream == <<standby, pcm_config, threshold>>
driver == <<pcm, kernel>>
locals == <<kernel_frames, total_sleep_time_us>>
vars == <<device, stream, driver, locals, pc>>

Least(a, b) == IF a < b THEN a ELSE b
Most(a, b) == IF a > b THEN a ELSE b

(* The microseconds frames last: frames * 1000000 / RATE, by a hundred.    *)
SleepFor(frames) == (frames * 10000) \div (RATE \div 100)

MAX_SLEEP == SleepFor(PERIOD * SHORT)

BufferSize == PERIOD * (IF pcm_config = "sco" THEN SCO ELSE LONG)

(* pcm_config_sco sets none: tinyalsa then takes half the buffer.          *)
StartThreshold ==
  IF pcm_config = "sco" THEN BufferSize \div 2 ELSE PERIOD * SHORT

Init ==
  /\ screen_off = FALSE /\ active_in = FALSE
  /\ hdmi \in BOOLEAN /\ sco \in BOOLEAN
  /\ standby = TRUE /\ pcm_config = "none"
  /\ buffer_type = "UNKNOWN" /\ write_threshold = 0 /\ cur_write_threshold = 0
  /\ pcm = "none" /\ kernel = 0
  /\ kernel_frames = 0 /\ total_sleep_time_us = 0
  /\ pc = "idle"

-----------------------------------------------------------------------------
(* The device around the writer.                                           *)

(* adev_set_parameters sets screen_off with no lock; an input stream       *)
(* starts or goes to standby; an input routing writes bits which the SCO   *)
(* devices of the outputs share, under a running stream too.               *)
DeviceChanges ==
  /\ screen_off' \in BOOLEAN /\ active_in' \in BOOLEAN /\ sco' \in BOOLEAN
  /\ UNCHANGED <<hdmi, stream, driver, locals, pc>>

(* out_standby, and the standby of an output routing that changes the SCO  *)
(* or the HDMI bit.                                                        *)
MutantStop ==                        \* keeps the closed handle
  /\ standby' = TRUE /\ kernel' = 0
  /\ UNCHANGED <<pcm_config, threshold, pcm, locals, pc>>

Stop ==
  /\ standby' = TRUE /\ pcm' = "none" /\ kernel' = 0
  /\ UNCHANGED <<pcm_config, threshold, locals, pc>>

StandbyOrRoute ==
  /\ pc = "idle"
  /\ \/ ~standby /\ UNCHANGED device
     \/ /\ hdmi' \in BOOLEAN /\ sco' \in BOOLEAN /\ <<hdmi, sco>>' # <<hdmi, sco>>
        /\ UNCHANGED <<screen_off, active_in>>
  /\ Stop

(* The codec plays; an empty buffer stops it.                              *)
Play ==
  /\ pcm = "running"
  /\ \E d \in Drains :
       /\ kernel' = IF kernel > d THEN kernel - d ELSE 0
       /\ pcm' = IF kernel > d THEN "running" ELSE "xrun"
  /\ UNCHANGED <<device, stream, locals, pc>>

-----------------------------------------------------------------------------
(* out_write up to the wait.                                               *)

(* start_output_stream: HDMI wins over SCO, and only the main port resets  *)
(* the buffer type.                                                        *)
Config == IF ~standby THEN pcm_config
          ELSE IF sco /\ ~hdmi THEN "sco" ELSE "out"

Started == IF standby /\ ~hdmi /\ ~sco THEN "UNKNOWN" ELSE buffer_type

WantedType == IF screen_off /\ ~active_in THEN "LONG" ELSE "SHORT"

Periods(type) == IF type = "LONG" THEN LONG ELSE SHORT

(* The thresholds after a screen or input change, and after standby.       *)
MutantAdaptThreshold ==              \* takes the type even when on SCO
  /\ buffer_type' = WantedType
  /\ IF sco \/ WantedType = Started
     THEN UNCHANGED <<write_threshold, cur_write_threshold>>
     ELSE /\ write_threshold' = PERIOD * Periods(WantedType)
          /\ cur_write_threshold' = IF Started = "UNKNOWN" THEN write_threshold'
                                    ELSE cur_write_threshold

AdaptThreshold ==
  IF sco \/ WantedType = Started
  THEN buffer_type' = Started /\ UNCHANGED <<write_threshold, cur_write_threshold>>
  ELSE /\ buffer_type' = WantedType
       /\ write_threshold' = PERIOD * Periods(WantedType)
       /\ cur_write_threshold' = IF Started = "UNKNOWN" THEN write_threshold'
                                 ELSE cur_write_threshold

(* kernel_frames is not initialized.  sco_on is the SCO bit alone, and the *)
(* screen, the inputs and the bit are read under the device mutex.         *)
Begin ==
  /\ pc = "idle"
  /\ standby' = FALSE /\ pcm_config' = Config
  /\ AdaptThreshold
  /\ pcm' = IF standby THEN "prepared" ELSE pcm
  /\ IF sco THEN UNCHANGED kernel_frames ELSE kernel_frames' \in Garbage
  /\ total_sleep_time_us' = 0
  /\ pc' = IF sco THEN "write" ELSE "look"
  /\ UNCHANGED <<device, kernel>>

(* pcm_open fails.                                                         *)
BeginFails ==
  /\ pc = "idle" /\ standby
  /\ buffer_type' = Started /\ pcm_config' = Config
  /\ UNCHANGED <<device, standby, write_threshold, cur_write_threshold, driver,
                 locals, pc>>

-----------------------------------------------------------------------------
(* The wait: a turn of the loop reads the fill and sleeps.                 *)

(* No time stamp: the PCM does not run.                                    *)
LookFails ==
  /\ pc = "look" /\ pcm # "running"
  /\ pc' = "adjust"
  /\ UNCHANGED <<device, stream, driver, locals>>

(* Few enough frames, or not worth a sleep.                                *)
Enough(fill) ==
  \/ fill <= cur_write_threshold
  \/ SleepFor(fill - cur_write_threshold) < MIN_SLEEP

LookEnough ==
  /\ pc = "look" /\ pcm = "running" /\ Enough(kernel)
  /\ kernel_frames' = kernel
  /\ pc' = "adjust"
  /\ UNCHANGED <<device, stream, driver, total_sleep_time_us>>

(* The sleep, limited when it would take the total over MAX_SLEEP.  The    *)
(* model adds the time slept, the code the time it wanted to sleep: the    *)
(* two differ only once the loop ends.                                     *)
MutantLimited(sleep) == sleep        \* the sleep is not limited

Limited(sleep) ==
  IF total_sleep_time_us + sleep > MAX_SLEEP
  THEN MAX_SLEEP - total_sleep_time_us ELSE sleep

MutantLookSleep ==                   \* forgets the turns before this one
  LET sleep == SleepFor(kernel - cur_write_threshold) IN
  /\ pc = "look" /\ pcm = "running" /\ ~Enough(kernel)
  /\ kernel_frames' = kernel
  /\ total_sleep_time_us' = Least(sleep, MAX_SLEEP)
  /\ pc' = IF sleep <= MAX_SLEEP THEN "look" ELSE "adjust"
  /\ UNCHANGED <<device, stream, driver>>

LookSleep ==
  LET sleep == SleepFor(kernel - cur_write_threshold) IN
  /\ pc = "look" /\ pcm = "running" /\ ~Enough(kernel)
  /\ kernel_frames' = kernel
  /\ total_sleep_time_us' = total_sleep_time_us + Limited(sleep)
  /\ pc' = IF total_sleep_time_us + sleep <= MAX_SLEEP THEN "look" ELSE "adjust"
  /\ UNCHANGED <<device, stream, driver>>

-----------------------------------------------------------------------------
(* The threshold moves by quarters of a period towards its target, or down *)
(* to just above the fill of a depleted buffer.                            *)

MutantJustAbove(fill) ==             \* not above the period being played
  (fill \div PERIOD) * PERIOD + PERIOD \div 4

(* In the code an unsigned 32 bit quotient: the same for a negative fill   *)
(* where PERIOD divides 2^32, as the product wraps back.                   *)
JustAbove(fill) == (fill \div PERIOD + 1) * PERIOD + PERIOD \div 4

StepUp == Least(cur_write_threshold + PERIOD \div 4, write_threshold)
StepDown == Most(cur_write_threshold - PERIOD \div 4, write_threshold)

Depleted == write_threshold - kernel_frames > PERIOD * SHORT

Adjust ==
  /\ pc = "adjust"
  /\ cur_write_threshold' =
       IF cur_write_threshold > write_threshold THEN StepDown
       ELSE IF cur_write_threshold < write_threshold THEN StepUp
       ELSE IF Depleted THEN JustAbove(kernel_frames) ELSE cur_write_threshold
  /\ kernel_frames' = 0 /\ total_sleep_time_us' = 0     \* no longer used
  /\ pc' = "write"
  /\ UNCHANGED <<device, standby, pcm_config, buffer_type, write_threshold, driver>>

-----------------------------------------------------------------------------
(* pcm_write of one period, the size out_get_buffer_size asks for.  It     *)
(* waits for room, starts the PCM at its start threshold, and reports an   *)
(* underrun as EPIPE.                                                      *)
Write ==
  /\ pc = "write"
  /\ \/ /\ pcm = "xrun"
        /\ pcm' = "prepared" /\ kernel' = 0
     \/ /\ pcm # "xrun" /\ kernel + PERIOD <= BufferSize
        /\ kernel' = kernel + PERIOD
        /\ pcm' = IF kernel' >= StartThreshold THEN "running" ELSE pcm
  /\ pc' = "idle"
  /\ UNCHANGED <<device, stream, locals>>

Next ==
  \/ DeviceChanges \/ StandbyOrRoute \/ Play
  \/ Begin \/ BeginFails \/ LookFails \/ LookEnough \/ LookSleep
  \/ Adjust \/ Write

Spec == Init /\ [][Next]_vars

(* The writer runs on through its wait: its thread is scheduled, its sleeps *)
(* end.  The codec owes it nothing.                                        *)
FairSpec ==
  Spec /\ WF_vars(LookFails \/ LookEnough \/ LookSleep \/ Adjust)

-----------------------------------------------------------------------------
(* Properties.                                                             *)

(* The types; the stream has a PCM exactly when it is not on standby.      *)
TypeOK ==
  /\ {screen_off, active_in, hdmi, sco, standby} \subseteq BOOLEAN
  /\ standby <=> pcm = "none"
  /\ pcm_config \in {"none", "out", "sco"}
  /\ buffer_type \in {"UNKNOWN", "SHORT", "LONG"}
  /\ write_threshold \in {0, PERIOD * SHORT, PERIOD * LONG}
  /\ cur_write_threshold \in Int
  /\ pcm \in {"none", "prepared", "running", "xrun"}
  /\ kernel \in 0..BufferSize
  /\ kernel_frames \in Int /\ total_sleep_time_us \in Int
  /\ pc \in {"idle", "look", "adjust", "write"}

(* One period ahead of the one being played, and a quarter.                *)
LOW == PERIOD + PERIOD \div 4

(* Through every ramp, depletion, standby and port change (744-757,        *)
(* 823-838) the threshold never passes the long buffer, and one thing      *)
(* alone takes it below LOW: a reset in the write of a PCM that does not   *)
(* run, from the kernel_frames nothing has read yet (718), when that is    *)
(* negative.  From there it only climbs.                                   *)
ThresholdInRange ==
  [][ buffer_type' # "UNKNOWN" =>
        /\ cur_write_threshold' <= PERIOD * LONG
        /\ \/ cur_write_threshold' >= LOW
           \/ cur_write_threshold' >= cur_write_threshold /\ buffer_type # "UNKNOWN"
           \/ pc = "adjust" /\ pcm # "running" /\ kernel_frames < 0 ]_vars

(* However slowly the codec drains, a write sleeps at most                 *)
(* MAX_WRITE_SLEEP_US (803-814).                                           *)
SleepBounded == total_sleep_time_us \in 0..MAX_SLEEP

(* out_get_latency reports LONG periods when the screen is off, nothing    *)
(* records and the route is not SCO (691-694).                             *)
LatencyFrames ==
  PERIOD * (IF screen_off /\ ~active_in /\ ~sco THEN LONG ELSE SHORT)

(* A write aims at the buffer out_get_latency reports at that moment,      *)
(* whatever port, standby and screen changes came before (691-694,         *)
(* 737-757).                                                               *)
ThresholdMatchesLatency ==
  [][ pc = "idle" /\ pc' = "look" => write_threshold' = LatencyFrames ]_vars

(* The wait ends and out_write goes on to pcm_write, out->lock with it,    *)
(* even if the codec has stopped playing with the buffer above the         *)
(* threshold (787-814).                                                    *)
WaitEnds == pc = "look" ~> pc = "write"

(* "do not allow abrupt changes on buffer size", but "reset current        *)
(* threshold just above current filling status when kernel buffer is       *)
(* really depleted" (816-822).  It is asked of a PCM that does not run     *)
(* yet, where nothing drains between the look and the reset: the threshold *)
(* of a running one is just above the fill of its last look.               *)
DropsToFilling ==
  [][ pc = "adjust" /\ pcm = "prepared"
        /\ cur_write_threshold' < cur_write_threshold - PERIOD \div 4
      => cur_write_threshold' <= kernel + PERIOD + PERIOD \div 4 ]_vars
=============================================================================
