# Verification of the TF101 device tree

TLA+ models of the programs of this device tree (ASUS Eee Pad Transformer,
CyanogenMod), their TLC runs, and theorems about them checked by TLAPS. The core
is the primary audio HAL, `src/audio`, the one concurrent program of the tree that
runs all the time: several threads of the media server call it, it shares one
codec between playback and recording, and a mistake is a crash of the media
server, a deadlock, or silence.

## The system

| part | state | operations | talks to |
|---|---|---|---|
| audio HAL (`audio/audio_hw.c`) | `audio_device` (devices, orientation, screen_off, active_out, active_in, mutex), each `stream_out` / `stream_in` (standby, pcm, thresholds, frames_in, mutex), the global `isRecording` | open, close, write, read, standby, routing, orientation, screen state | framework threads (calls), tinyalsa (PCM), mixer paths, `/dev/wm8903` and `/dev/dsp_fm34` (ioctls) |
| mixer paths (`audio/audio_route.c`, `mixer_paths.xml`) | paths by name; old, new and reset value of every control | init (parse, apply, save), reset, apply path, update | called by the HAL under the device mutex; writes the codec |
| dock key handler (`asusec`) | touchpad status, screenshot connection and timeout, brightness | key events, screenshot bind / reply / timeout, JNI toggle | window manager, system UI service, touchpad driver |
| key layout swap (`prebuilt/sbin/keyswap`, `ramdisk/init.ventana.keyboard.rc`) | files of `/system/usr`, property `sys.dockkeys.change` | replace the layouts | init, settings application |
| blob packer (`blobpack`) | header and partition table of the blob | pack | bootloader |
| OTA packaging (`releasetools`) | source and target file maps, verbatim and patch lists, worker pool | full and incremental package | update engine on the device |
| key maps, overlays, configuration, firmware | none, data | | |

What is hard, and tests would hardly reach (`hazards` in `PROJECT.json` has each at
its line):

* *Interleaving.* A write or a read blocks in the PCM with only its stream mutex;
  standby, routings, starts of the other direction and closes run meanwhile and
  free the PCM. `active_out` and `active_in` are dereferenced by the other
  direction. `adev_close_input_stream` switches the codec with no mutex at all.
* *Ordering of mutexes.* The device mutex first, then stream mutexes (the NOTE of
  lines 186-189); a start holds its own stream's and takes its peer's.
* *State in several places.* `isRecording`, the capture source of the wm8903 and
  the mode of the fm34 are three copies of one fact, written one after the other.
  `devices` holds the routing of both directions in one word. The mixer is reset
  by both directions. `frames_in` counts in a buffer that comes and goes.
* *Failure.* A codec node or a PCM may not open, an ioctl or a mixer write may fail
  and nobody looks at its result, the
  document of mixer paths may be malformed or missing and memory may run out while
  it is read. A diff program may fail, and a thread that computes a patch may die
  with or without the lock. A partition file may change between two reads,
  and a write of the blob may fall short.
* *Callbacks and timeouts.* A screenshot ends by a reply or by a timeout that race
  each other and the next screenshot, whose key comes from another thread; the
  service may die in between and the process may restart in the middle of a key.
* *Numbers and time.* The write threshold ramps, resets and is compared to what
  the kernel holds while the codec drains it. Offsets in a blob are sums kept in 32
  bits.

## Modules

| module | models | state |
|---|---|---|
| `AudioHal` | `audio_hw.c`, control: mutexes, streams, routing, codec mode | one variable per field, a program counter per thread |
| `PcmSession` | what the HAL promises of each stream, abstract | a phase per stream |
| `LockOrder` | the NOTE on the mutexes of the HAL (lines 186-189), abstract | a holder per mutex |
| `AudioRoute` | `audio_route.c` | the parser, the paths and their arrays, the three shadow values, the codec |
| `OutWrite` | `out_write`, the buffer control | thresholds, kernel fill, locals of the wait |
| `InRead` | `read_frames`, `get_next_buffer`, `release_buffer` | `frames_in`, the buffer, `read_status` |
| `KeyHandler` | `KeyHandler.java` and the touchpad JNI: screenshot, touchpad, brightness | the connection, its timeout, callbacks and replies in flight, settings |
| `Incremental` | the file plan of `WriteIncrementalOTAPackage` and the threads of `ComputeDifferences` | the two builds, the plan, the lock, the iterator, a position and a file per thread, the patches |
| `Batch` | what `ComputeDifferences` promises its caller, abstract | a phase, the results |
| `Blob` | `main` of `blobpack.cpp` | the files, the table, what was written |
| `AudioHalMC`, `AudioRouteMC`, `OutWriteMC`, `IncrementalMC` | instances for TLC | |
| `AudioHalProofs`, `AudioHalStreamProofs`, `AudioRouteProofs`, `OutWriteProofs`, `InReadProofs`, `KeyHandlerProofs`, `IncrementalProofs`, `BlobProofs` | theorems | |

Operators named `Mutant...` are not part of any model. Each is one definition of a
model with a plausible mistake in it; putting it in place of the right one must
break a property, which shows that the property depends on that code
(`mutants` in `PROJECT.json`).

### AudioHal

A call is a walk of `pc[t]` through its handler. A step ends wherever another
thread can act between two accesses to shared state: at each mutex acquisition, at
each of the three writes of `switch_recording_mode` and around the blocking
transfer. What runs under a mutex and touches only what it protects is one step.
The correspondence with the code:

* `LockDev`, then one of `StandbyCall`, `IgnoreParams`, `RouteParams`,
  `OrientationParam`, `EnterIo`, `StartStream` is the first part of a handler,
  from the device mutex on. Their guards are the `if`s of the handler.
* `SelectOut`/`SelectIn`, the switch steps and `Route` are `select_devices`.
* `EndDsp`, `EndCapture`, `EndFlag`; `StartDsp`, `StartFlag`, `StartCapture`;
  `Playback` are `switch_recording_mode` for its three modes, in the order of its
  statements. With `"open"` in `CodecFaults` a node may not open and the function
  does nothing; with `"dsp"` or `"capture"` that ioctl has no effect (`TellDsp`,
  `Select`) and the function goes on. `close_in` runs them with no mutex, as the code
  does. Two history variables go with them: `faults` has what the switches since the
  last one that began have failed to tell, `raced` whether two switches overlapped
  since then.
* `StartStream`, `Peer`/`PeerClash`, `PcmOpens`/`PcmOpenFails`, `IoDone` are the
  start and the transfer. Over a peer of the other rate group a start puts the peer
  on standby, which clears `active_in` (`active_out`), and then unlocks through that
  pointer (384-385, 453-454): `PeerClash` leaves the thread at `segv`, with the peer's
  mutex taken, and nothing happens in the process after that (`Alive`). `PcmOpens` needs `PortFree` (a PCM device has one substream each way).
* `DoStandby` is `do_out_standby`/`do_in_standby`, with its `if (!standby)`.

`PcmSession` and `LockOrder` are what the HAL promises: the first of each stream,
the second of its mutexes, whatever call uses them. `LockOrder` is stronger than the
NOTE: no stream mutex is ever taken without the device mutex, which is what lets a
holder of the device mutex have any stream mutex as soon as its reader or writer
gives it back. `WaitsEnd` says the same of the threads that wait: `WaitsFor(t, u)`
is the edge of the wait-for graph, and no path in it is longer than two.

A device mask is the set of its bit numbers, so the overlap of the constants of
Android 4.2 is in the model: `AudioHalMC` gives the real values.

Assumptions on the environment: the framework does not use a stream while it
closes it and closes it once (`Callable`), it sends no input bit in an output
routing, and a stream is opened and closed any number of times. Left out: sample
conversion and resampler creation, `mic_mute`, `adev_close`, and the functions
that only return a constant.

### OutWrite, InRead, AudioRoute

`OutWrite` is one writer and its stream, between mutex acquisitions that
`AudioHal` already covers: `Begin` (start and adaptation of the threshold),
`LookFails`/`LookEnough`/`LookSleep` (turns of the wait), `Adjust`, `Write`. The
codec plays at any moment (`Play`), the screen and the inputs change at any moment
(`screen_off` is written with no mutex). `kernel_frames` starts with any value of
`Garbage`, because it is not initialized. The port is chosen by a start (`Config`,
HDMI before SCO) and stays until standby, while the test of a write is on the SCO bit
alone, which an input routing changes under a running stream (`DeviceChanges`). The
arithmetic of `JustAbove` is unsigned in the code; it gives the same for a negative
fill. The driver is external: it has no time
stamp unless it runs, runs once the start threshold is written, and reports an
underrun once.

`InRead` is one reader of a stream whose rate is not its port's: each pull of the
resampler is a `Fill`, `ServeRest` or `FillFails` and then a `Release` of some of
the frames.

`AudioRoute` parses a document chosen tag by tag (`Open`, `EndTag`) and then lets
the three calls of `select_devices` come in any order. `open` is the stack of the
elements, which expat has; `level` and `path` are the two fields the parser of the
HAL keeps instead of it, and much of what can go wrong is in their difference. Each
branch of `start_tag` is an action, once per way it ends: `StartPath` /
`StartPathNoMemory` / `StartPathShort`, `StartSubPath` (`Add`, `AddNoMemory`,
`AddToShort`) / `StartSubPathNull`, `StartCtl`, `StartPathCtl`, `StartCtlCrashes`,
`StartOther`. An array that grows by doubling keeps its old memory and its new size
when `realloc` fails: it is in `short`, and the next element is written past its
end. A control name the codec does not have is `NoCtl`, the NULL that
`mixer_get_ctl_by_name` returns: inside a path it is stored, and `ApplyNull` is the
search that misses it. A dereference that is undefined ends in `crashed`. With
`Faults` documents may be malformed and calls fail, and `flawed` remembers that one
was; `Refused` values are never accepted by the codec, and with `Faults` each write of
each channel may fail on its own (`Failures`), while `old_value` is updated all the
same. `loose` is a history of the controls whose two channels differed at first or
whose last write failed, `unset` of those whose initial value did not get to value 0,
which is then read back for the reset. A `strdup` that fails is left out.

### KeyHandler

Everything the Java code does under `mScreenshotLock` is one step: `TakeScreenshot`,
`OnServiceConnected`, `RunTimeout`, `HandleReply`. The looper takes a timeout off its
queue (`DequeueTimeout`) before it gets the lock, and from then on
`removeCallbacks` does not reach it; that a reply cannot be handled in that window
is due to its handler being made on the same looper (`LooperFree`). Keys come one at
a time from the thread that dispatches input, which the comment of line 267 does not
assume; its assumption is a special case. A touchpad key is the ioctl and then the
setting, a brightness key reads and then writes; `Restart` may come anywhere
and runs the constructor. The activity manager and the screenshot service are
external: a bound connection is connected again whenever the service comes back.

### Incremental, Batch

The main thread selects (`Select`, or `Refuse` for a file that must and must not be
sent whole), waits (`Join`) and divides (`Divide`). `Select` is the loop over the
files with everything of `ComputeDifferences` before its threads start. A step of a
thread ends where another may act: `Acquire` is each `lock.acquire()`, `Take` and
`Exhaust` the two ends of `for d in diff_iter` up to the release, `ComputePatch` the
diff without the lock, `Report` what is printed with it, up to the next turn of the
loop. A patch is its length. `ComputePatch` may leave a patch, leave none (the diff
program failed) or raise; `Report` raises over an empty file, as it divides by its
size, and then the lock stays taken: nothing releases it, the thread prints the
exception and ends. `Batch` is the contract of `ComputeDifferences`: a result is
written once, between its call and its return.

### Blob

`WriteHeader`, `Layout` for each file of the first pass, `WriteTable`, `Copy` for
each file of the second, `Finish`; each early end is an action. A file may change
or vanish at any moment (`FileChanges`): the model gives it a version. Any write may
fall short (`Put`), `ftell` may say -1 (`Told`) and the last flush may fail
(`Close`); `main` notices none of these, and `lost` is a history of them. Of the bytes
the model keeps where the data of each partition begins, whether a write before it
fell short (`moved`), how many came from the file and from which version of it.
Offsets and sizes are taken modulo `WORD`.

## Runs

| run | question | instance |
|---|---|---|
| `hal_safety` | does a transfer always use an open PCM; are pointers and flag sound, and do flag, capture source and DSP agree once a switch has run alone; is each stream on its port; do the streams implement `PcmSession` and the mutexes `LockOrder`; can threads wait in a circle; is `IInv` an invariant | 2 threads, 1 output, 1 input, every stream call, codec faults of all kinds, SCO at 8000 Hz, masks apart |
| `hal_fair` | does a start ever lose its peer; is the mixer that of the last routing; is recording over before playback starts; does the holder of the device mutex always let go | 2 threads, every call, two orientations, Android 4.2 masks, both rates 44100, no faults, weak fairness |
| `route_paths` | is the shadow the initial settings and the paths since the reset; does the codec carry it after an update, faults and refusals included; can anything but a malformed document or a failed call crash it | 2 controls and an unknown one, 2 paths, 3 values of which one is refused, writes that fail in a channel, 6 tags, arrays that grow from 1 |
| `out_threshold` | does the threshold stay in range and the write aim at the latency reported; is the sleep bounded and does the wait end | periods of 4 frames, long buffer of 4 periods, `kernel_frames` of -10, 0, 7 or 16 at first |
| `in_frames` | do frames served lie in the period read; are errors retried | period of 8, requests of 5 |
| `dock_keys` | has a screenshot one bound connection and its own timeout, does it end, and only by its own reply or timeout; is the touchpad status kept over restarts; is the backlight in range | 2 connections, 2 replies in flight, backlight 1 to 3 in steps of 2, restarts and deaths of the service at any point |
| `ota_pool` | is each difference computed by one thread and read after the wait; does the package give the target whatever failed; does the wait end | 4 files, one that must and one that must not be sent whole, an empty and a full content, 2 threads, patches that are and are not worth it |
| `blob_pack` | does each entry point at its own data up to a write that falls short; do the entries that fit overlap | up to 3 partitions on 2 files, lengths 0, 3 and 6 with words of 16, one change of each file, writes that fall short after one byte |

Four runs end in a violation, each of one statement the sources make and the code
does not keep (`findings`):

* `hal_shared_bits` — streams move when SCO or HDMI is switched. An input routing
  stored without `AUDIO_DEVICE_BIT_IN` writes bits the output direction reads.
  With masks that share no bit (`hal_safety`, theorem `PortsFollow`) the property
  holds, so that the shared bits are the only cause. Those masks are hypothetical:
  they separate this effect from the rest of the code. The SCO rate of `hal_safety` is
  hypothetical in the same way: it brings in the branch that the rates of the code
  never take, up to where it ends the process.
* `hal_mic_path` — the mixer is set up for the input ahead of time. The next
  output routing undoes it; nothing else does (`CaptureKeepsMicPathAlone`).
* `out_depleted` — the threshold of a depleted buffer is just above its fill;
  `kernel_frames` is uninitialized while the PCM does not run yet. Initialized to
  zero, the statement holds (`DropsToFillingIfInitialized`). The property is asked
  only of a PCM that does not run: one that does plays between the look and the
  reset, which is not what goes wrong here.
* `in_stale` — frames come from the kernel driver; after a standby with a partly
  used period they come from `malloc`, and in no other case (`KernelFramesIfEmpty`).

Each of the four has a theorem that takes the cause away and proves the statement,
for every value of the constants (those of the HAL with one stream in each direction).

Six more statements do not hold either; the models have the behaviour, no run is
kept for them:

* "only the main PCM or the BC SCO PCM open at the same time"
  (`audio_hw.c:349-354`): both rates are 44100, so the rate test of a start never
  puts the peer on standby. Nor would it do with the rates that 371-377 speak of
  ("group 2 is required for SCO"): the standby clears the pointer through which the
  next line unlocks the peer, a NULL dereference (385, 454; `PeerClash`).
  `PeerGivenBack` is that the rates of the code keep starts from it.
* A missing `audio_route` is tolerated by `audio_route_apply_path`
  (`audio_route.c:388-391`), but `reset_mixer_state` comes first and dereferences
  it (`UseWithoutRoute`).
* "reset current threshold if exiting standby" (`audio_hw.c:753`): not on HDMI,
  where a start leaves `buffer_type` as it was (`Started`).
* "start worker threads; wait for them all to finish" (`common.py:863`): the wait
  may not end when a thread died over an empty target file, which it does while it
  holds the lock (`Report`). `PoolEnds` says that this is the only such case.
* "blobpack_tf of %s image failed" (`tf101_ota_from_target_files:440`) is asserted
  on the return code, and that is 0 with a blob that is only a header when a file is
  missing (`blobpack.cpp:96-100`, `LayoutMissing`), and with one that is cut short
  or displaced when a write fails (79, 108, 116, 119; `Put`, `Close`). Nothing is
  claimed of the status.
* `prohibit_verbatim` (`tf101_ota_from_target_files:92`) keeps a file from being
  sent whole in the selection only: one whose patch failed or is too large is sent
  whole by the division (561-564) with no error.

### Why the bounds are enough

The interactions in `AudioHal` are between two threads: a start and its peer, a
transfer and a standby, a switch and the unlocked switch of a close. Two threads
with every call give these, and the theorems hold for any number of threads; all
but those that assume one stream in each direction hold for any number of streams
too. No counter of the HAL is unbounded, so the runs explore all reachable states,
with any number of calls. `hal_safety` leaves out the orientation, whose handler is
that of an input routing with another test, and `hal_fair` the faults of the codec, of
which its properties do not speak, but for `PlaybackStartsAfterRecording`: where a
node does not open, the recording is not ended. `OutWrite` scales the frames down: a
period of 4 frames still has a quarter, a frame lasts less than the shortest sleep,
the codec plays by one frame or by a period, and a long buffer of 4 periods still
leaves more than two periods below the threshold, the depletion test. The four values
of `kernel_frames` are a negative one, none, a partly filled buffer and a full one.
`AudioRoute` bounds tags (`MaxTags`), nesting (`MaxLevel`) and paths applied
between two resets (`MaxApplied`); two paths with two controls give a duplicate, a
nested path cut at its first duplicate and an overlay, and arrays that start at one
entry and double have to grow within six tags. Its theorems need none of these
bounds. In `Incremental` two threads are one that dies with the lock and one that
waits for it, and two sizes make a patch useful, too large and over an empty file;
the theorems hold for any files and threads. In `Blob` nothing beyond `Lengths`,
`Shorts`, `MaxParts` and `MaxVersion` is bounded, and three partitions on two files give one file
twice, an offset that overflows, a change between the passes and data displaced by a
header, a table or data cut short. `PERIOD` and `WANTED` of
`InRead` are such that a request ends inside a period. In `KeyHandler` two connections are one under way and
an earlier one whose reply or timeout is late; a connection whose traces are all gone
gives its identity back, so any number of screenshots is taken. The backlight range
has both ends within one step of the level in the middle.

### Fairness

`hal_fair` uses `WF_vars(Alive /\ Step(t) /\ Races)` for each thread, that is, a thread
inside the HAL keeps running, a PCM transfer ends (the driver has a timeout) and a
sleep ends. Nothing is assumed of new calls. Mutexes are not fair, which is why
fairness is weak: a thread that waits may see the mutex taken again and again.
`HolderProgresses` then depends on the comment of lines 721-726: if a running
stream skipped the device mutex, its writer could starve a routing that holds it.
That the *waiters* for the device mutex get it is not true of unfair mutexes and
is not claimed. `ota_pool` has weak fairness of the main thread and of each worker:
a thread that can run does, and a diff program ends. The lock is not fair, and need
not be, because every thread takes a file from what is left. `dock_keys` assumes that the looper runs what is due and that ten
seconds pass (`WF` of `DequeueTimeout` and `RunTimeout`), nothing of the service.
`out_threshold` has weak fairness of the writer in its wait (the thread is scheduled,
`usleep` returns) and none of the codec or of `pcm_write`: that the wait ends although
the codec may stop playing is the point of `WaitEnds`.

`CHECK_DEADLOCK FALSE` appears in four passing runs: `hal_safety`, where a start
over a peer of the other rate group ends the process (`WaitsEnd` and `LockOrderSpec`
check the mutexes there, and `hal_fair` deadlock), `route_paths`, where the program may
have crashed or freed its route, and `ota_pool` and `blob_pack`, whose programs end
(and, in `ota_pool`, whose threads may wait for ever: `PoolEnds` says when). The
other runs check deadlock, and so the order of the mutexes.

## Theorems

All proofs are checked to the last leaf and hold for every value of the constants
that satisfies their named assumptions: any number of threads and streams, any
masks and routings.

`AudioHalProofs` proves `Typing` and then `Invariance`, of
`IInv == TypeOK /\ OwnershipInv /\ CallsInv /\ StreamInv /\ ActivePointersValid`.
The properties alone are not inductive. That a transfer has an open PCM depends on
nobody else running `do_*_standby` on it, which depends on that taking the stream
mutex, which depends on the mutex being held by exactly the thread whose position
says so (`OwnershipInv`, with at most one holder), and on a closed stream having no
other user (`CallsInv`). `StreamInv` links the three: a stream whose starter holds
both mutexes is on standby, one in transfer runs. `IoSafety` and `PointerSafety`
follow.

A thread at `segv` has the mutex of its peer as well as its own.

Its second part is the codec. `RecordingFlag` holds even against the unlocked switch of a
close and all faults but a capture ioctl without effect, since each switch writes flag
and source in an order that keeps "flag implies input" at its ends. `SwitchAgreement`
has no assumption: `SwitchInv` follows a switch that no other overlaps and no fault
meets from its first write to its last, whatever state of the three it found, and says
that nothing but a switch sets them apart afterwards. `PlaybackAfterRecording` assumes
that the nodes open. `MixerFollowsRouting` needs no such assumption. `PeerSafety`
assumes that 44100 and the SCO rate do not clash in either order, as is so in the code.

`AudioHalStreamProofs`: `SessionRefinement` is the refinement of `PcmSession`, each
step a step of the abstract specification or a stutter, under
`phase <- [s \in Streams |-> Phase(s)]`. With one stream in each direction
(`Single`), `ActiveCompleteness` and `PortsFollow` (with masks apart) state for all
values what `hal_safety` checks.

The mutexes are its second part. `MutexOrder` is the refinement of `LockOrder`, the
mutexes under the identity; a step that touches no mutex is a stutter. `NoDeadlock`
follows from `IInv` in one state: a thread that holds only a stream mutex is in a
transfer and waits for nothing, one that waits for a stream mutex holds the device
mutex, so that a path of waits has at most two edges. `HolderFirst` and `BoundedHold` are the
part of `HolderProgresses` that is not fairness. While a thread holds the device
mutex no other takes a stream mutex, and each of its own steps raises `Progress`,
at most eight times, before it gives the mutex back.

The third part is the microphone. `CaptureKeepsMicPathAlone` needs `MicInv`: with
no output routing the mixer holds microphone paths only, `devices` is the last input
routing, and where that is SCO the mixer holds none, but for a thread on its way from
standby to the new route (`TurnsScoOn`). It assumes one stream in each direction, input
routings that have a microphone or are SCO (`MicOrSco`), and no call of
`out_set_parameters`, which is the cause of `hal_mic_path`.

`InReadProofs`: `FramesInside` and `ErrorsAreRetried`, from an invariant that joins
both, because `frames_in - used` stays natural only if what is used was served.
`KernelFramesIfEmpty` adds `SamplesInv`, that frames left are samples of a stream
that still runs, and assumes of the behaviour that a standby finds none left.

`KeyHandlerProofs`: `ScreenshotPaired` and `OwnEndings` from `TypeOK` and
`OneScreenshot`, which is inductive with the types: a timeout is posted and a
connection bound in one step, and taken back in one step or by the timeout itself.
`TouchpadKept` and `BacklightKept` stand on their own. `TimeoutPending` says that
the timeout of a screenshot under way is posted or off the queue, and that no step
takes it back but the end of that screenshot.

`AudioRouteProofs`: `Typing` needs `Typed`, the types with "the path of the parser
was created" (`PathExists`); it contains that `level` is the depth of the document.
`CodecInStep` and `DistinctPaths` are inductive with it, the first with the channels
that a failed write leaves apart (`CodecInv`), the second by a lemma on what `Add`
appends. `ShadowFollowsPaths` needs `RouteInv`, which
says what the shadow is in each phase: the top level of the document until it ends,
then what was written and read back. `CrashesHaveCauses` needs `DocumentInv`: in a
sound document every array has its size, every setting its control, and the parser
has a path wherever a path element is open. `UpdateWritesRoute` joins
`CodecInStep` and `ShadowFollowsPaths`: what `update_mixer_state` skips as unchanged
is in both channels of the codec already unless the control is `loose`, so the codec
carries the route that was composed.

`OutWriteProofs`: `Typing` and `SleepLimit` from `WriteInv`, `TargetIsLatency` from
`TargetInv` (the target is the one of the buffer type), `ThresholdRange` from both
and `RangeInv`, that what a look found of a PCM that runs is a fill, so that
`kernel_frames` is negative only where no look has succeeded. It assumes nothing of
the uninitialized value and names the one step that takes the threshold out of range.
`BoundedTurns` gives the wait a variant: each turn sleeps at least `MIN_SLEEP`, and
the sum stays under `MAX_SLEEP`; this is the safety part of `WaitEnds`.
`DropsToFillingIfInitialized` needs `FillInv`, that `kernel_frames` is still zero
where a look found the PCM not running yet.

`IncrementalProofs`: `PoolInvariance` is `IInv`, of `TypeOK`, `LockInv` (the thread
whose position says so holds the lock, or one that died in its report does),
`TakenOnce` (no file with two threads, no patch before its computation), `PoolInv`
(threads run only while the main thread waits; none ends before the iterator is
exhausted) and `PlanInv`. `NothingLost`, `PlanRebuildsTarget` and
`PoolImplementsBatch`, the refinement of `Batch`, follow from it. `SomeThreadGoesOn`
is that the pool is not stuck unless a thread died over an empty file, and
`BoundedPool` that its steps are counted by the files left and the positions.

`BlobProofs`: `PassInvariance` is `BInv`, of where the passes are, what the table
holds and, up to a write that falls short, what was written. `EntriesPoint` is by an
induction of its own over the partitions written: the table and the data agree up to
one as long as the sizes are known and the sums fit, which `Fits` carries from one to
the next. `EntriesApart` is by an induction over the table (`OrderInv`): all entries
that fit end below the offset of the next one.

Only model-checked, as the provers do not reach liveness: `HolderProgresses`,
`ScreenshotEnds`, `PoolEnds` and `WaitEnds`. Their safety part is proved, and what is left to TLC
is that a step which fairness promises is taken: `NoDeadlock`, `HolderFirst` and
`BoundedHold` for the first, `TimeoutPending` for the second, `SomeThreadGoesOn` and
`BoundedPool` for the third, `BoundedTurns` for the fourth. Every other property of a passing run is a theorem.

## Plan

1. The HAL on top of the mixer: `AudioHal`'s `Route` refined by the three calls of
   `AudioRoute`, with the paths of `mixer_paths.xml`.
2. The creation of resamplers, whose result the two starts ignore
   (`audio_hw.c:403`, `473`), as a start that fails later.
3. Larger instances of `hal_fair`: both directions with two streams.

## Not modelled

* Key maps, overlays, audio policy, firmware and kernel modules are data.
* What a nested path means whose settings partly are in the path already
  (`audio_route.c:186`: the rest is dropped with a log line): the models take it as
  the code does, and no statement is made.
* What the touchpad is after an ioctl that failed (`KeyHandler.java:173`, whose result
  is ignored): driver and setting stay apart until a toggle that reaches the driver.
* The full OTA package, Edify text, symlinks, signing and image building are a
  sequence of I/O of host tools. What follows the file plan in
  `WriteIncrementalOTAPackage` is never reached: `updating_recovery = false` (line
  591) is a `NameError`. The plan it would act on is what `Incremental` has.
* The key layout swap is a shell script that copies files. A reboot between a
  removal and a copy leaves a layout missing; nothing in the tree says what the
  files are to be in between, and the script keeps no state.
* The Wi-Fi, Bluetooth and settings keys of `KeyHandler` read a state of the
  framework and call a service: the state is not theirs.
* `mic_mute` and sample conversion in the HAL, the bytes of names and a `fread` of an
  open file that fails in the blob packer, a `strdup` that fails in the mixer paths.
* The init scripts are interpreted by init, which is not in this tree.
