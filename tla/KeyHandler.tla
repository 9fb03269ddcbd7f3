----------------------------- MODULE KeyHandler -----------------------------
(***************************************************************************)
(* The dock keys (src/asusec): the screenshot protocol, the touchpad and   *)
(* the brightness keys of KeyHandler.java.                                 *)
(*                                                                         *)
(* Keys come one at a time from the thread that dispatches input; timeouts *)
(* and replies run on the looper of mHandler.  Everything under            *)
(* mScreenshotLock is one step, as is a call of a system service.  Time is *)
(* left out: a posted timeout may come up at any moment.                   *)
(***************************************************************************)
EXTENDS Integers

CONSTANTS
  Conns,        \* identities of ServiceConnection objects
  NULL,
  MaxReplies,   \* bound on the replies of one connection in flight
  MINIMUM_BACKLIGHT, MAXIMUM_BACKLIGHT,
  STEP,         \* 10 in the code
  Levels,       \* brightness values other applications set
  Unset,        \* a setting without a value
  Automatic     \* mAutomaticAvailable

ASSUME ConnsAssumption == NULL \notin Conns
ASSUME BacklightAssumption ==
  /\ MINIMUM_BACKLIGHT \in Nat /\ MAXIMUM_BACKLIGHT \in Nat
  /\ MINIMUM_BACKLIGHT <= MAXIMUM_BACKLIGHT
  /\ STEP \in Nat
  /\ Levels \subseteq MINIMUM_BACKLIGHT..MAXIMUM_BACKLIGHT
  /\ Unset \notin Int
ASSUME MaxRepliesAssumption == MaxReplies \in Nat /\ Automatic \in BOOLEAN

VARIABLES
  mScreenshotConnection,
  timeouts,     \* posted mScreenshotTimeout, by the connection it was posted for
  running,      \* the one the looper has taken off its queue, or NULL
  bound,        \* connections bound in the activity manager
  connecting,   \* calls of onServiceConnected under way
  connected,    \* connections the running service process was given to
  requests,     \* messages at the screenshot service, by connection
  replies,      \* its replies on their way to the looper
  pc,           \* where the key being handled is
  mTouchpadEnabled, touchpad_status,
  driver, reached,       \* the touchpad, and whether the last ioctl reached it
  mode, brightness,      \* settings SCREEN_BRIGHTNESS_MODE, SCREEN_BRIGHTNESS
  value, backlight       \* local of the brightness keys; what the panel shows

service == <<bound, connecting, connected, requests, replies>>
screenshot == <<mScreenshotConnection, timeouts, running, service>>
touchpad == <<mTouchpadEnabled, touchpad_status, driver, reached>>
display == <<mode, brightness, value, backlight>>
vars == <<screenshot, pc, touchpad, display>>

Positions == {"idle", "save_touchpad", "store"}
Backlights == MINIMUM_BACKLIGHT..MAXIMUM_BACKLIGHT
None == [c \in Conns |-> 0]

-----------------------------------------------------------------------------
(* The touchpad.                                                           *)

(* The status the constructor takes from the setting.                      *)
StatusOf(setting) == setting # 0

(* nativeToggleTouchpad: nothing happens when the device does not open or  *)
(* the ioctl fails, and its result is ignored.                             *)
NativeToggle(on) ==
  \/ driver' = on /\ reached' = TRUE
  \/ driver' = driver /\ reached' = FALSE

Construct ==
  /\ mTouchpadEnabled' = StatusOf(touchpad_status)
  /\ NativeToggle(mTouchpadEnabled')

Init ==
  /\ mScreenshotConnection = NULL /\ timeouts = {} /\ running = NULL
  /\ bound = {} /\ connecting = {} /\ connected = {} /\ requests = {}
  /\ replies = None
  /\ pc = "idle"
  /\ touchpad_status \in {0, 1, Unset}
  /\ mTouchpadEnabled = StatusOf(touchpad_status)
  /\ driver \in BOOLEAN /\ reached \in BOOLEAN
  /\ reached => driver = mTouchpadEnabled
  /\ brightness \in Levels \cup {Unset}
  /\ mode \in {"manual", "automatic"}
  /\ value = MINIMUM_BACKLIGHT /\ backlight \in Levels

ToggleTouchpad ==
  /\ pc = "idle"
  /\ mTouchpadEnabled' = ~mTouchpadEnabled
  /\ NativeToggle(mTouchpadEnabled')
  /\ pc' = "save_touchpad"
  /\ UNCHANGED <<screenshot, touchpad_status, display>>

MutantSaveTouchpad ==                \* saved only if the driver was reached
  /\ pc = "save_touchpad"
  /\ pc' = "idle"
  /\ touchpad_status' =
       IF reached THEN IF mTouchpadEnabled THEN 1 ELSE 0 ELSE touchpad_status
  /\ UNCHANGED <<screenshot, mTouchpadEnabled, driver, reached, display>>

SaveTouchpad ==
  /\ pc = "save_touchpad"
  /\ pc' = "idle"
  /\ touchpad_status' = IF mTouchpadEnabled THEN 1 ELSE 0
  /\ UNCHANGED <<screenshot, mTouchpadEnabled, driver, reached, display>>

-----------------------------------------------------------------------------
(* The brightness keys: they read the setting, then give the panel and the *)
(* setting the value next to it.  Another application may write it between *)
(* the two.                                                                *)

getBrightness(def) == IF brightness = Unset THEN def ELSE brightness

MutantDimmed(v) == v - STEP          \* not clamped
Dimmed(v) ==
  IF v - STEP < MINIMUM_BACKLIGHT THEN MINIMUM_BACKLIGHT ELSE v - STEP
Brightened(v) ==
  IF v + STEP > MAXIMUM_BACKLIGHT THEN MAXIMUM_BACKLIGHT ELSE v + STEP

BrightnessKey ==
  /\ pc = "idle"
  /\ mode' = "manual"
  /\ \/ value' = Dimmed(getBrightness(MINIMUM_BACKLIGHT))
     \/ value' = Brightened(getBrightness(MAXIMUM_BACKLIGHT))
  /\ pc' = "store"
  /\ UNCHANGED <<screenshot, touchpad, brightness, backlight>>

(* A RemoteException of the power service is only logged.                  *)
setBrightness ==
  /\ pc = "store"
  /\ backlight' \in {value, backlight}
  /\ brightness' = value
  /\ value' = MINIMUM_BACKLIGHT      \* the local is gone
  /\ pc' = "idle"
  /\ UNCHANGED <<screenshot, touchpad, mode>>

BrightnessAuto ==
  /\ pc = "idle" /\ Automatic
  /\ mode' = "automatic"
  /\ UNCHANGED <<screenshot, pc, touchpad, brightness, value, backlight>>

(* Another application, for instance the settings.                         *)
OtherBrightness ==
  /\ mode' \in {"manual", "automatic"}
  /\ \E v \in Levels : brightness' = v /\ backlight' = v
  /\ UNCHANGED <<screenshot, pc, touchpad, value>>

-----------------------------------------------------------------------------
(* The screenshot.                                                         *)

(* No trace of a connection is left: its identity may be taken again.      *)
Fresh(c) ==
  /\ c # mScreenshotConnection /\ c # running
  /\ c \notin timeouts \cup bound \cup connecting \cup connected \cup requests
  /\ replies[c] = 0

MutantPosted(c) == timeouts          \* no postDelayed
Posted(c) == timeouts \cup {c}

(* bindService may fail, which changes nothing.                            *)
TakeScreenshot(c) ==
  /\ pc = "idle" /\ mScreenshotConnection = NULL
  /\ Fresh(c)
  /\ mScreenshotConnection' = c
  /\ bound' = bound \cup {c}
  /\ timeouts' = Posted(c)
  /\ UNCHANGED <<running, connecting, connected, requests, replies, pc,
                 touchpad, display>>

(* unbindService and mScreenshotConnection = null.                         *)
Unbind ==
  /\ bound' = bound \ {mScreenshotConnection}
  /\ connected' = connected \ {mScreenshotConnection}
  /\ mScreenshotConnection' = NULL

(* onServiceConnected.  The message is not sent if the screenshot is over; *)
(* it is lost if the service process has died since.                       *)
OnServiceConnected(c) ==
  /\ c \in connecting
  /\ connecting' = connecting \ {c}
  /\ requests' = IF mScreenshotConnection = c /\ c \in connected
                 THEN requests \cup {c} ELSE requests
  /\ UNCHANGED <<mScreenshotConnection, timeouts, running, bound, connected,
                 replies, pc, touchpad, display>>

(* The looper takes a timeout off its queue, then waits for the lock; from *)
(* then on removeCallbacks does not reach it.                              *)
DequeueTimeout(c) ==
  /\ running = NULL /\ c \in timeouts
  /\ running' = c
  /\ timeouts' = timeouts \ {c}
  /\ UNCHANGED <<mScreenshotConnection, service, pc, touchpad, display>>

RunTimeout ==
  /\ running # NULL
  /\ running' = NULL
  /\ IF mScreenshotConnection = NULL
     THEN UNCHANGED <<mScreenshotConnection, bound, connected>>
     ELSE Unbind
  /\ UNCHANGED <<timeouts, connecting, requests, replies, pc, touchpad, display>>

(* The handler of the reply is made on the looper of mHandler: it does not *)
(* run while a timeout does.                                               *)
MutantLooperFree == TRUE             \* a looper of its own
LooperFree == running = NULL

MutantIsMine(c) == mScreenshotConnection # NULL
IsMine(c) == mScreenshotConnection = c

HandleReply(c) ==
  /\ LooperFree /\ replies[c] > 0
  /\ replies' = [replies EXCEPT ![c] = @ - 1]
  /\ IF IsMine(c) THEN Unbind /\ timeouts' = {}
     ELSE UNCHANGED <<mScreenshotConnection, bound, connected, timeouts>>
  /\ UNCHANGED <<running, connecting, requests, pc, touchpad, display>>

-----------------------------------------------------------------------------
(* The activity manager and the screenshot service, outside this tree.     *)

(* A bound connection is connected, and again each time the service comes  *)
(* back after its process died; onServiceDisconnected does nothing.        *)
ServiceConnects(c) ==
  /\ c \in bound \ connected
  /\ connecting' = connecting \cup {c}
  /\ connected' = connected \cup {c}
  /\ UNCHANGED <<mScreenshotConnection, timeouts, running, bound, requests,
                 replies, pc, touchpad, display>>

ServiceReplies(c) ==
  /\ c \in requests /\ replies[c] < MaxReplies
  /\ requests' = requests \ {c}
  /\ replies' = [replies EXCEPT ![c] = @ + 1]
  /\ UNCHANGED <<mScreenshotConnection, timeouts, running, bound, connecting,
                 connected, pc, touchpad, display>>

ServiceDies ==
  /\ connected' = {} /\ requests' = {}
  /\ UNCHANGED <<mScreenshotConnection, timeouts, running, bound, connecting,
                 replies, pc, touchpad, display>>

(* The process the keys are handled in restarts, at any point of a key:    *)
(* settings, driver and panel stay.                                        *)
Restart ==
  /\ mScreenshotConnection' = NULL /\ timeouts' = {} /\ running' = NULL
  /\ bound' = {} /\ connecting' = {} /\ connected' = {} /\ requests' = {}
  /\ replies' = None
  /\ pc' = "idle"
  /\ Construct
  /\ value' = MINIMUM_BACKLIGHT
  /\ UNCHANGED <<touchpad_status, mode, brightness, backlight>>

Key ==
  \/ ToggleTouchpad \/ SaveTouchpad
  \/ BrightnessKey \/ setBrightness \/ BrightnessAuto
  \/ \E c \in Conns : TakeScreenshot(c)

Looper == RunTimeout \/ \E c \in Conns : DequeueTimeout(c) \/ HandleReply(c)

Environment ==
  \/ \E c \in Conns :
       OnServiceConnected(c) \/ ServiceConnects(c) \/ ServiceReplies(c)
  \/ ServiceDies \/ Restart \/ OtherBrightness

Next == Key \/ Looper \/ Environment

Spec == Init /\ [][Next]_vars

(* The looper runs what is due, and ten seconds pass.                      *)
FairSpec ==
  Spec /\ WF_vars(RunTimeout) /\ WF_vars(\E c \in Conns : DequeueTimeout(c))

-----------------------------------------------------------------------------
(* Properties.                                                             *)

TypeOK ==
  /\ mScreenshotConnection \in Conns \cup {NULL}
  /\ running \in Conns \cup {NULL}
  /\ timeouts \subseteq Conns /\ bound \subseteq Conns
  /\ connecting \subseteq Conns /\ connected \subseteq Conns
  /\ requests \subseteq Conns /\ replies \in [Conns -> 0..MaxReplies]
  /\ pc \in Positions
  /\ mTouchpadEnabled \in BOOLEAN /\ touchpad_status \in {0, 1, Unset}
  /\ driver \in BOOLEAN /\ reached \in BOOLEAN
  /\ mode \in {"manual", "automatic"} /\ brightness \in Int \cup {Unset}
  /\ value \in Int /\ backlight \in Int

Current == {mScreenshotConnection} \ {NULL}

(* A screenshot under way is one bound connection and one timeout, posted  *)
(* for it: none is left bound, and none is left without a timeout or to    *)
(* the timeout of an earlier one (lines 258-264, 291-295, 312-315).        *)
OneScreenshot ==
  /\ bound = Current
  /\ timeouts \cup ({running} \ {NULL}) = Current
  /\ running \notin timeouts

(* A screenshot is ended only by its own reply or by its own timeout, not  *)
(* by a late one of an earlier screenshot ("mScreenshotConnection ==       *)
(* myConn", line 291), unless the process goes.                            *)
OwnEnd ==
  [][ \A c \in Conns :
        mScreenshotConnection = c /\ mScreenshotConnection' = NULL /\ ~Restart
          => replies'[c] < replies[c] \/ (running = c /\ running' = NULL) ]_vars

(* A screenshot ends even if the service never connects or replies (the    *)
(* ten seconds of line 314).                                               *)
ScreenshotEnds ==
  mScreenshotConnection # NULL ~> mScreenshotConnection = NULL

(* Once a toggle is done a restart would find the status it left (lines    *)
(* 72-78, 171-177), and the touchpad agrees with it unless the last ioctl  *)
(* did not reach it.                                                       *)
TouchpadRemembered ==
  /\ pc # "save_touchpad" => mTouchpadEnabled = StatusOf(touchpad_status)
  /\ reached => driver = mTouchpadEnabled

(* The keys never take the panel out of its range, down to off             *)
(* (MINIMUM_BACKLIGHT is BRIGHTNESS_OFF + 1), from any setting within it.  *)
BacklightVisible ==
  /\ backlight \in Backlights /\ value \in Backlights
  /\ brightness \in Backlights \cup {Unset}
=============================================================================
