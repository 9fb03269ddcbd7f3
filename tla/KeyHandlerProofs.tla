--------------------------- MODULE KeyHandlerProofs ---------------------------
(***************************************************************************)
(* Theorems about KeyHandler, for any number of connections, any range of  *)
(* the backlight and any bound on the replies.                             *)
(***************************************************************************)
EXTENDS KeyHandler, TLAPS

(* The initial states have the types.                                      *)
LEMMA TypesInit == Init => TypeOK
  BY ConnsAssumption, BacklightAssumption, MaxRepliesAssumption
     DEF Init, TypeOK, None, StatusOf, Positions

(* Every step keeps the types.                                             *)
LEMMA TypesStep == TypeOK /\ [Next]_vars => TypeOK'
<1> SUFFICES ASSUME TypeOK, [Next]_vars PROVE TypeOK'
  OBVIOUS
<1> USE ConnsAssumption, BacklightAssumption, MaxRepliesAssumption
<1>1. CASE ToggleTouchpad
  BY <1>1 DEF TypeOK, ToggleTouchpad, NativeToggle, screenshot, service,
     display, Positions
<1>2. CASE SaveTouchpad
  BY <1>2 DEF TypeOK, SaveTouchpad, screenshot, service, display, Positions
<1>3. CASE BrightnessKey
  BY <1>3 DEF TypeOK, BrightnessKey, Dimmed, Brightened, getBrightness,
     screenshot, service, touchpad, Positions
<1>4. CASE setBrightness
  BY <1>4 DEF TypeOK, setBrightness, screenshot, service, touchpad, Positions
<1>5. CASE BrightnessAuto \/ OtherBrightness
  BY <1>5 DEF TypeOK, BrightnessAuto, OtherBrightness, screenshot, service,
     touchpad, Positions
<1>6. ASSUME NEW c \in Conns, TakeScreenshot(c) PROVE TypeOK'
  BY <1>6 DEF TypeOK, TakeScreenshot, Posted, touchpad, display
<1>7. CASE RunTimeout
  BY <1>7 DEF TypeOK, RunTimeout, Unbind, touchpad, display
<1>8. ASSUME NEW c \in Conns, DequeueTimeout(c) PROVE TypeOK'
  BY <1>8 DEF TypeOK, DequeueTimeout, service, touchpad, display
<1>9. ASSUME NEW c \in Conns, HandleReply(c) PROVE TypeOK'
  BY <1>9 DEF TypeOK, HandleReply, Unbind, touchpad, display
<1>10. ASSUME NEW c \in Conns,
              OnServiceConnected(c) \/ ServiceConnects(c) \/ ServiceReplies(c)
       PROVE TypeOK'
  BY <1>10 DEF TypeOK, OnServiceConnected, ServiceConnects, ServiceReplies,
     touchpad, display
<1>11. CASE ServiceDies
  BY <1>11 DEF TypeOK, ServiceDies, touchpad, display
<1>12. CASE Restart
  <2>1. mTouchpadEnabled' \in BOOLEAN
    BY <1>12, Zenon DEF Restart, Construct, StatusOf
  <2>2. driver' \in BOOLEAN /\ reached' \in BOOLEAN
    BY <1>12, <2>1, Zenon DEF Restart, Construct, NativeToggle, TypeOK
  <2>3. /\ UNCHANGED <<touchpad_status, mode, brightness, backlight>>
        /\ value' = MINIMUM_BACKLIGHT /\ pc' = "idle"
        /\ mScreenshotConnection' = NULL /\ timeouts' = {} /\ running' = NULL
        /\ bound' = {} /\ connecting' = {} /\ connected' = {} /\ requests' = {}
        /\ replies' = None
    BY <1>12 DEF Restart
  <2> QED
    BY <2>1, <2>2, <2>3 DEF TypeOK, None, Positions
<1>13. CASE UNCHANGED vars
  BY <1>13 DEF TypeOK, vars, screenshot, service, touchpad, display
<1> QED
  BY <1>1, <1>2, <1>3, <1>4, <1>5, <1>6, <1>7, <1>8, <1>9, <1>10, <1>11, <1>12,
     <1>13 DEF Next, Key, Looper, Environment

(* The steps that leave the screenshot as it is.                           *)
LEMMA ScreenshotAside ==
  ASSUME TypeOK, [Next]_vars
  PROVE  \/ UNCHANGED <<mScreenshotConnection, timeouts, running, bound>>
         \/ RunTimeout \/ Restart
         \/ \E c \in Conns : TakeScreenshot(c) \/ DequeueTimeout(c) \/ HandleReply(c)
  BY DEF Next, Key, Looper, Environment, vars, screenshot, service,
     ToggleTouchpad, SaveTouchpad, BrightnessKey, setBrightness, BrightnessAuto,
     OtherBrightness, OnServiceConnected, ServiceConnects, ServiceReplies,
     ServiceDies

(* Every step keeps the one bound connection and the one timeout together. *)
LEMMA OneScreenshotStep ==
  TypeOK /\ OneScreenshot /\ [Next]_vars => OneScreenshot'
<1> SUFFICES ASSUME TypeOK, OneScreenshot, [Next]_vars PROVE OneScreenshot'
  OBVIOUS
<1> USE ConnsAssumption DEF OneScreenshot, Current, TypeOK
<1>1. CASE UNCHANGED <<mScreenshotConnection, timeouts, running, bound>>
  BY <1>1
<1>2. CASE RunTimeout
  BY <1>2 DEF RunTimeout, Unbind
<1>3. CASE Restart
  BY <1>3 DEF Restart
<1>4. ASSUME NEW c \in Conns, TakeScreenshot(c) PROVE OneScreenshot'
  BY <1>4 DEF TakeScreenshot, Posted, Fresh
<1>5. ASSUME NEW c \in Conns, DequeueTimeout(c) PROVE OneScreenshot'
  BY <1>5 DEF DequeueTimeout, service
<1>6. ASSUME NEW c \in Conns, HandleReply(c) PROVE OneScreenshot'
  BY <1>6 DEF HandleReply, LooperFree, IsMine, Unbind
<1> QED
  BY <1>1, <1>2, <1>3, <1>4, <1>5, <1>6, ScreenshotAside

(* Every field keeps to the values its code gives it, for any number of    *)
(* connections and replies.                                                *)
THEOREM Typing == Spec => []TypeOK
BY TypesInit, TypesStep, PTL DEF Spec

(* A screenshot under way is one bound connection and its own timeout: the *)
(* service is never left bound (KeyHandler.java 258-264, 291-295, 312-315).*)
THEOREM ScreenshotPaired == Spec => []OneScreenshot
<1>1. Init => TypeOK /\ OneScreenshot
  BY TypesInit DEF Init, OneScreenshot, Current
<1>2. TypeOK /\ OneScreenshot /\ [Next]_vars => (TypeOK /\ OneScreenshot)'
  BY TypesStep, OneScreenshotStep
<1> QED
  BY <1>1, <1>2, PTL DEF Spec

(* No late reply and no late timeout ends a newer screenshot: each ends by *)
(* its own (line 291, and the looper shared by lines 287 and 314).         *)
THEOREM OwnEndings == Spec => OwnEnd
<1>1. Spec => [](TypeOK /\ OneScreenshot)
  <2>1. Init => TypeOK /\ OneScreenshot
    BY TypesInit DEF Init, OneScreenshot, Current
  <2>2. TypeOK /\ OneScreenshot /\ [Next]_vars => (TypeOK /\ OneScreenshot)'
    BY TypesStep, OneScreenshotStep
  <2> QED
    BY <2>1, <2>2, PTL DEF Spec
<1> DEFINE Own ==
      \A c \in Conns :
        mScreenshotConnection = c /\ mScreenshotConnection' = NULL /\ ~Restart
          => replies'[c] < replies[c] \/ (running = c /\ running' = NULL)
<1>2. TypeOK /\ OneScreenshot /\ [Next]_vars => Own
  <2> SUFFICES ASSUME TypeOK, OneScreenshot, [Next]_vars, NEW c \in Conns,
                      mScreenshotConnection = c, mScreenshotConnection' = NULL,
                      ~Restart
               PROVE  replies'[c] < replies[c] \/ (running = c /\ running' = NULL)
    OBVIOUS
  <2> USE ConnsAssumption
  <2>1. CASE RunTimeout
    BY <2>1 DEF RunTimeout, OneScreenshot, Current, TypeOK
  <2>2. ASSUME NEW d \in Conns, HandleReply(d)
        PROVE  replies'[c] < replies[c]
    <3>1. d = c
      BY <2>2 DEF HandleReply, IsMine
    <3> QED
      BY <2>2, <3>1, MaxRepliesAssumption DEF HandleReply, TypeOK
  <2>3. ASSUME NEW d \in Conns, TakeScreenshot(d) \/ DequeueTimeout(d)
        PROVE  FALSE
    BY <2>3 DEF TakeScreenshot, DequeueTimeout
  <2> QED
    BY <2>1, <2>2, <2>3, ScreenshotAside
<1>3. TypeOK /\ OneScreenshot /\ [Next]_vars => [Own]_vars
  BY <1>2
<1> QED
  BY <1>1, <1>3, PTL DEF Spec, OwnEnd

(* The touchpad status a restart would find is the one in force, and the   *)
(* driver has it unless it could not be reached (lines 72-81, 171-177).    *)
THEOREM TouchpadKept == Spec => []TouchpadRemembered
<1> USE BacklightAssumption
<1>1. Init => TouchpadRemembered
  BY DEF Init, TouchpadRemembered
<1>2. TypeOK /\ TouchpadRemembered /\ [Next]_vars => TouchpadRemembered'
  <2> SUFFICES ASSUME TypeOK, TouchpadRemembered, [Next]_vars
               PROVE  TouchpadRemembered'
    OBVIOUS
  <2>1. CASE ToggleTouchpad
    BY <2>1 DEF ToggleTouchpad, NativeToggle, TouchpadRemembered
  <2>2. CASE SaveTouchpad
    BY <2>2 DEF SaveTouchpad, TouchpadRemembered, StatusOf, TypeOK
  <2>3. CASE Restart
    BY <2>3 DEF Restart, Construct, NativeToggle, TouchpadRemembered, StatusOf
  <2>4. CASE /\ UNCHANGED touchpad
             /\ pc # "save_touchpad" \/ pc' = pc
    BY <2>4 DEF touchpad, TouchpadRemembered, StatusOf
  <2>5. \/ ToggleTouchpad \/ SaveTouchpad \/ Restart
        \/ UNCHANGED touchpad /\ (pc # "save_touchpad" \/ pc' = pc)
    BY DEF Next, Key, Looper, Environment, vars, BrightnessKey, setBrightness,
       BrightnessAuto, OtherBrightness, TakeScreenshot, RunTimeout, DequeueTimeout,
       HandleReply, OnServiceConnected, ServiceConnects, ServiceReplies, ServiceDies
  <2> QED
    BY <2>1, <2>2, <2>3, <2>4, <2>5
<1> QED
  BY <1>1, <1>2, TypesInit, TypesStep, PTL DEF Spec

(* The brightness keys stay between the two ends of the range, whatever    *)
(* the step (lines 180-202).                                               *)
THEOREM BacklightKept == Spec => []BacklightVisible
<1> USE BacklightAssumption DEF BacklightVisible, Backlights
<1>1. Init => BacklightVisible
  BY DEF Init
<1>2. BacklightVisible /\ [Next]_vars => BacklightVisible'
  <2> SUFFICES ASSUME BacklightVisible, [Next]_vars PROVE BacklightVisible'
    OBVIOUS
  <2>1. CASE BrightnessKey
    BY <2>1 DEF BrightnessKey, Dimmed, Brightened, getBrightness
  <2>2. CASE setBrightness
    BY <2>2 DEF setBrightness
  <2>3. CASE BrightnessAuto \/ OtherBrightness
    BY <2>3 DEF BrightnessAuto, OtherBrightness
  <2>4. CASE Restart
    BY <2>4 DEF Restart
  <2>5. CASE UNCHANGED display
    BY <2>5 DEF display
  <2> QED
    BY <2>1, <2>2, <2>3, <2>4, <2>5 DEF Next, Key, Looper, Environment, vars,
       ToggleTouchpad, SaveTouchpad, TakeScreenshot, RunTimeout, DequeueTimeout,
       HandleReply, OnServiceConnected, ServiceConnects, ServiceReplies, ServiceDies
<1> QED
  BY <1>1, <1>2, PTL DEF Spec

-----------------------------------------------------------------------------
(* Why a screenshot ends (lines 258-264, 314): as long as one is under way *)
(* its own timeout is posted or about to run, is not taken back, and ends  *)
(* it when it runs.                                                        *)
HeadsForItsEnd ==
  [][ mScreenshotConnection # NULL =>
        /\ running \in {NULL, mScreenshotConnection}
        /\ running = NULL => mScreenshotConnection \in timeouts
        /\ mScreenshotConnection' = mScreenshotConnection =>
             /\ mScreenshotConnection \in timeouts' \cup {running'}
             /\ running # NULL => running' = running
        /\ RunTimeout => mScreenshotConnection' = NULL ]_vars

(* Two steps of the looper away from its end at most, a screenshot comes   *)
(* no further from it, whatever the service, the keys and late replies do; *)
(* that the looper takes them is the fairness ScreenshotEnds assumes.      *)
THEOREM TimeoutPending == Spec => HeadsForItsEnd
<1>1. Spec => [](TypeOK /\ OneScreenshot)
  BY Typing, ScreenshotPaired, PTL
<1> DEFINE Heads ==
      mScreenshotConnection # NULL =>
        /\ running \in {NULL, mScreenshotConnection}
        /\ running = NULL => mScreenshotConnection \in timeouts
        /\ mScreenshotConnection' = mScreenshotConnection =>
             /\ mScreenshotConnection \in timeouts' \cup {running'}
             /\ running # NULL => running' = running
        /\ RunTimeout => mScreenshotConnection' = NULL
<1>2. TypeOK /\ OneScreenshot /\ [Next]_vars => Heads
  <2> SUFFICES ASSUME TypeOK, OneScreenshot, [Next]_vars,
                      mScreenshotConnection # NULL
               PROVE  /\ running \in {NULL, mScreenshotConnection}
                      /\ running = NULL => mScreenshotConnection \in timeouts
                      /\ mScreenshotConnection' = mScreenshotConnection =>
                           /\ mScreenshotConnection \in timeouts' \cup {running'}
                           /\ running # NULL => running' = running
                      /\ RunTimeout => mScreenshotConnection' = NULL
    OBVIOUS
  <2>1. /\ running \in {NULL, mScreenshotConnection}
        /\ running = NULL => mScreenshotConnection \in timeouts
    BY DEF OneScreenshot, Current
  <2>2. RunTimeout => mScreenshotConnection' = NULL
    BY DEF RunTimeout, Unbind
  <2>3. ASSUME mScreenshotConnection' = mScreenshotConnection
        PROVE  /\ mScreenshotConnection \in timeouts' \cup {running'}
               /\ running # NULL => running' = running
    <3> USE <2>3
    <3>1. OneScreenshot'
      BY OneScreenshotStep
    <3>2. mScreenshotConnection \in timeouts' \cup {running'}
      BY <3>1 DEF OneScreenshot, Current
    <3>3. ~RunTimeout /\ ~Restart
      BY <2>2 DEF Restart
    <3>4. ASSUME NEW c \in Conns, TakeScreenshot(c) \/ DequeueTimeout(c) \/ HandleReply(c)
          PROVE  running # NULL => running' = running
      BY <3>4 DEF TakeScreenshot, DequeueTimeout, HandleReply
    <3> QED
      BY <3>2, <3>3, <3>4, ScreenshotAside
  <2> QED
    BY <2>1, <2>2, <2>3
<1>3. TypeOK /\ OneScreenshot /\ [Next]_vars => [Heads]_vars
  BY <1>2
<1> QED
  BY <1>1, <1>3, PTL DEF Spec, HeadsForItsEnd
=============================================================================
