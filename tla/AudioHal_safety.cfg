SPECIFICATION Spec
CONSTANTS
  t1 = t1
  t2 = t2
  out1 = out1
  in1 = in1
  NULL = NULL
  Threads = {t1, t2}
  Outs = {out1}
  Ins = {in1}
  Ops <- StreamCalls
  CodecFaults <- Faults
  ScoRate = 8000
  OUT_ALL <- OutAll
  OUT_SPEAKER <- Speaker
  OUT_HEADPHONES <- OutHeadphones
  OUT_AUX_DIGITAL <- HdmiOut
  OUT_ALL_SCO <- OutSco
  BIT_IN <- InBit
  IN_ALL <- ApartInAll
  IN_BUILTIN_MIC <- ApartMic
  IN_WIRED_HEADSET <- ApartWiredMic
  IN_ALL_SCO <- ApartScoMic
  OutRoutes <- OutRoutesHdmi
  InRoutes <- InRoutesApart
  Orientations = {"undefined"}
SYMMETRY ThreadSymmetry
INVARIANTS
  IInv
  IoOnOpenPcm
  ActivePointersValid
  ActiveIffRunning
  RecordingFlagSound
  SwitchAgrees
  PortFollowsRouting
  WaitsEnd
PROPERTIES
  PcmSessionSpec
  LockOrderSpec
CHECK_DEADLOCK FALSE
