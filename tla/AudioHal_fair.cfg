SPECIFICATION FairSpec
CONSTANTS
  t1 = t1
  t2 = t2
  out1 = out1
  in1 = in1
  NULL = NULL
  Threads = {t1, t2}
  Outs = {out1}
  Ins = {in1}
  Ops <- Calls
  CodecFaults = {}
  ScoRate = 44100
  OUT_ALL <- OutAll
  OUT_SPEAKER <- Speaker
  OUT_HEADPHONES <- OutHeadphones
  OUT_AUX_DIGITAL <- HdmiOut
  OUT_ALL_SCO <- OutSco
  BIT_IN <- InBit
  IN_ALL <- InAll
  IN_BUILTIN_MIC <- BuiltinMic
  IN_WIRED_HEADSET <- WiredMic
  IN_ALL_SCO <- ScoMic
  OutRoutes <- OutRoutesHdmi
  InRoutes <- InRoutesMics
  Orientations = {"landscape", "undefined"}
INVARIANTS
  
  NoStaleRoute
  PlaybackStartsAfterRecording
PROPERTIES
  HolderProgresses
