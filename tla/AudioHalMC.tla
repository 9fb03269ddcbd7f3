----------------------------- MODULE AudioHalMC -----------------------------
(***************************************************************************)
(* Instances of AudioHal for TLC.  The masks are the bit numbers of the    *)
(* audio_devices_t constants of Android 4.2, the release the code builds   *)
(* against (it names AUDIO_DEVICE_BIT_IN).                                 *)
(***************************************************************************)
EXTENDS AudioHal, TLC

Speaker == {1}
WiredHeadset == {2}
WiredHeadphone == {3}
HdmiOut == {10}
ScoOut == {4}

InBit == {31}
BuiltinMic == {2, 31}
WiredMic == {4, 31}
ScoMic == {3, 31}

OutAll == (0..15) \cup {30}
OutHeadphones == WiredHeadset \cup WiredHeadphone
OutSco == {4, 5, 6}
InAll == (0..8) \cup {30, 31}

(* Input bits moved 16 places up: a layout whose two directions share no   *)
(* bit.                                                                    *)
ApartMic == {18, 31}
ApartWiredMic == {20, 31}
ApartScoMic == {19, 31}
ApartInAll == (16..24) \cup {31}

OutRoutesAll == {Speaker, WiredHeadset, HdmiOut, ScoOut}
OutRoutesHdmi == {HdmiOut}
InRoutesAll == {BuiltinMic, WiredMic, ScoMic}
InRoutesMics == {BuiltinMic, WiredMic}
InRoutesApart == {ApartMic, ApartScoMic}

StreamCalls == Calls \ {"orientation"}

ThreadSymmetry == Permutations(Threads)
=============================================================================
