---------------------------- MODULE AudioRouteMC ----------------------------
(* Instances of AudioRoute for TLC.                                        *)
EXTENDS AudioRoute, TLC

Enum == {0, 1, 2}

NameSymmetry == Permutations(PathNames) \cup Permutations(Ctls)
=============================================================================
