----------------------------- MODULE AudioRoute -----------------------------
(***************************************************************************)
(* The mixer paths of the HAL (src/audio/audio_route.c): an XML document   *)
(* gives the initial value of controls and named paths of settings; then   *)
(* reset_mixer_state, audio_route_apply_path and update_mixer_state        *)
(* compose a route in a shadow of the codec's controls and write it.       *)
(*                                                                         *)
(* The document is a run of start and end tags chosen as it is parsed.  A  *)
(* path is the sequence of its settings.  Of the arrays that grow by       *)
(* doubling the model keeps what a failed realloc leaves behind: a size    *)
(* that the array does not have.                                           *)
(***************************************************************************)
EXTENDS Naturals, Sequences, FiniteSets

CONSTANTS
  Ctls,         \* mixer controls
  NoCtl,        \* the null pointer of a name the codec does not have
  Values,       \* values a control takes
  PathNames,    \* path names a document may use
  NoPath,       \* a path that was not created; a null path pointer
  Refused,      \* values the codec refuses (an enum string it does not know)
  Faults,       \* whether documents may be malformed, and calls fail
  INITIAL_MIXER_PATH_SIZE,
  MaxTags,      \* bound on the tags of a document
  MaxLevel,     \* bound on their nesting
  MaxApplied    \* bound on the paths applied between two resets

ASSUME NoCtlAssumption == NoCtl \notin Ctls
ASSUME ValuesAssumption == Refused \subseteq Values /\ 0 \in Values
ASSUME BoundsAssumption ==
  /\ Faults \in BOOLEAN
  /\ INITIAL_MIXER_PATH_SIZE \in Nat \ {0}
  /\ MaxTags \in Nat /\ MaxLevel \in Nat /\ MaxApplied \in Nat

VARIABLES
  status,       \* parsing, ready, freed; null (audio_route_init returned
                \* NULL); crashed (what follows is undefined)
  level, path,  \* config_parse_state
  paths,        \* audio_route.mixer_path, by name
  short,        \* paths whose array is shorter than their size says; NoPath
                \* for the array of the paths
  old_value, new_value, reset_value,   \* audio_route.mixer_state
  hw,           \* the codec: two values per control
  loose,        \* history: controls whose two values differed at first, or
                \* whose last write failed in one of them
  unset,        \* history: controls whose initial value could not be written
  open, tags,   \* the document: elements open, tags seen
  flawed,       \* history: the document is malformed, or a call failed
  initial,      \* history: value of each control by the document's top level
  applied       \* history: paths applied since the last reset

parser == <<level, path>>
document == <<open, tags, flawed>>
arrays == <<paths, short>>
shadow == <<old_value, new_value, reset_value>>
codec == <<hw, loose, unset>>
vars == <<status, parser, document, arrays, shadow, codec, initial, applied>>

Setting == [ctl : Ctls \cup {NoCtl}, value : Values]

ASSUME NoPathAssumption == NoPath \notin PathNames \cup Seq(Setting)

(* A pair of values a codec control may hold.                              *)
Held == [{0, 1} -> Values \ Refused]

-----------------------------------------------------------------------------
(* Paths.                                                                  *)

path_setting_exists(settings, ctl) ==
  \E i \in DOMAIN settings : settings[i].ctl = ctl

(* The first n settings of sub are none that settings has already, which   *)
(* path_add_setting refuses.                                               *)
MutantNew(settings, sub, n) == TRUE

New(settings, sub, n) ==
  \A i \in 1..n : ~path_setting_exists(settings, sub[i].ctl)

(* The lengths at which an array must grow.                                *)
Full(n) == n = 0 \/ \E i \in 0..n : n = INITIAL_MIXER_PATH_SIZE * 2^i

(* The settings of a path written over the shadow values v.                *)
path_apply(v, settings) ==
  [c \in Ctls |->
     LET at == {i \in DOMAIN settings : settings[i].ctl = c}
     IN  IF at = {} THEN v[c] ELSE settings[CHOOSE i \in at : TRUE].value]

-----------------------------------------------------------------------------
(* audio_route_init.                                                       *)

(* alloc_mixer_state reads value 0 of every control.  malloc leaves the    *)
(* reset value unset, and nothing reads it before FinishInit saves it.     *)
Init ==
  /\ hw \in [Ctls -> Held]
  /\ old_value = [c \in Ctls |-> hw[c][0]]
  /\ loose = {c \in Ctls : hw[c][0] # hw[c][1]} /\ unset = {}
  /\ new_value = old_value
  /\ reset_value = [c \in Ctls |-> CHOOSE v \in Values : TRUE]
  /\ initial = old_value
  /\ paths = [n \in PathNames |-> NoPath] /\ short = {}
  /\ status = "parsing" /\ level = 0 /\ path = NoPath
  /\ open = <<>> /\ tags = 0 /\ flawed = FALSE
  /\ applied = <<>>

(* The parser calls start_tag for an element of this kind; proper says     *)
(* whether it is one a document should have here.                          *)
Open(kind, proper) ==
  /\ status = "parsing" /\ tags < MaxTags /\ Len(open) < MaxLevel
  /\ open = <<>> => tags = 0
  /\ proper \/ Faults
  /\ open' = Append(open, kind) /\ tags' = tags + 1
  /\ flawed' = (flawed \/ ~proper)

Inside(kind) == open # <<>> /\ open[Len(open)] = kind

(* A path has a new name below the root, and a known one inside a path.    *)
ProperPath(n) ==
  IF Len(open) = 1 THEN paths[n] = NoPath
  ELSE Inside("path") /\ paths[n] # NoPath

ProperCtl(c) == c # NoCtl /\ (Len(open) = 1 \/ Inside("path"))

(* A NULL pointer is dereferenced, or memory outside an array is written.  *)
Crash ==
  /\ status' = "crashed"
  /\ UNCHANGED <<parser, arrays, shadow, codec, initial, applied>>

(* A path at the top level is created; a name used twice yields NULL.  A   *)
(* failed growth of the array does as well, and leaves it short.           *)
StartPath(n) ==
  /\ level = 1
  /\ IF paths[n] # NoPath
     THEN /\ Open("path", ProperPath(n))
          /\ path' = NoPath /\ UNCHANGED <<status, arrays>>
     ELSE /\ NoPath \notin short
          /\ Open("path", ProperPath(n))
          /\ path' = n /\ paths' = [paths EXCEPT ![n] = <<>>]
          /\ UNCHANGED <<status, short>>
  /\ level' = 2
  /\ UNCHANGED <<shadow, codec, initial, applied>>

Created == {n \in PathNames : paths[n] # NoPath}

StartPathNoMemory(n) ==
  /\ level = 1 /\ paths[n] = NoPath
  /\ NoPath \notin short /\ Full(Cardinality(Created))
  /\ Open("path", FALSE)
  /\ path' = NoPath /\ short' = short \cup {NoPath}
  /\ level' = 2
  /\ UNCHANGED <<status, paths, shadow, codec, initial, applied>>

StartPathShort(n) ==
  /\ level = 1 /\ paths[n] = NoPath /\ NoPath \in short
  /\ Open("path", ProperPath(n)) /\ Crash

(* Settings are added to the current path up to the first duplicate.       *)
Add(sub) ==
  /\ \E n \in 0..Len(sub) :
       /\ New(paths[path], sub, n)
       /\ n < Len(sub) => ~New(paths[path], sub, n + 1)
       /\ path \notin short \/ n = 0
       /\ paths' = [paths EXCEPT ![path] = @ \o SubSeq(sub, 1, n)]
  /\ level' = level + 1
  /\ UNCHANGED <<status, path, short, shadow, codec, initial, applied>>

(* After k of them the array is full, and does not grow.                   *)
AddNoMemory(sub) ==
  /\ path \notin short
  /\ \E k \in 0..Len(sub) - 1 :
       /\ New(paths[path], sub, k + 1)
       /\ Full(Len(paths[path]) + k)
       /\ paths' = [paths EXCEPT ![path] = @ \o SubSeq(sub, 1, k)]
  /\ short' = short \cup {path}
  /\ level' = level + 1
  /\ UNCHANGED <<status, path, shadow, codec, initial, applied>>

AddToShort(sub) ==
  /\ path \in short
  /\ sub # <<>> /\ New(paths[path], sub, 1)
  /\ Crash

(* A nested path, as any path that is not at the top level, is copied into *)
(* the current one.                                                        *)
StartSubPath(n) ==
  /\ level # 1 /\ path # NoPath /\ paths[n] # NoPath
  /\ \/ Open("path", ProperPath(n)) /\ Add(paths[n])
     \/ Open("path", FALSE) /\ AddNoMemory(paths[n])
     \/ Open("path", ProperPath(n)) /\ AddToShort(paths[n])

(* An unknown name is a NULL that is dereferenced, and so is a NULL        *)
(* current path unless there is nothing to copy.                           *)
StartSubPathNull(n) ==
  /\ level # 1
  /\ Open("path", ProperPath(n))
  /\ \/ paths[n] = NoPath /\ Crash
     \/ path = NoPath /\ paths[n] \notin {NoPath, <<>>} /\ Crash
     \/ /\ path = NoPath /\ paths[n] = <<>>
        /\ level' = level + 1
        /\ UNCHANGED <<status, path, arrays, shadow, codec, initial, applied>>

MutantStartCtl(c, v) ==              \* level is left alone
  /\ level = 1 /\ c # NoCtl
  /\ Open("ctl", ProperCtl(c))
  /\ new_value' = [new_value EXCEPT ![c] = v]
  /\ initial' = [initial EXCEPT ![c] = v]
  /\ UNCHANGED <<status, parser, arrays, old_value, reset_value, codec, applied>>

(* A control at the top level sets the shadow value.                       *)
StartCtl(c, v) ==
  /\ level = 1 /\ c # NoCtl
  /\ Open("ctl", ProperCtl(c))
  /\ new_value' = [new_value EXCEPT ![c] = v]
  /\ initial' = [initial EXCEPT ![c] = v]
  /\ level' = 2
  /\ UNCHANGED <<status, path, arrays, old_value, reset_value, codec, applied>>

(* Inside a path it becomes a setting; a control the codec does not have   *)
(* becomes one of a NULL control, of value 0.  state.path outlives the end *)
(* of its path element, so a control nested in another one joins the last  *)
(* path.                                                                   *)
StartPathCtl(c, v) ==
  LET setting == <<[ctl |-> c, value |-> v]>> IN
  /\ level # 1 /\ path # NoPath
  /\ c = NoCtl => v = 0
  /\ \/ Open("ctl", ProperCtl(c)) /\ Add(setting)
     \/ Open("ctl", FALSE) /\ AddNoMemory(setting)
     \/ Open("ctl", ProperCtl(c)) /\ AddToShort(setting)

(* A control in no path; a control the codec does not have, for which the  *)
(* entry after the last of mixer_state is written; and one with no value.  *)
StartCtlCrashes(c) ==
  /\ \/ level # 1 /\ path = NoPath /\ Open("ctl", ProperCtl(c))
     \/ level = 1 /\ c = NoCtl /\ Open("ctl", ProperCtl(c))
     \/ c # NoCtl /\ Open("ctl", FALSE)
  /\ Crash

(* Any other element, the root's and a path without a name included.       *)
StartOther ==
  /\ Open("other", TRUE)
  /\ level' = level + 1
  /\ UNCHANGED <<status, path, arrays, shadow, codec, initial, applied>>

start_tag ==
  \/ StartOther
  \/ \E n \in PathNames :
       \/ StartPath(n) \/ StartPathNoMemory(n) \/ StartPathShort(n)
       \/ StartSubPath(n) \/ StartSubPathNull(n)
  \/ \E c \in Ctls \cup {NoCtl} :
       \/ StartCtlCrashes(c)
       \/ \E v \in Values : StartCtl(c, v) \/ StartPathCtl(c, v)

MutantEndTag ==                      \* level++ once more
  /\ status = "parsing" /\ open # <<>>
  /\ open' = SubSeq(open, 1, Len(open) - 1)
  /\ level' = level + 1
  /\ UNCHANGED <<status, path, tags, flawed, arrays, shadow, codec, initial, applied>>

EndTag ==
  /\ status = "parsing" /\ open # <<>>
  /\ open' = SubSeq(open, 1, Len(open) - 1)
  /\ level' = level - 1
  /\ UNCHANGED <<status, path, tags, flawed, arrays, shadow, codec, initial, applied>>

(* update_mixer_state writes both values of every control that changed.    *)
(* Each write may fail on its own; what mixer_ctl_set_value returns is     *)
(* ignored, and old_value takes the new value all the same.                *)
Due == {c \in Ctls : old_value[c] # new_value[c]}

Failures ==
  LET refused == {c \in Due : new_value[c] \in Refused} \X {0, 1}
      others  == IF Faults THEN Due \X {0, 1} ELSE {}
  IN  {refused \cup f : f \in SUBSET others}

Written(failed) ==
  [c \in Ctls |-> [i \in {0, 1} |->
     IF c \in Due /\ <<c, i>> \notin failed THEN new_value[c] ELSE hw[c][i]]]

WriteCodec(failed) ==
  /\ hw' = Written(failed)
  /\ loose' = (loose \ Due) \cup {f[1] : f \in failed}
  /\ old_value' = new_value

(* save_mixer_state reads back value 0 of the codec just written.          *)
MutantSavedFrom(held) == [c \in Ctls |-> hw[c][0]]   \* saves before the write
SavedFrom(held) == [c \in Ctls |-> held[c][0]]

(* The end of the document: apply the initial values and save them.        *)
(* The parser's state is gone with it.                                     *)
FinishInit ==
  /\ status = "parsing" /\ open = <<>> /\ tags > 0
  /\ \E failed \in Failures :
       WriteCodec(failed) /\ unset' = {c \in Ctls : <<c, 0>> \in failed}
  /\ reset_value' = SavedFrom(hw')
  /\ status' = "ready" /\ path' = NoPath /\ tags' = 0
  /\ UNCHANGED <<level, open, flawed, arrays, new_value, initial, applied>>

(* An XML error or a missing file: everything is freed, NULL is returned.  *)
FailInit ==
  /\ Faults /\ status = "parsing"
  /\ status' = "null" /\ flawed' = TRUE
  /\ UNCHANGED <<parser, open, tags, arrays, shadow, codec, initial, applied>>

-----------------------------------------------------------------------------
(* The interface select_devices uses.                                      *)

reset_mixer_state ==
  /\ status = "ready"
  /\ new_value' = reset_value
  /\ applied' = <<>>
  /\ UNCHANGED <<status, parser, document, arrays, old_value, reset_value, codec,
                 initial>>

(* An unknown name, or a NULL audio_route, is only logged.                 *)
audio_route_apply_path(n) ==
  /\ status = "ready" /\ paths[n] # NoPath
  /\ Len(applied) < MaxApplied
  /\ ~path_setting_exists(paths[n], NoCtl)
  /\ new_value' = path_apply(new_value, paths[n])
  /\ applied' = Append(applied, n)
  /\ UNCHANGED <<status, parser, document, arrays, old_value, reset_value, codec,
                 initial>>

(* A NULL control is looked for to the end of mixer_state and beyond.      *)
ApplyNull(n) ==
  /\ status = "ready" /\ paths[n] # NoPath
  /\ path_setting_exists(paths[n], NoCtl)
  /\ Crash /\ UNCHANGED document

MutantUpdateForgetsOld ==            \* old_value is not refreshed
  /\ status = "ready"
  /\ \E failed \in Failures :
       /\ hw' = Written(failed)
       /\ loose' = (loose \ Due) \cup {f[1] : f \in failed}
  /\ UNCHANGED <<status, parser, document, arrays, shadow, unset, initial, applied>>

update_mixer_state ==
  /\ status = "ready"
  /\ \E failed \in Failures : WriteCodec(failed)
  /\ UNCHANGED <<status, parser, document, arrays, new_value, reset_value, unset,
                 initial, applied>>

(* adev_close; the paths are not freed.                                    *)
audio_route_free ==
  /\ status = "ready"
  /\ status' = "freed"
  /\ UNCHANGED <<parser, document, arrays, shadow, codec, initial, applied>>

(* reset_mixer_state, which select_devices calls first, dereferences the   *)
(* NULL that adev_open keeps from a failed audio_route_init; so does       *)
(* audio_route_free.                                                       *)
UseWithoutRoute ==
  /\ status = "null"
  /\ Crash /\ UNCHANGED document

Next ==
  \/ start_tag \/ EndTag \/ FinishInit \/ FailInit
  \/ reset_mixer_state \/ update_mixer_state \/ audio_route_free
  \/ UseWithoutRoute
  \/ \E n \in PathNames : audio_route_apply_path(n) \/ ApplyNull(n)

Spec == Init /\ [][Next]_vars

-----------------------------------------------------------------------------
(* Properties.                                                             *)

TypeOK ==
  /\ status \in {"parsing", "ready", "freed", "null", "crashed"}
  /\ open \in Seq({"path", "ctl", "other"}) /\ Len(open) <= MaxLevel
  /\ level \in 0..MaxLevel /\ (status # "crashed" => level = Len(open))
  /\ tags \in 0..MaxTags /\ flawed \in BOOLEAN
  /\ path \in PathNames \cup {NoPath}
  /\ paths \in [PathNames -> Seq(Setting) \cup {NoPath}]
  /\ short \subseteq PathNames \cup {NoPath}
  /\ {old_value, new_value, reset_value, initial} \subseteq [Ctls -> Values]
  /\ hw \in [Ctls -> Held]
  /\ loose \subseteq Ctls /\ unset \subseteq Ctls
  /\ applied \in Seq(PathNames) /\ Len(applied) <= MaxApplied

(* The i-th path applied since the last reset sets control c.              *)
Sets(i, c) == path_setting_exists(paths[applied[i]], c)

(* The value v control c has when the paths applied since the last reset   *)
(* are laid over the document's initial settings, the last one winning.    *)
RouteValue(c, v) ==
  \/ v = initial[c] /\ \A i \in DOMAIN applied : ~Sets(i, c)
  \/ \E i \in DOMAIN applied :
       /\ \A j \in DOMAIN applied : Sets(j, c) => j <= i
       /\ \E k \in DOMAIN paths[applied[i]] :
            paths[applied[i]][k] = [ctl |-> c, value |-> v]

(* The shadow is the initial settings of the document overlaid with the    *)
(* paths applied since the last reset: what reset restores is what the     *)
(* document asked for, not what the codec held before (lines 467-470,      *)
(* 373-400).  Not so for an initial value that could not be written: the   *)
(* first reset replaces it by what was read back.                          *)
ShadowIsRoute ==
  status = "ready" =>
    \A c \in Ctls \ unset : RouteValue(c, new_value[c])

(* Nothing but a malformed document, an allocation that fails or a missing *)
(* route makes the parser or a later call go through a NULL pointer or     *)
(* past the end of an array: the level and the path the parser keeps are   *)
(* those of the element it is in (lines 263-305, 316).                     *)
CrashHasCause == status = "crashed" => flawed

(* A control that update_mixer_state skips has its value in the codec, in  *)
(* both channels (344-359): old_value is what they hold, but for a control *)
(* whose channels differed from the start (330), or whose last write       *)
(* failed (354-356).                                                       *)
OldIsCodec ==
  \A c \in Ctls \ loose : \A i \in {0, 1} : hw[c][i] = old_value[c]

(* What select_devices asked for is what the codec carries, in both        *)
(* channels (344-359, called at 286 of audio_hw.c), through any sequence   *)
(* of routes, refused values and writes that fail in one channel.  The     *)
(* loose controls alone may be off it: an update does not repeat a write   *)
(* that failed (356), nor mend channels that differ while value 0 is the   *)
(* one wanted (330); the next write of another value that succeeds does.   *)
CodecCarriesRoute ==
  [][ update_mixer_state =>
        \A c \in Ctls \ loose' :
          /\ \A i \in {0, 1} : hw'[c][i] = new_value[c]
          /\ c \notin unset => RouteValue(c, new_value[c]) ]_vars

(* No path sets a control twice, however it is composed (134-191).          *)
PathsHaveNoDuplicates ==
  \A n \in PathNames :
    paths[n] = NoPath \/
      \A i, j \in DOMAIN paths[n] : paths[n][i].ctl = paths[n][j].ctl => i = j
=============================================================================
