-------------------------- MODULE AudioRouteProofs --------------------------
(* The mixer paths of AudioRoute, for any controls, values, path names and *)
(* documents of any length.                                                *)
EXTENDS AudioRoute, TLAPS

(* Settings of a path that were not there before keep it without           *)
(* duplicates.                                                             *)
Distinct(settings) ==
  \A i, j \in DOMAIN settings : settings[i].ctl = settings[j].ctl => i = j

LEMMA AppendedTyped ==
  ASSUME NEW S, NEW s \in Seq(S), NEW sub \in Seq(S), NEW n \in 0..Len(sub)
  PROVE  /\ s \o SubSeq(sub, 1, n) \in Seq(S)
         /\ DOMAIN (s \o SubSeq(sub, 1, n)) = 1..Len(s) + n
         /\ \A i \in 1..Len(s) : (s \o SubSeq(sub, 1, n))[i] = s[i]
         /\ \A i \in 1..n : (s \o SubSeq(sub, 1, n))[Len(s) + i] = sub[i]
<1>1. /\ SubSeq(sub, 1, n) \in Seq(S) /\ Len(SubSeq(sub, 1, n)) = n
      /\ \A i \in 1..n : SubSeq(sub, 1, n)[i] = sub[i]
  OBVIOUS
<1> QED
  BY <1>1

LEMMA AppendedDistinct ==
  ASSUME NEW s \in Seq(Setting), NEW sub \in Seq(Setting), NEW n \in 0..Len(sub),
         Distinct(s), Distinct(sub), New(s, sub, n)
  PROVE  Distinct(s \o SubSeq(sub, 1, n))
<1> DEFINE t == s \o SubSeq(sub, 1, n)
<1>1. /\ DOMAIN t = 1..Len(s) + n
      /\ \A i \in 1..Len(s) : t[i] = s[i] /\ i \in DOMAIN s
      /\ \A i \in 1..n : t[Len(s) + i] = sub[i] /\ i \in DOMAIN sub
  BY AppendedTyped
<1>2. \A i \in 1..Len(s), j \in 1..n : s[i].ctl # sub[j].ctl
  BY <1>1 DEF New, path_setting_exists
<1>3. \A i \in DOMAIN t : i \in 1..Len(s) \/ \E k \in 1..n : i = Len(s) + k
  <2> TAKE i \in DOMAIN t
  <2>1. i \notin 1..Len(s) => i - Len(s) \in 1..n /\ i = Len(s) + (i - Len(s))
    BY <1>1
  <2> QED
    BY <2>1
<1> SUFFICES ASSUME NEW i \in DOMAIN t, NEW j \in DOMAIN t, t[i].ctl = t[j].ctl
             PROVE  i = j
  BY DEF Distinct
<1>4. CASE i \in 1..Len(s) /\ j \in 1..Len(s)
  BY <1>1, <1>4 DEF Distinct
<1>5. CASE i \in 1..Len(s) /\ j \notin 1..Len(s)
  BY <1>1, <1>2, <1>3, <1>5
<1>6. CASE i \notin 1..Len(s) /\ j \in 1..Len(s)
  BY <1>1, <1>2, <1>3, <1>6
<1>7. CASE i \notin 1..Len(s) /\ j \notin 1..Len(s)
  <2>1. PICK k \in 1..n, l \in 1..n : i = Len(s) + k /\ j = Len(s) + l
    BY <1>3, <1>7
  <2>2. sub[k].ctl = sub[l].ctl /\ k \in DOMAIN sub /\ l \in DOMAIN sub
    BY <1>1, <2>1
  <2> QED
    BY <2>1, <2>2 DEF Distinct
<1> QED
  BY <1>4, <1>5, <1>6, <1>7

-----------------------------------------------------------------------------
(* Types.                                                                  *)

(* A path pointer of the parser points at a path that was created.         *)
PathExists == path # NoPath => paths[path] # NoPath

Typed == TypeOK /\ PathExists

Kinds == {"path", "ctl", "other"}

LEMMA OpenType ==
  ASSUME TypeOK, NEW kind \in Kinds, NEW proper, Open(kind, proper)
  PROVE  /\ status = "parsing" /\ level = Len(open) /\ level + 1 \in 0..MaxLevel
         /\ open' \in Seq(Kinds) /\ Len(open') = level + 1 /\ Len(open') <= MaxLevel
         /\ open' = Append(open, kind)
         /\ tags' \in 0..MaxTags /\ flawed' \in BOOLEAN
<1> USE BoundsAssumption DEF BoundsAssumption, TypeOK, Kinds
<1>1. status = "parsing" /\ level = Len(open) /\ tags < MaxTags /\ Len(open) < MaxLevel
  BY DEF Open
<1>2. open' = Append(open, kind) /\ tags' = tags + 1
  BY DEF Open
<1>3. flawed' \in BOOLEAN
  BY Zenon DEF Open
<1> QED
  BY <1>1, <1>2, <1>3

(* The parts of the type invariant.                                        *)
ParserType ==
  /\ open \in Seq(Kinds) /\ Len(open) <= MaxLevel
  /\ level \in 0..MaxLevel /\ (status # "crashed" => level = Len(open))
  /\ tags \in 0..MaxTags /\ flawed \in BOOLEAN
PathsType ==
  /\ path \in PathNames \cup {NoPath}
  /\ paths \in [PathNames -> Seq(Setting) \cup {NoPath}]
  /\ short \subseteq PathNames \cup {NoPath}
  /\ PathExists
MixerType ==
  /\ {old_value, new_value, reset_value, initial} \subseteq [Ctls -> Values]
  /\ hw \in [Ctls -> Held]
  /\ loose \subseteq Ctls /\ unset \subseteq Ctls
  /\ applied \in Seq(PathNames) /\ Len(applied) <= MaxApplied
Statuses == {"parsing", "ready", "freed", "null", "crashed"}

LEMMA TypedParts ==
  Typed <=> status \in Statuses /\ ParserType /\ PathsType /\ MixerType
BY DEF Typed, TypeOK, ParserType, PathsType, MixerType, Statuses, Kinds

LEMMA TypesInit == Init => Typed
<1> SUFFICES ASSUME Init
             PROVE  status \in Statuses /\ ParserType /\ PathsType /\ MixerType
  BY TypedParts
<1>1. status \in Statuses /\ ParserType
  <2>1. flawed \in BOOLEAN
    BY Zenon DEF Init
  <2>2. open \in Seq(Kinds) /\ Len(open) = 0
    BY DEF Init
  <2> QED
    BY <2>1, <2>2, BoundsAssumption
       DEF BoundsAssumption, Init, Statuses, ParserType
<1>2. PathsType
  BY DEF Init, PathsType, PathExists
<1>3. MixerType
  <2>1. hw \in [Ctls -> Held] /\ \A h \in Held : h[0] \in Values
    BY DEF Init, Held
  <2>2. old_value \in [Ctls -> Values]
    BY <2>1 DEF Init
  <2>3. (CHOOSE v \in Values : TRUE) \in Values
    BY ValuesAssumption DEF ValuesAssumption
  <2>4. reset_value \in [Ctls -> Values]
    BY <2>3 DEF Init
  <2> QED
    BY <2>1, <2>2, <2>4, BoundsAssumption
       DEF BoundsAssumption, Init, MixerType
<1> QED
  BY <1>1, <1>2, <1>3

LEMMA StartsTyped ==
  ASSUME Typed, start_tag PROVE Typed'
<1> USE DEF Statuses
<1>1. status = "parsing" /\ TypeOK
  BY DEF start_tag, StartOther, StartPath, StartPathNoMemory, StartPathShort,
         StartSubPath, StartSubPathNull, StartCtlCrashes, StartCtl,
         StartPathCtl, Open, Typed
<1>2. status \in Statuses /\ ParserType /\ PathsType /\ MixerType
  BY TypedParts
<1>3. SUFFICES (status \in Statuses /\ ParserType /\ PathsType /\ MixerType)'
  BY TypedParts, PTL
<1>4. ASSUME NEW kind \in Kinds, NEW proper, Open(kind, proper), Crash
      PROVE  (status \in Statuses /\ ParserType /\ PathsType /\ MixerType)'
  BY <1>1, <1>2, <1>4, OpenType
     DEF Crash, parser, arrays, shadow, codec, ParserType, PathsType, MixerType, PathExists
<1>5. ASSUME NEW kind \in Kinds, NEW proper, Open(kind, proper),
             level' = level + 1, UNCHANGED status
      PROVE  (status \in Statuses /\ ParserType)'
  BY <1>1, <1>2, <1>5, OpenType DEF ParserType
<1>6. ASSUME NEW sub \in Seq(Setting), NEW n \in 0..Len(sub), path # NoPath,
             paths' = [paths EXCEPT ![path] = @ \o SubSeq(sub, 1, n)],
             path' = path, short' \subseteq short \cup {path}
      PROVE  PathsType'
  <2>1. path \in PathNames /\ paths[path] \in Seq(Setting)
    BY <1>2, <1>6 DEF PathsType, PathExists
  <2>2. paths[path] \o SubSeq(sub, 1, n) \in Seq(Setting)
    BY <2>1, AppendedTyped
  <2>3. /\ paths' \in [PathNames -> Seq(Setting) \cup {NoPath}]
        /\ paths'[path] \in Seq(Setting)
    BY <1>2, <1>6, <2>1, <2>2 DEF PathsType
  <2>4. paths'[path] # NoPath
    BY <2>3, NoPathAssumption DEF NoPathAssumption
  <2> QED
    BY <1>2, <1>6, <2>1, <2>3, <2>4 DEF PathsType, PathExists
<1>7. ASSUME NEW sub \in Seq(Setting), path # NoPath, NEW kind \in Kinds, NEW proper,
             Open(kind, proper), Add(sub) \/ AddNoMemory(sub) \/ AddToShort(sub)
      PROVE  (status \in Statuses /\ ParserType /\ PathsType /\ MixerType)'
  <2>1. CASE AddToShort(sub)
    BY <1>4, <1>7, <2>1 DEF AddToShort
  <2>2. CASE Add(sub)
    <3>1. PICK n \in 0..Len(sub) :
            paths' = [paths EXCEPT ![path] = @ \o SubSeq(sub, 1, n)]
      BY <2>2 DEF Add
    <3>2. /\ level' = level + 1
          /\ UNCHANGED <<status, path, short, shadow, codec, initial, applied>>
      BY <2>2 DEF Add
    <3> QED
      BY <1>2, <1>5, <1>6, <1>7, <3>1, <3>2 DEF shadow, codec, MixerType
  <2>3. CASE AddNoMemory(sub)
    <3>1. PICK n \in 0..Len(sub) - 1 :
            paths' = [paths EXCEPT ![path] = @ \o SubSeq(sub, 1, n)]
      BY <2>3 DEF AddNoMemory
    <3>2. /\ level' = level + 1 /\ short' = short \cup {path}
          /\ UNCHANGED <<status, path, shadow, codec, initial, applied>>
      BY <2>3 DEF AddNoMemory
    <3>3. n \in 0..Len(sub)
      BY <3>1
    <3> QED
      BY <1>2, <1>5, <1>6, <1>7, <3>1, <3>2, <3>3 DEF shadow, codec, MixerType
  <2> QED
    BY <1>7, <2>1, <2>2, <2>3
<1> USE DEF Kinds
<1>8. CASE StartOther
  <2>1. /\ level' = level + 1
        /\ UNCHANGED <<status, path, arrays, shadow, codec, initial, applied>>
    BY <1>8 DEF StartOther
  <2>2. (status \in Statuses /\ ParserType)'
    BY <1>5, <1>8, <2>1 DEF StartOther
  <2> QED
    BY <1>2, <2>1, <2>2 DEF arrays, shadow, codec, PathsType, PathExists, MixerType
<1>9. ASSUME NEW n \in PathNames, StartPath(n)
      PROVE  (status \in Statuses /\ ParserType /\ PathsType /\ MixerType)'
  <2>1. Open("path", ProperPath(n)) /\ level = 1 /\ level' = 2
    BY <1>9 DEF StartPath
  <2>2. UNCHANGED <<status, short, shadow, codec, initial, applied>>
    BY <1>9 DEF StartPath, arrays
  <2>3. (status \in Statuses /\ ParserType)'
    BY <1>5, <2>1, <2>2
  <2>4. \/ path' = NoPath /\ paths' = paths
        \/ path' = n /\ paths' = [paths EXCEPT ![n] = <<>>]
    BY <1>9 DEF StartPath, arrays
  <2>5. <<>> \in Seq(Setting) /\ <<>> # NoPath
    <3>1. <<>> \in Seq(Setting)
      OBVIOUS
    <3>2. NoPath \notin Seq(Setting)
      BY NoPathAssumption DEF NoPathAssumption
    <3> QED
      BY <3>1, <3>2
  <2>6. PathsType'
    BY <1>2, <2>2, <2>4, <2>5 DEF PathsType, PathExists
  <2> QED
    BY <1>2, <2>2, <2>3, <2>6 DEF shadow, codec, MixerType
<1>10. ASSUME NEW n \in PathNames, StartPathNoMemory(n)
       PROVE  (status \in Statuses /\ ParserType /\ PathsType /\ MixerType)'
  <2>1. Open("path", FALSE)
    BY <1>10 DEF StartPathNoMemory
  <2>a. level' = level + 1
    BY <1>10 DEF StartPathNoMemory
  <2>2. UNCHANGED <<status, paths, shadow, codec, initial, applied>>
    BY <1>10 DEF StartPathNoMemory
  <2>3. (status \in Statuses /\ ParserType)'
    BY <1>5, <2>1, <2>a, <2>2, Zenon
  <2>4. path' = NoPath /\ short' = short \cup {NoPath}
    BY <1>10 DEF StartPathNoMemory
  <2>5. PathsType'
    BY <1>2, <2>2, <2>4 DEF PathsType, PathExists
  <2> QED
    BY <1>2, <2>2, <2>3, <2>5 DEF shadow, codec, MixerType
<1>11. ASSUME NEW n \in PathNames, StartPathShort(n)
       PROVE  (status \in Statuses /\ ParserType /\ PathsType /\ MixerType)'
  BY <1>4, <1>11 DEF StartPathShort
<1>12. ASSUME NEW n \in PathNames, StartSubPath(n)
       PROVE  (status \in Statuses /\ ParserType /\ PathsType /\ MixerType)'
  <2>1. paths[n] \in Seq(Setting) /\ path # NoPath
    BY <1>2, <1>12 DEF StartSubPath, PathsType
  <2> QED
    BY <1>7, <1>12, <2>1 DEF StartSubPath
<1>13. ASSUME NEW n \in PathNames, StartSubPathNull(n)
       PROVE  (status \in Statuses /\ ParserType /\ PathsType /\ MixerType)'
  <2>1. CASE Crash
    BY <1>4, <1>13, <2>1 DEF StartSubPathNull
  <2>2. CASE ~Crash
    <3>1. /\ level' = level + 1
          /\ UNCHANGED <<status, path, arrays, shadow, codec, initial, applied>>
      BY <1>13, <2>2 DEF StartSubPathNull
    <3>2. (status \in Statuses /\ ParserType)'
      BY <1>5, <1>13, <3>1 DEF StartSubPathNull
    <3> QED
      BY <1>2, <3>1, <3>2 DEF arrays, shadow, codec, PathsType, PathExists, MixerType
  <2> QED
    BY <2>1, <2>2
<1>14. ASSUME NEW c \in Ctls \cup {NoCtl}, StartCtlCrashes(c)
       PROVE  (status \in Statuses /\ ParserType /\ PathsType /\ MixerType)'
  BY <1>4, <1>14 DEF StartCtlCrashes
<1>15. ASSUME NEW c \in Ctls \cup {NoCtl}, NEW v \in Values, StartCtl(c, v)
       PROVE  (status \in Statuses /\ ParserType /\ PathsType /\ MixerType)'
  <2>1. Open("ctl", ProperCtl(c)) /\ level = 1 /\ level' = 2 /\ c \in Ctls
    BY <1>15 DEF StartCtl
  <2>2. UNCHANGED <<status, path, arrays, old_value, reset_value, codec, applied>>
    BY <1>15 DEF StartCtl
  <2>3. (status \in Statuses /\ ParserType)'
    BY <1>5, <2>1, <2>2
  <2>4. new_value' \in [Ctls -> Values] /\ initial' \in [Ctls -> Values]
    BY <1>2, <1>15, <2>1 DEF StartCtl, MixerType
  <2> QED
    BY <1>2, <2>2, <2>3, <2>4 DEF arrays, codec, PathsType, PathExists, MixerType
<1>16. ASSUME NEW c \in Ctls \cup {NoCtl}, NEW v \in Values, StartPathCtl(c, v)
       PROVE  (status \in Statuses /\ ParserType /\ PathsType /\ MixerType)'
  <2>1. <<[ctl |-> c, value |-> v]>> \in Seq(Setting) /\ path # NoPath
    BY <1>16 DEF StartPathCtl, Setting
  <2> QED
    BY <1>7, <1>16, <2>1 DEF StartPathCtl
<1> QED
  BY <1>8, <1>9, <1>10, <1>11, <1>12, <1>13, <1>14, <1>15, <1>16 DEF start_tag

(* A failed write leaves its channel alone, and a refused value fails in   *)
(* both.                                                                   *)
LEMMA FailuresAre ==
  ASSUME NEW failed \in Failures
  PROVE  /\ failed \subseteq Due \X {0, 1}
         /\ \A c \in Due, i \in {0, 1} :
              new_value[c] \in Refused => <<c, i>> \in failed
BY DEF Failures

(* The codec accepts what is written to it.                                *)
LEMMA WrittenTyped ==
  ASSUME MixerType, NEW failed \in Failures
  PROVE  /\ Written(failed) \in [Ctls -> Held]
         /\ SavedFrom(Written(failed)) \in [Ctls -> Values]
         /\ \A c \in Ctls, i \in {0, 1} :
              Written(failed)[c][i] =
                IF c \in Due /\ <<c, i>> \notin failed THEN new_value[c] ELSE hw[c][i]
<1>1. hw \in [Ctls -> Held] /\ new_value \in [Ctls -> Values]
  BY DEF MixerType
<1> DEFINE new(c, i) ==
             IF c \in Due /\ <<c, i>> \notin failed THEN new_value[c] ELSE hw[c][i]
<1>2. Written(failed) = [c \in Ctls |-> [i \in {0, 1} |-> new(c, i)]]
  BY DEF Written
<1>3. \A c \in Ctls, i \in {0, 1} : new(c, i) \in Values \ Refused
  <2> SUFFICES ASSUME NEW c \in Ctls, NEW i \in {0, 1}
               PROVE  new(c, i) \in Values \ Refused
    OBVIOUS
  <2>1. hw[c][i] \in Values \ Refused
    BY <1>1 DEF Held
  <2>2. c \in Due /\ <<c, i>> \notin failed => new_value[c] \in Values \ Refused
    BY <1>1, FailuresAre
  <2> QED
    BY <2>1, <2>2
<1> HIDE DEF new
<1>4. \A c \in Ctls : [i \in {0, 1} |-> new(c, i)] \in Held
  BY <1>3 DEF Held
<1>5. Written(failed) \in [Ctls -> Held]
  BY <1>2, <1>4
<1>6. \A h \in Held : h[0] \in Values
  BY DEF Held
<1>7. SavedFrom(Written(failed)) \in [Ctls -> Values]
  BY <1>5, <1>6 DEF SavedFrom
<1> QED
  BY <1>2, <1>5, <1>7 DEF new

(* What an update or the end of the document does to the codec.            *)
LEMMA CodecWritten ==
  ASSUME MixerType, NEW failed \in Failures, WriteCodec(failed)
  PROVE  /\ hw' \in [Ctls -> Held] /\ loose' \subseteq Ctls
         /\ SavedFrom(hw') \in [Ctls -> Values]
<1>1. hw' = Written(failed) /\ loose' = (loose \ Due) \cup {f[1] : f \in failed}
  BY DEF WriteCodec
<1>2. \A f \in failed : f[1] \in Ctls
  BY FailuresAre DEF Due
<1> QED
  BY <1>1, <1>2, WrittenTyped DEF MixerType

LEMMA AppliedTyped ==
  ASSUME MixerType, NEW settings \in Seq(Setting),
         ~path_setting_exists(settings, NoCtl)
  PROVE  /\ path_apply(new_value, settings) \in [Ctls -> Values]
         /\ \A c \in Ctls :
              LET v == path_apply(new_value, settings)[c] IN
              \/ ~path_setting_exists(settings, c) /\ v = new_value[c]
              \/ \E k \in DOMAIN settings :
                   settings[k] = [ctl |-> c, value |-> v]
<1>1. \A k \in DOMAIN settings : settings[k] \in Setting
  OBVIOUS
<1>2. \A c \in Ctls :
        LET v == path_apply(new_value, settings)[c] IN
        \/ ~path_setting_exists(settings, c) /\ v = new_value[c]
        \/ \E k \in DOMAIN settings :
             settings[k].ctl = c /\ settings[k].value = v
  <2> TAKE c \in Ctls
  <2> DEFINE at == {i \in DOMAIN settings : settings[i].ctl = c}
             k == CHOOSE i \in at : TRUE
  <2>1. path_apply(new_value, settings)[c] =
          IF at = {} THEN new_value[c] ELSE settings[k].value
    BY DEF path_apply
  <2>2. at # {} => k \in at
    OBVIOUS
  <2>3. at = {} => ~path_setting_exists(settings, c)
    BY DEF path_setting_exists
  <2> QED
    BY <2>1, <2>2, <2>3
<1>3. \A s \in Setting : s = [ctl |-> s.ctl, value |-> s.value] /\ s.value \in Values
  BY DEF Setting
<1>4. \A c \in Ctls : path_apply(new_value, settings)[c] \in Values
  BY <1>1, <1>2, <1>3 DEF MixerType
<1>5. path_apply(new_value, settings) \in [Ctls -> Values]
  BY <1>4 DEF path_apply
<1> QED
  BY <1>1, <1>2, <1>3, <1>5

LEMMA RestTyped ==
  ASSUME Typed, [Next]_vars, ~start_tag PROVE Typed'
<1> USE DEF Statuses
<1>1. status \in Statuses /\ ParserType /\ PathsType /\ MixerType
  BY TypedParts
<1>2. SUFFICES (status \in Statuses /\ ParserType /\ PathsType /\ MixerType)'
  BY TypedParts, PTL
<1>3. CASE EndTag
  <2>1. /\ level = Len(open) /\ Len(open) \in Nat /\ open # <<>>
        /\ open \in Seq(Kinds)
        /\ open' = SubSeq(open, 1, Len(open) - 1) /\ level' = level - 1
        /\ UNCHANGED <<status, tags, flawed>>
    BY <1>1, <1>3 DEF EndTag, ParserType
  <2>a. Len(open) > 0
    BY <2>1
  <2>2. open' \in Seq(Kinds) /\ Len(open') = Len(open) - 1
    BY <1>1, <2>1, <2>a DEF ParserType
  <2>3. ParserType'
    <3>1. /\ Len(open) <= MaxLevel /\ level \in 0..MaxLevel
          /\ tags \in 0..MaxTags /\ flawed \in BOOLEAN
      BY <1>1 DEF ParserType
    <3>2. level' = Len(open') /\ Len(open') <= MaxLevel /\ level' \in 0..MaxLevel
      BY <2>1, <2>a, <2>2, <3>1, BoundsAssumption DEF BoundsAssumption
    <3> QED
      BY <2>1, <2>2, <3>1, <3>2 DEF ParserType
  <2> QED
    BY <1>1, <1>3, <2>3
       DEF EndTag, arrays, shadow, codec, PathsType, PathExists, MixerType
<1>4. CASE FinishInit
  <2>1. PICK failed \in Failures :
          WriteCodec(failed) /\ unset' = {c \in Ctls : <<c, 0>> \in failed}
    BY <1>4 DEF FinishInit
  <2>2. old_value' = new_value /\ reset_value' = SavedFrom(hw') /\ status' = "ready"
    BY <1>4, <2>1 DEF FinishInit, WriteCodec
  <2>3. path' = NoPath /\ tags' = 0
    BY <1>4 DEF FinishInit
  <2>4. UNCHANGED <<level, open, flawed, arrays, new_value, initial, applied>>
    BY <1>4 DEF FinishInit
  <2>5. MixerType'
    BY <1>1, <2>1, <2>2, <2>4, CodecWritten DEF MixerType
  <2>6. ParserType'
    BY <1>1, <1>4, <2>2, <2>3, <2>4, BoundsAssumption
       DEF BoundsAssumption, ParserType, FinishInit
  <2>7. PathsType'
    BY <1>1, <2>3, <2>4 DEF arrays, PathsType, PathExists
  <2> QED
    BY <2>2, <2>5, <2>6, <2>7
<1>5. CASE FailInit
  <2>1. flawed' \in BOOLEAN
    BY <1>5, Zenon DEF FailInit
  <2> QED
    BY <1>1, <1>5, <2>1
     DEF FailInit, parser, arrays, shadow, codec, ParserType, PathsType, PathExists,
         MixerType
<1>6. CASE reset_mixer_state
  BY <1>1, <1>6, BoundsAssumption
     DEF BoundsAssumption, reset_mixer_state, parser, document, arrays, codec, ParserType,
         PathsType, PathExists, MixerType
<1>7. CASE update_mixer_state
  <2>1. PICK failed \in Failures : WriteCodec(failed)
    BY <1>7 DEF update_mixer_state
  <2>2. /\ old_value' = new_value
        /\ UNCHANGED <<status, parser, document, arrays, new_value, reset_value,
                       unset, initial, applied>>
    BY <1>7, <2>1 DEF update_mixer_state, WriteCodec
  <2>3. MixerType'
    BY <1>1, <2>1, <2>2, CodecWritten DEF MixerType
  <2> QED
    BY <1>1, <2>2, <2>3
       DEF parser, document, arrays, ParserType, PathsType, PathExists
<1>8. CASE audio_route_free
  BY <1>1, <1>8
     DEF audio_route_free, parser, document, arrays, shadow, codec, ParserType, PathsType,
         PathExists, MixerType
<1>9. ASSUME Crash, UNCHANGED document
      PROVE  (status \in Statuses /\ ParserType /\ PathsType /\ MixerType)'
  BY <1>1, <1>9
     DEF Crash, parser, document, arrays, shadow, codec, ParserType, PathsType,
         PathExists, MixerType
<1>10. ASSUME NEW n \in PathNames, audio_route_apply_path(n)
       PROVE  (status \in Statuses /\ ParserType /\ PathsType /\ MixerType)'
  <2>1. /\ paths[n] \in Seq(Setting) /\ ~path_setting_exists(paths[n], NoCtl)
        /\ new_value' = path_apply(new_value, paths[n])
        /\ applied' = Append(applied, n) /\ Len(applied) < MaxApplied
    BY <1>1, <1>10 DEF audio_route_apply_path, PathsType
  <2>2. UNCHANGED <<status, parser, document, arrays, old_value, reset_value, codec,
                    initial>>
    BY <1>10 DEF audio_route_apply_path
  <2>3. new_value' \in [Ctls -> Values]
    BY <1>1, <2>1, AppliedTyped
  <2>4. applied' \in Seq(PathNames) /\ Len(applied') <= MaxApplied
    BY <1>1, <2>1, BoundsAssumption DEF BoundsAssumption, MixerType
  <2> QED
    BY <1>1, <2>2, <2>3, <2>4
       DEF parser, document, arrays, codec, ParserType, PathsType, PathExists, MixerType
<1>11. CASE UNCHANGED vars
  BY <1>1, <1>11
     DEF vars, parser, document, arrays, shadow, codec, ParserType, PathsType, PathExists,
         MixerType
<1> QED
  BY <1>3, <1>4, <1>5, <1>6, <1>7, <1>8, <1>9, <1>10, <1>11
     DEF Next, UseWithoutRoute, ApplyNull

LEMMA TypedAlways == Spec => []Typed
<1>1. Typed /\ [Next]_vars => Typed'
  BY StartsTyped, RestTyped
<1> QED
  BY <1>1, TypesInit, PTL DEF Spec

(* The level the parser counts is the depth of the document, its path is   *)
(* one that was created, and values are ones the controls take.            *)
THEOREM Typing == Spec => []TypeOK
<1>1. Typed => TypeOK
  BY DEF Typed
<1> QED
  BY <1>1, TypedAlways, PTL

-----------------------------------------------------------------------------
(* What a start tag leaves alone, and how it changes the paths.            *)
LEMMA StartsKeep ==
  ASSUME start_tag
  PROVE  /\ status = "parsing" /\ UNCHANGED <<old_value, reset_value, codec, applied>>
         /\ initial = new_value => initial' = new_value'
         /\ status' \in {"parsing", "crashed"}
<1>1. ASSUME NEW kind, NEW proper, Open(kind, proper) PROVE status = "parsing"
  BY <1>1 DEF Open
<1>2. status = "parsing"
  BY DEF start_tag, StartOther, StartPath, StartPathNoMemory, StartPathShort,
         StartSubPath, StartSubPathNull, StartCtlCrashes, StartCtl,
         StartPathCtl, Open
<1>3. Crash => /\ UNCHANGED <<old_value, new_value, reset_value, initial, codec, applied>>
               /\ status' = "crashed"
  BY DEF Crash, shadow, codec
<1>4. ASSUME NEW sub, Add(sub) \/ AddNoMemory(sub) \/ AddToShort(sub)
      PROVE  /\ UNCHANGED <<old_value, new_value, reset_value, initial, codec, applied>>
             /\ status' \in {status, "crashed"}
  BY <1>3, <1>4 DEF Add, AddNoMemory, AddToShort, shadow, codec
<1>5. ASSUME NEW n \in PathNames,
             \/ StartPath(n) \/ StartPathNoMemory(n) \/ StartPathShort(n)
             \/ StartSubPath(n) \/ StartSubPathNull(n)
      PROVE  /\ UNCHANGED <<old_value, new_value, reset_value, initial, codec, applied>>
             /\ status' \in {status, "crashed"}
  <2>1. CASE StartPath(n)
    BY <2>1 DEF StartPath, shadow, codec
  <2>2. CASE StartPathNoMemory(n)
    BY <2>2 DEF StartPathNoMemory, shadow, codec
  <2>3. CASE StartPathShort(n)
    BY <2>3, <1>3 DEF StartPathShort
  <2>4. CASE StartSubPath(n)
    BY <2>4, <1>4 DEF StartSubPath
  <2>5. CASE StartSubPathNull(n)
    BY <2>5, <1>3 DEF StartSubPathNull, shadow, codec
  <2> QED
    BY <1>5, <2>1, <2>2, <2>3, <2>4, <2>5
<1>6. ASSUME NEW c \in Ctls \cup {NoCtl}, NEW v \in Values, StartCtl(c, v)
      PROVE  /\ UNCHANGED <<status, old_value, reset_value, codec, applied>>
             /\ initial = new_value => initial' = new_value'
  BY <1>6 DEF StartCtl
<1>7. ASSUME NEW c \in Ctls \cup {NoCtl}, NEW v \in Values, StartPathCtl(c, v)
      PROVE  /\ UNCHANGED <<old_value, new_value, reset_value, initial, codec, applied>>
             /\ status' \in {status, "crashed"}
  BY <1>4, <1>7 DEF StartPathCtl
<1>8. ASSUME NEW c \in Ctls \cup {NoCtl}, StartCtlCrashes(c)
      PROVE  Crash
  BY <1>8 DEF StartCtlCrashes
<1>9. CASE StartOther
  BY <1>2, <1>9 DEF StartOther, shadow, codec
<1> QED
  BY <1>2, <1>3, <1>5, <1>6, <1>7, <1>8, <1>9 DEF start_tag

(* A control outside loose has old_value in both channels; until the       *)
(* document ends nothing is written, and value 0 is what was read.         *)
CodecInv ==
  /\ OldIsCodec
  /\ status = "parsing" => \A c \in Ctls : hw[c][0] = old_value[c]

(* A write that succeeds in both channels, or none because nothing         *)
(* changed, leaves the new value in both.                                  *)
LEMMA WriteInStep ==
  ASSUME MixerType, OldIsCodec, NEW failed \in Failures, WriteCodec(failed),
         NEW c \in Ctls, c \notin loose', NEW i \in {0, 1}
  PROVE  hw'[c][i] = new_value[c]
<1>1. /\ hw' = Written(failed)
      /\ loose' = (loose \ Due) \cup {f[1] : f \in failed}
  BY DEF WriteCodec
<1>2. <<c, i>>[1] = c
  OBVIOUS
<1>3. <<c, i>> \notin failed
  BY <1>1, <1>2
<1>4. CASE c \in Due
  BY <1>1, <1>3, <1>4, WrittenTyped
<1>5. CASE c \notin Due
  <2>1. hw'[c][i] = hw[c][i]
    <3>1. Written(failed)[c][i] =
            IF c \in Due /\ <<c, i>> \notin failed THEN new_value[c] ELSE hw[c][i]
      BY WrittenTyped
    <3> QED
      BY <1>1, <1>5, <3>1
  <2>2. hw[c][i] = old_value[c]
    BY <1>1, <1>5 DEF OldIsCodec
  <2> QED
    BY <1>5, <2>1, <2>2 DEF Due
<1> QED
  BY <1>4, <1>5

LEMMA CodecAlways == Spec => []CodecInv
<1>1. Init => CodecInv
  <2> SUFFICES ASSUME Init, NEW c \in Ctls
               PROVE  /\ hw[c][0] = old_value[c]
                      /\ c \notin loose => \A i \in {0, 1} : hw[c][i] = old_value[c]
    BY DEF CodecInv, OldIsCodec
  <2> QED
    BY DEF Init
<1>2. Typed /\ CodecInv /\ [Next]_vars => CodecInv'
  <2> SUFFICES ASSUME Typed, CodecInv, [Next]_vars PROVE CodecInv'
    OBVIOUS
  <2>1. ASSUME UNCHANGED <<old_value, codec>>, status' = "parsing" => status = "parsing"
        PROVE  CodecInv'
    BY <2>1 DEF CodecInv, OldIsCodec, codec
  <2>2. ASSUME NEW failed \in Failures, WriteCodec(failed), status' = "ready"
        PROVE  CodecInv'
    <3>1. MixerType /\ OldIsCodec /\ old_value' = new_value
      BY <2>2, TypedParts DEF CodecInv, WriteCodec
    <3>2. \A c \in Ctls \ loose' : \A i \in {0, 1} : hw'[c][i] = old_value'[c]
      BY <2>2, <3>1, WriteInStep
    <3> QED
      BY <2>2, <3>2 DEF CodecInv, OldIsCodec
  <2>3. CASE start_tag
    BY <2>1, <2>3, StartsKeep
  <2>4. CASE EndTag \/ FailInit \/ reset_mixer_state \/ audio_route_free
             \/ UseWithoutRoute \/ UNCHANGED vars
    BY <2>1, <2>4
       DEF EndTag, FailInit, reset_mixer_state, audio_route_free, UseWithoutRoute,
           Crash, vars, shadow, codec
  <2>5. ASSUME NEW n \in PathNames, audio_route_apply_path(n) \/ ApplyNull(n)
        PROVE  CodecInv'
    BY <2>1, <2>5 DEF audio_route_apply_path, ApplyNull, Crash, shadow, codec
  <2>6. CASE FinishInit
    BY <2>2, <2>6 DEF FinishInit
  <2>7. CASE update_mixer_state
    BY <2>2, <2>7 DEF update_mixer_state
  <2> QED
    BY <2>3, <2>4, <2>5, <2>6, <2>7 DEF Next
<1> QED
  BY <1>1, <1>2, TypedAlways, PTL DEF Spec

(* What an update skips both channels have already, but for the controls   *)
(* whose channels differed from the start or whose last write failed.      *)
THEOREM CodecInStep == Spec => []OldIsCodec
<1>1. CodecInv => OldIsCodec
  BY DEF CodecInv
<1> QED
  BY <1>1, CodecAlways, PTL

(* No path sets a control twice: a setting is added only where its control *)
(* is new, and a nested path is copied no further than that.               *)
THEOREM DistinctPaths == Spec => []PathsHaveNoDuplicates
<1> DEFINE D == \A n \in PathNames : paths[n] = NoPath \/ Distinct(paths[n])
<1>1. PathsHaveNoDuplicates <=> D
  BY DEF PathsHaveNoDuplicates, Distinct
<1>2. Init => D
  BY DEF Init
<1>3. Typed /\ D /\ [Next]_vars => D'
  <2> SUFFICES ASSUME Typed, D, [Next]_vars PROVE D'
    OBVIOUS
  <2>1. CASE UNCHANGED paths
    BY <2>1
  <2>2. ASSUME NEW sub \in Seq(Setting), Distinct(sub), path # NoPath,
               NEW n \in 0..Len(sub), New(paths[path], sub, n),
               paths' = [paths EXCEPT ![path] = @ \o SubSeq(sub, 1, n)]
        PROVE  D'
    <3>1. /\ path \in PathNames /\ paths[path] \in Seq(Setting)
          /\ paths[path] # NoPath
          /\ paths \in [PathNames -> Seq(Setting) \cup {NoPath}]
      BY <2>2, TypedParts DEF PathsType, PathExists
    <3>2. Distinct(paths[path])
      BY <2>2, <3>1
    <3>3. Distinct(paths[path] \o SubSeq(sub, 1, n))
      <4> HIDE DEF D
      <4>1. Distinct(sub) /\ New(paths[path], sub, n)
        BY <2>2
      <4> QED
        BY <3>1, <3>2, <4>1, AppendedDistinct, Zenon
    <3> QED
      BY <2>2, <3>1, <3>3
  <2>3. ASSUME NEW sub \in Seq(Setting), Distinct(sub), path # NoPath,
               Add(sub) \/ AddNoMemory(sub) \/ AddToShort(sub)
        PROVE  D'
    <3>1. CASE Add(sub)
      BY <2>2, <2>3, <3>1 DEF Add
    <3>2. CASE AddNoMemory(sub)
      <4>1. PICK k \in 0..Len(sub) - 1 :
              /\ New(paths[path], sub, k + 1)
              /\ paths' = [paths EXCEPT ![path] = @ \o SubSeq(sub, 1, k)]
        BY <3>2 DEF AddNoMemory
      <4>2. k \in 0..Len(sub) /\ \A i \in 1..k : i \in 1..k + 1
        BY <4>1
      <4>3. New(paths[path], sub, k)
        BY <4>1, <4>2 DEF New
      <4> QED
        BY <2>2, <2>3, <4>1, <4>2, <4>3
    <3>3. CASE AddToShort(sub)
      BY <2>1, <3>3 DEF AddToShort, Crash, arrays
    <3> QED
      BY <2>3, <3>1, <3>2, <3>3
  <2>4. ASSUME NEW n \in PathNames, StartPath(n) PROVE D'
    <3>1. Distinct(<<>>) /\ paths \in [PathNames -> Seq(Setting) \cup {NoPath}]
      BY TypedParts DEF Distinct, PathsType
    <3>2. \/ UNCHANGED paths
          \/ paths' = [paths EXCEPT ![n] = <<>>]
      BY <2>4 DEF StartPath, arrays
    <3> QED
      BY <3>1, <3>2
  <2>5. ASSUME NEW n \in PathNames, StartSubPath(n) PROVE D'
    <3>1. paths[n] \in Seq(Setting) /\ Distinct(paths[n]) /\ path # NoPath
      BY <2>5, TypedParts DEF StartSubPath, PathsType
    <3> QED
      BY <2>3, <2>5, <3>1 DEF StartSubPath
  <2>6. ASSUME NEW n \in PathNames,
               StartPathNoMemory(n) \/ StartPathShort(n) \/ StartSubPathNull(n)
        PROVE  D'
    BY <2>1, <2>6
       DEF StartPathNoMemory, StartPathShort, StartSubPathNull, Crash, arrays
  <2>7. ASSUME NEW c \in Ctls \cup {NoCtl}, NEW v \in Values, StartPathCtl(c, v)
        PROVE  D'
    <3>1. /\ <<[ctl |-> c, value |-> v]>> \in Seq(Setting) /\ path # NoPath
          /\ Distinct(<<[ctl |-> c, value |-> v]>>)
      BY <2>7 DEF StartPathCtl, Setting, Distinct
    <3> QED
      BY <2>3, <2>7, <3>1 DEF StartPathCtl
  <2>8. ASSUME NEW c \in Ctls \cup {NoCtl},
               \/ StartCtlCrashes(c)
               \/ \E v \in Values : StartCtl(c, v)
        PROVE  D'
    BY <2>1, <2>8 DEF StartCtlCrashes, StartCtl, Crash, arrays
  <2>9. CASE StartOther \/ EndTag \/ FinishInit \/ FailInit \/ UNCHANGED vars
    BY <2>1, <2>9 DEF StartOther, EndTag, FinishInit, FailInit, vars, arrays
  <2>10. CASE \/ reset_mixer_state \/ update_mixer_state \/ audio_route_free
              \/ UseWithoutRoute
              \/ \E n \in PathNames : audio_route_apply_path(n) \/ ApplyNull(n)
    BY <2>1, <2>10
       DEF reset_mixer_state, update_mixer_state, audio_route_free, UseWithoutRoute,
           audio_route_apply_path, ApplyNull, Crash, arrays
  <2> QED
    BY <2>4, <2>5, <2>6, <2>7, <2>8, <2>9, <2>10 DEF Next, start_tag
<1> QED
  BY <1>1, <1>2, <1>3, TypedAlways, PTL DEF Spec

-----------------------------------------------------------------------------
(* The shadow.  Until the document ends the shadow is its top level; then  *)
(* the codec takes it, and so what is read back to be reset to.            *)
RouteInv ==
  /\ status = "parsing" => applied = <<>> /\ new_value = initial
  /\ status = "ready" => \A c \in Ctls \ unset : reset_value[c] = initial[c]
  /\ ShadowIsRoute

LEMMA FinishKeepsRoute ==
  ASSUME Typed, CodecInv, RouteInv, FinishInit PROVE RouteInv'
<1>1. MixerType /\ status = "parsing" /\ applied = <<>> /\ new_value = initial
  BY TypedParts DEF FinishInit, RouteInv
<1>2. PICK failed \in Failures :
        WriteCodec(failed) /\ unset' = {c \in Ctls : <<c, 0>> \in failed}
  BY DEF FinishInit
<1>3. /\ status' = "ready" /\ hw' = Written(failed) /\ reset_value' = SavedFrom(hw')
      /\ UNCHANGED <<new_value, initial, applied, paths>>
  BY <1>2 DEF FinishInit, WriteCodec, arrays
<1>4. ASSUME NEW c \in Ctls \ unset' PROVE reset_value'[c] = initial'[c]
  <2>1. <<c, 0>> \notin failed
    BY <1>2, <1>4
  <2>2. hw'[c][0] = IF c \in Due THEN new_value[c] ELSE hw[c][0]
    BY <1>1, <1>3, <2>1, WrittenTyped
  <2>3. c \notin Due => hw[c][0] = new_value[c]
    BY <1>1 DEF Due, CodecInv
  <2> QED
    BY <1>1, <1>3, <2>2, <2>3 DEF SavedFrom
<1>5. ShadowIsRoute'
  <2> SUFFICES ASSUME NEW c \in Ctls PROVE RouteValue(c, new_value[c])'
    BY DEF ShadowIsRoute
  <2>1. new_value'[c] = initial'[c] /\ DOMAIN applied' = {}
    BY <1>1, <1>3
  <2> QED
    BY <2>1 DEF RouteValue
<1> QED
  BY <1>3, <1>4, <1>5 DEF RouteInv

LEMMA ResetKeepsRoute ==
  ASSUME Typed, RouteInv, reset_mixer_state PROVE RouteInv'
<1>1. /\ status = "ready" /\ new_value' = reset_value /\ applied' = <<>>
      /\ UNCHANGED <<status, initial, reset_value, unset>>
  BY DEF reset_mixer_state, codec
<1>2. \A c \in Ctls \ unset : reset_value[c] = initial[c]
  BY <1>1 DEF RouteInv
<1>3. ShadowIsRoute'
  <2> SUFFICES ASSUME NEW c \in Ctls \ unset
               PROVE  RouteValue(c, new_value[c])'
    BY <1>1 DEF ShadowIsRoute
  <2>1. new_value'[c] = initial'[c] /\ DOMAIN applied' = {}
    BY <1>1, <1>2
  <2> QED
    BY <2>1 DEF RouteValue
<1> QED
  BY <1>1, <1>2, <1>3 DEF RouteInv

LEMMA ApplyKeepsRoute ==
  ASSUME Typed, RouteInv, NEW n \in PathNames, audio_route_apply_path(n)
  PROVE  RouteInv'
<1>1. /\ status = "ready" /\ applied' = Append(applied, n)
      /\ UNCHANGED <<status, initial, reset_value, paths, unset>>
      /\ new_value' = path_apply(new_value, paths[n])
      /\ ~path_setting_exists(paths[n], NoCtl) /\ paths[n] # NoPath
  BY DEF audio_route_apply_path, arrays, codec
<1>2. /\ MixerType /\ paths[n] \in Seq(Setting)
      /\ applied \in Seq(PathNames) /\ Len(applied) \in Nat
  BY <1>1, TypedParts DEF PathsType, MixerType
<1>l. PICK l \in Nat : l = Len(applied) + 1
  BY <1>2
<1>3. /\ DOMAIN applied' = 1..l /\ l \in 1..l /\ DOMAIN applied = 1..Len(applied)
      /\ applied'[l] = n
      /\ \A i \in DOMAIN applied : applied'[i] = applied[i] /\ i <= l /\ i \in 1..l
      /\ \A i \in 1..l : i = l \/ i \in DOMAIN applied
      /\ \A i \in 1..l : i <= l
  BY <1>1, <1>2, <1>l
<1>4. ShadowIsRoute'
  <2> SUFFICES ASSUME NEW c \in Ctls \ unset
               PROVE  RouteValue(c, new_value[c])'
    BY <1>1 DEF ShadowIsRoute
  <2>1. \/ ~path_setting_exists(paths[n], c) /\ new_value'[c] = new_value[c]
        \/ \E k \in DOMAIN paths[n] :
             paths[n][k] = [ctl |-> c, value |-> new_value'[c]]
    BY <1>1, <1>2, AppliedTyped
  <2>2. CASE \E k \in DOMAIN paths[n] :
               paths[n][k] = [ctl |-> c, value |-> new_value'[c]]
    <3>1. /\ l \in DOMAIN applied' /\ \A j \in DOMAIN applied' : j <= l
          /\ applied'[l] = n /\ paths' = paths
      BY <1>1, <1>3
    <3> QED
      BY <2>2, <3>1 DEF RouteValue
  <2>3. CASE ~path_setting_exists(paths[n], c) /\ new_value'[c] = new_value[c]
    <3>1. RouteValue(c, new_value[c])
      BY <1>1 DEF RouteInv, ShadowIsRoute
    <3>2. /\ \A i \in DOMAIN applied : Sets(i, c)' <=> Sets(i, c)
          /\ ~Sets(l, c)'
      BY <1>1, <1>3, <2>3 DEF Sets
    <3>3. CASE /\ new_value[c] = initial[c]
               /\ \A i \in DOMAIN applied : ~Sets(i, c)
      <4>1. \A i \in DOMAIN applied' : ~Sets(i, c)'
        BY <1>3, <3>2, <3>3
      <4> QED
        BY <1>1, <2>3, <3>3, <4>1 DEF RouteValue
    <3>4. CASE \E i \in DOMAIN applied :
                 /\ \A j \in DOMAIN applied : Sets(j, c) => j <= i
                 /\ \E k \in DOMAIN paths[applied[i]] :
                      paths[applied[i]][k] = [ctl |-> c, value |-> new_value[c]]
      <4>1. PICK i \in DOMAIN applied :
                 /\ \A j \in DOMAIN applied : Sets(j, c) => j <= i
                 /\ \E k \in DOMAIN paths[applied[i]] :
                      paths[applied[i]][k] = [ctl |-> c, value |-> new_value[c]]
        BY <3>4
      <4>2. i \in DOMAIN applied' /\ applied'[i] = applied[i] /\ paths' = paths
        BY <1>1, <1>3
      <4>3. \A j \in DOMAIN applied' : Sets(j, c)' => j <= i
        BY <1>3, <3>2, <4>1
      <4>4. \E k \in DOMAIN paths'[applied'[i]] :
              paths'[applied'[i]][k] = [ctl |-> c, value |-> new_value'[c]]
        BY <2>3, <4>1, <4>2
      <4> QED
        BY <4>2, <4>3, <4>4 DEF RouteValue
    <3> QED
      BY <3>1, <3>3, <3>4 DEF RouteValue
  <2> QED
    BY <2>1, <2>2, <2>3
<1> QED
  BY <1>1, <1>4 DEF RouteInv

(* What a route composes in the shadow is the initial settings of the      *)
(* document with the paths applied since the reset over them.              *)
THEOREM ShadowFollowsPaths == Spec => []ShadowIsRoute
<1>1. Init => RouteInv
  BY DEF Init, RouteInv, ShadowIsRoute
<1>2. Typed /\ CodecInv /\ RouteInv /\ [Next]_vars => RouteInv'
  <2> SUFFICES ASSUME Typed, CodecInv, RouteInv, [Next]_vars PROVE RouteInv'
    OBVIOUS
  <2>1. CASE status' \notin {"parsing", "ready"}
    BY <2>1 DEF RouteInv, ShadowIsRoute
  <2>2. CASE start_tag
    <3>1. /\ status = "parsing" /\ applied' = applied
          /\ initial = new_value => initial' = new_value'
          /\ status' \in {"parsing", "crashed"}
      BY <2>2, StartsKeep
    <3> QED
      BY <3>1 DEF RouteInv, ShadowIsRoute
  <2>3. CASE UNCHANGED <<status, new_value, reset_value, initial, applied, paths, unset>>
    <3>1. ShadowIsRoute'
      BY <2>3 DEF RouteInv, ShadowIsRoute, RouteValue, Sets
    <3> QED
      BY <2>3, <3>1 DEF RouteInv
  <2>4. CASE EndTag \/ update_mixer_state \/ UNCHANGED vars
    BY <2>3, <2>4 DEF EndTag, update_mixer_state, WriteCodec, vars, shadow, codec, arrays
  <2>5. CASE FailInit \/ audio_route_free \/ UseWithoutRoute
             \/ \E n \in PathNames : ApplyNull(n)
    BY <2>1, <2>5 DEF FailInit, audio_route_free, UseWithoutRoute, ApplyNull, Crash
  <2> QED
    BY <2>2, <2>4, <2>5, FinishKeepsRoute, ResetKeepsRoute, ApplyKeepsRoute DEF Next
<1>3. RouteInv => ShadowIsRoute
  BY DEF RouteInv
<1> QED
  BY <1>1, <1>2, <1>3, TypedAlways, CodecAlways, PTL DEF Spec

(* An update leaves the route in both channels of the codec: the shadow is *)
(* the route, and what is skipped as unchanged is there already.  Excepted *)
(* are the controls whose channels differed from the start or whose last   *)
(* write failed.                                                           *)
THEOREM UpdateWritesRoute == Spec => CodecCarriesRoute
<1> DEFINE Carries ==
      \A c \in Ctls \ loose' :
        /\ \A i \in {0, 1} : hw'[c][i] = new_value[c]
        /\ c \notin unset => RouteValue(c, new_value[c])
<1>1. Typed /\ OldIsCodec /\ ShadowIsRoute /\ update_mixer_state => Carries
  <2> SUFFICES ASSUME Typed, OldIsCodec, ShadowIsRoute, update_mixer_state,
                      NEW c \in Ctls \ loose'
               PROVE  /\ \A i \in {0, 1} : hw'[c][i] = new_value[c]
                      /\ c \notin unset => RouteValue(c, new_value[c])
    OBVIOUS
  <2>1. status = "ready" /\ \E failed \in Failures : WriteCodec(failed)
    BY DEF update_mixer_state
  <2>2. MixerType
    BY TypedParts
  <2>3. \A i \in {0, 1} : hw'[c][i] = new_value[c]
    BY <2>1, <2>2, WriteInStep
  <2>4. c \notin unset => RouteValue(c, new_value[c])
    BY <2>1 DEF ShadowIsRoute
  <2> QED
    BY <2>3, <2>4
<1> QED
  BY <1>1, TypedAlways, CodecInStep, ShadowFollowsPaths, PTL
     DEF CodecCarriesRoute

-----------------------------------------------------------------------------
(* The document.  In a sound one, with no call that failed, the parser has *)
(* a path whenever it is in a path element, each array has its size and    *)
(* each setting its control.                                               *)
Known(settings) == ~path_setting_exists(settings, NoCtl)

Sound ==
  /\ short = {}
  /\ path = NoPath => \A i \in DOMAIN open : open[i] # "path"
  /\ \A n \in PathNames : paths[n] = NoPath \/ Known(paths[n])
  /\ status \notin {"null", "crashed"}

DocumentInv == flawed \/ Sound

LEMMA ProperOpen ==
  ASSUME Typed, NEW kind \in Kinds, NEW proper, Open(kind, proper), ~flawed'
  PROVE  /\ ~flawed /\ proper
         /\ \A i \in DOMAIN open' : \/ i \in DOMAIN open /\ open'[i] = open[i]
                                    \/ open'[i] = kind
<1>1. ~flawed /\ proper
  BY Zenon DEF Open
<1>2. open' = Append(open, kind) /\ open \in Seq(Kinds)
  BY DEF Open, Typed, TypeOK, Kinds
<1>3. \A i \in DOMAIN open' : \/ i \in DOMAIN open /\ open'[i] = open[i]
                              \/ open'[i] = kind
  BY <1>2
<1> QED
  BY <1>1, <1>3

(* Adding settings with controls to the path of the parser.                *)
LEMMA AddSound ==
  ASSUME Typed, Sound, NEW sub \in Seq(Setting), Known(sub), path # NoPath,
         NEW kind \in Kinds, NEW proper, Open(kind, proper), ~flawed', Add(sub)
  PROVE  Sound'
<1>1. PICK n \in 0..Len(sub) :
        paths' = [paths EXCEPT ![path] = @ \o SubSeq(sub, 1, n)]
  BY DEF Add
<1>2. /\ path \in PathNames /\ paths[path] \in Seq(Setting) /\ paths[path] # NoPath
      /\ paths \in [PathNames -> Seq(Setting) \cup {NoPath}]
  BY TypedParts DEF PathsType, PathExists
<1>3. Known(paths[path])
  BY <1>2 DEF Sound
<1>4. Known(paths[path] \o SubSeq(sub, 1, n))
  <2> DEFINE t == paths[path] \o SubSeq(sub, 1, n)
  <2>1. /\ DOMAIN t = 1..Len(paths[path]) + n
        /\ \A i \in 1..Len(paths[path]) : t[i] = paths[path][i]
                                          /\ i \in DOMAIN paths[path]
        /\ \A i \in 1..n : t[Len(paths[path]) + i] = sub[i] /\ i \in DOMAIN sub
    BY <1>2, AppendedTyped
  <2>2. \A i \in DOMAIN t :
          i \in 1..Len(paths[path]) \/ \E k \in 1..n : i = Len(paths[path]) + k
    <3> TAKE i \in DOMAIN t
    <3>1. i \notin 1..Len(paths[path]) =>
            /\ i - Len(paths[path]) \in 1..n
            /\ i = Len(paths[path]) + (i - Len(paths[path]))
      BY <1>2, <2>1
    <3> QED
      BY <3>1
  <2>3. \A i \in DOMAIN t : t[i].ctl # NoCtl
    BY <1>3, <2>1, <2>2 DEF Known, path_setting_exists
  <2> QED
    BY <2>3 DEF Known, path_setting_exists
<1>5. UNCHANGED <<status, path, short>> /\ status = "parsing"
  BY DEF Add, Open
<1>6. \A n2 \in PathNames : paths'[n2] = NoPath \/ Known(paths'[n2])
  BY <1>1, <1>2, <1>4 DEF Sound
<1> QED
  BY <1>5, <1>6 DEF Sound, Known

(* A crash in a sound document would go through its path or its arrays.    *)
LEMMA StartsSound ==
  ASSUME Typed, Sound, start_tag, ~flawed' PROVE Sound'
<1> USE DEF Kinds
<1>1. status = "parsing" /\ level = Len(open) /\ open \in Seq(Kinds)
  BY StartsKeep DEF Typed, TypeOK
<1>2. open # <<>> => Len(open) \in DOMAIN open
  BY <1>1
<1>3. level # 1 /\ Inside("path") => path # NoPath
  BY <1>1, <1>2 DEF Sound, Inside
<1>4. CASE StartOther
  <2>1. Open("other", TRUE) /\ UNCHANGED <<status, path, paths, short>>
    BY <1>4 DEF StartOther, arrays
  <2> QED
    BY <2>1, ProperOpen DEF Sound
<1>5. ASSUME NEW n \in PathNames, StartPath(n) PROVE Sound'
  <2>1. Open("path", ProperPath(n)) /\ level = 1
    BY <1>5 DEF StartPath
  <2>2. paths[n] = NoPath
    BY <1>1, <2>1, ProperOpen DEF ProperPath
  <2>3. /\ path' = n /\ paths' = [paths EXCEPT ![n] = <<>>]
        /\ UNCHANGED <<status, short>>
    BY <1>5, <2>2 DEF StartPath
  <2>4. n # NoPath /\ Known(<<>>)
    BY NoPathAssumption DEF NoPathAssumption, Known, path_setting_exists
  <2>5. paths \in [PathNames -> Seq(Setting) \cup {NoPath}]
    BY TypedParts DEF PathsType
  <2>6. \A m \in PathNames : paths'[m] = NoPath \/ Known(paths'[m])
    BY <2>3, <2>4, <2>5 DEF Sound
  <2> QED
    BY <1>1, <2>3, <2>4, <2>6 DEF Sound, Known
<1>6. ASSUME NEW n \in PathNames, StartPathNoMemory(n) \/ StartPathShort(n)
      PROVE  Sound'
  <2>1. CASE StartPathNoMemory(n)
    BY <2>1, ProperOpen, Zenon DEF StartPathNoMemory
  <2>2. CASE StartPathShort(n)
    BY <2>2 DEF StartPathShort, Sound
  <2> QED
    BY <1>6, <2>1, <2>2
<1>7. ASSUME NEW n \in PathNames, StartSubPath(n) PROVE Sound'
  <2>1. path # NoPath /\ paths[n] # NoPath /\ paths[n] \in Seq(Setting)
    BY <1>7, TypedParts DEF StartSubPath, PathsType
  <2>2. Known(paths[n])
    BY <2>1 DEF Sound
  <2>3. CASE Open("path", FALSE)
    BY <2>3, ProperOpen, Zenon
  <2>4. CASE AddToShort(paths[n])
    BY <2>4 DEF AddToShort, Sound
  <2>5. CASE Open("path", ProperPath(n)) /\ Add(paths[n])
    BY <2>1, <2>2, <2>5, AddSound
  <2> QED
    BY <1>7, <2>3, <2>4, <2>5, Zenon DEF StartSubPath
<1>8. ASSUME NEW n \in PathNames, StartSubPathNull(n) PROVE Sound'
  <2>1. Open("path", ProperPath(n)) /\ level # 1
    BY <1>8 DEF StartSubPathNull
  <2>2. Inside("path") /\ paths[n] # NoPath
    BY <1>1, <2>1, ProperOpen DEF ProperPath
  <2>3. path # NoPath
    BY <1>3, <2>1, <2>2
  <2> QED
    BY <1>8, <2>2, <2>3 DEF StartSubPathNull
<1>9. ASSUME NEW c \in Ctls \cup {NoCtl}, StartCtlCrashes(c) PROVE Sound'
  <2>1. CASE Open("ctl", FALSE)
    BY <2>1, ProperOpen, Zenon
  <2>2. CASE Open("ctl", ProperCtl(c))
    <3>1. c # NoCtl /\ (Len(open) = 1 \/ Inside("path"))
      BY <2>2, ProperOpen DEF ProperCtl
    <3>2. ~(level # 1 /\ path = NoPath) /\ ~(level = 1 /\ c = NoCtl)
      BY <1>1, <1>3, <3>1
    <3> QED
      BY <1>9, <2>1, <3>2 DEF StartCtlCrashes
  <2> QED
    BY <1>9, <2>1, <2>2 DEF StartCtlCrashes
<1>10. ASSUME NEW c \in Ctls \cup {NoCtl}, NEW v \in Values, StartCtl(c, v)
       PROVE  Sound'
  <2>1. Open("ctl", ProperCtl(c)) /\ UNCHANGED <<status, path, paths, short>>
    BY <1>10 DEF StartCtl, arrays
  <2> QED
    BY <2>1, ProperOpen DEF Sound
<1>11. ASSUME NEW c \in Ctls \cup {NoCtl}, NEW v \in Values, StartPathCtl(c, v)
       PROVE  Sound'
  <2> DEFINE setting == <<[ctl |-> c, value |-> v]>>
  <2>1. setting \in Seq(Setting) /\ path # NoPath
    BY <1>11 DEF StartPathCtl, Setting
  <2>2. CASE Open("ctl", FALSE)
    BY <2>2, ProperOpen, Zenon
  <2>3. CASE AddToShort(setting)
    BY <2>3 DEF AddToShort, Sound
  <2>4. CASE Open("ctl", ProperCtl(c)) /\ Add(setting)
    <3>1. c # NoCtl
      BY <2>4, ProperOpen DEF ProperCtl
    <3>2. Known(setting)
      BY <3>1 DEF Known, path_setting_exists
    <3> HIDE DEF setting
    <3> QED
      BY <2>1, <2>4, <3>2, AddSound
  <2> QED
    BY <1>11, <2>2, <2>3, <2>4, Zenon DEF StartPathCtl
<1> QED
  BY <1>4, <1>5, <1>6, <1>7, <1>8, <1>9, <1>10, <1>11 DEF start_tag

(* With a well-formed document, memory and a route the parser and the      *)
(* calls after it go through no NULL and past no array.                    *)
THEOREM CrashesHaveCauses == Spec => []CrashHasCause
<1>1. Init => DocumentInv
  BY DEF Init, DocumentInv, Sound
<1>2. Typed /\ DocumentInv /\ [Next]_vars => DocumentInv'
  <2> SUFFICES ASSUME Typed, DocumentInv, [Next]_vars, ~flawed' PROVE Sound'
    BY DEF DocumentInv
  <2>1. CASE start_tag
    <3>1. ~flawed
      BY <2>1 DEF start_tag, StartOther, StartPath, StartPathNoMemory,
         StartPathShort, StartSubPath, StartSubPathNull, StartCtlCrashes,
         StartCtl, StartPathCtl, Open
    <3> QED
      BY <2>1, <3>1, StartsSound DEF DocumentInv
  <2>2. CASE EndTag
    <3>1. /\ ~flawed /\ open \in Seq(Kinds) /\ open # <<>>
          /\ open' = SubSeq(open, 1, Len(open) - 1)
          /\ UNCHANGED <<status, path, paths, short>>
      BY <2>2 DEF EndTag, arrays, Typed, TypeOK, Kinds
    <3>2. \A i \in DOMAIN open' : i \in DOMAIN open /\ open'[i] = open[i]
      BY <3>1
    <3> QED
      BY <3>1, <3>2 DEF DocumentInv, Sound
  <2>3. CASE FinishInit \/ audio_route_free
    <3>1. CASE audio_route_free
      BY <3>1 DEF audio_route_free, document, arrays, parser, DocumentInv, Sound
    <3>2. CASE FinishInit
      <4>1. /\ status' = "ready" /\ open = <<>>
            /\ UNCHANGED <<open, flawed, paths, short>>
        BY <3>2 DEF FinishInit, arrays
      <4> QED
        BY <4>1 DEF DocumentInv, Sound, Known
    <3> QED
      BY <2>3, <3>1, <3>2
  <2>4. CASE reset_mixer_state \/ update_mixer_state \/ UNCHANGED vars
    BY <2>4 DEF reset_mixer_state, update_mixer_state, vars, document, arrays,
       parser, DocumentInv, Sound
  <2>5. CASE FailInit \/ UseWithoutRoute
    BY <2>5 DEF FailInit, UseWithoutRoute, document, DocumentInv, Sound
  <2>6. ASSUME NEW n \in PathNames, audio_route_apply_path(n) PROVE Sound'
    BY <2>6 DEF audio_route_apply_path, document, arrays, parser, DocumentInv,
       Sound
  <2>7. ASSUME NEW n \in PathNames, ApplyNull(n) PROVE Sound'
    BY <2>7 DEF ApplyNull, document, DocumentInv, Sound, Known
  <2> QED
    BY <2>1, <2>2, <2>3, <2>4, <2>5, <2>6, <2>7 DEF Next
<1>3. DocumentInv => CrashHasCause
  BY DEF DocumentInv, Sound, CrashHasCause
<1> QED
  BY <1>1, <1>2, <1>3, TypedAlways, PTL DEF Spec
=============================================================================
