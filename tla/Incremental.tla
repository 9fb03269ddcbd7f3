----------------------------- MODULE Incremental -----------------------------
(***************************************************************************)
(* The file plan of an incremental OTA package: WriteIncrementalOTAPackage *)
(* (src/releasetools/tf101_ota_from_target_files) selects the files to     *)
(* send, ComputeDifferences (src/releasetools/common.py) computes the      *)
(* patches in a pool of threads, and the plan is divided into files sent   *)
(* verbatim and files sent as a patch.                                     *)
(*                                                                         *)
(* The threads share one iterator and one lock.  A step of a thread ends   *)
(* where another may act: at each acquisition of the lock and around the   *)
(* computation, which runs without it.  An exception ends its thread and   *)
(* releases nothing.                                                       *)
(***************************************************************************)
EXTENDS Naturals

CONSTANTS
  Files,              \* names of the system files of the target build
  Contents,           \* contents of a file; equal contents, equal sha1
  Size,               \* their sizes
  NoFile,             \* what the source build has for a new name
  Workers,            \* the OPTIONS.worker_threads threads
  PatchSizes,         \* lengths of a patch
  None,               \* Python's None: no patch; a free lock; no file
  require_verbatim, prohibit_verbatim,      \* OPTIONS
  Percent             \* OPTIONS.patch_threshold, in percent

ASSUME ContentsAssumption == Size \in [Contents -> Nat] /\ NoFile \notin Contents
ASSUME PatchAssumption == PatchSizes \subseteq Nat /\ Percent \in Nat
ASSUME NoneAssumption == None \notin Files \cup Workers \cup PatchSizes

VARIABLES
  target, source,     \* target_data, source_data
  main,               \* position of the main thread
  diffs,              \* the Difference objects, by the name of their file
  verbatim, patched,  \* verbatim_targets, patch_list
  left,               \* what diff_iter has not handed out
  lock,               \* the thread that holds lock
  pc, file,           \* per thread: its position, the file of its d
  patch               \* Difference.patch: its length

plan == <<diffs, verbatim, patched>>
builds == <<target, source>>
threads == <<pc, file>>
vars == <<builds, main, plan, left, lock, threads, patch>>

Init ==
  /\ target \in [Files -> Contents]
  /\ source \in [Files -> Contents \cup {NoFile}]
  /\ main = "select"
  /\ diffs = {} /\ verbatim = {} /\ patched = {} /\ left = {}
  /\ lock = None
  /\ pc = [w \in Workers |-> "unborn"]
  /\ file = [w \in Workers |-> None]
  /\ patch = [f \in Files |-> None]

-----------------------------------------------------------------------------
(* The main thread.                                                        *)

(* Files the source lacks, or that must not be patched, go verbatim.       *)
Whole == {f \in Files : source[f] = NoFile \/ f \in require_verbatim}

Changed == {f \in Files \ Whole : target[f] # source[f]}

(* A file that must be sent whole and must not be: ExternalError.          *)
Refuse ==
  /\ main = "select" /\ Whole \cap prohibit_verbatim # {}
  /\ main' = "error"
  /\ UNCHANGED <<builds, plan, left, lock, threads, patch>>

(* The loop over the target's files, then ComputeDifferences up to the     *)
(* start of its threads.                                                   *)
Select ==
  /\ main = "select" /\ Whole \cap prohibit_verbatim = {}
  /\ verbatim' = Whole
  /\ diffs' = Changed
  /\ left' = diffs'
  /\ pc' = [w \in Workers |-> "start"]
  /\ main' = "join"
  /\ UNCHANGED <<builds, patched, lock, file, patch>>

MutantJoined == \E w \in Workers : pc[w] \in {"ended", "died"}
Joined == \A w \in Workers : pc[w] \in {"ended", "died"}

Join ==
  /\ main = "join" /\ Joined
  /\ main' = "divide"
  /\ UNCHANGED <<builds, plan, left, lock, threads, patch>>

(* A patch is used when there is one and it is small enough.               *)
MutantWorthIt(f) == patch[f] = None \/ 100 * patch[f] <= Percent * Size[target[f]]

WorthIt(f) == patch[f] # None /\ 100 * patch[f] <= Percent * Size[target[f]]

Divide ==
  /\ main = "divide"
  /\ verbatim' = verbatim \cup {f \in diffs : ~WorthIt(f)}
  /\ patched' = {f \in diffs : WorthIt(f)}
  /\ main' = "done"
  /\ UNCHANGED <<builds, diffs, left, lock, threads, patch>>

-----------------------------------------------------------------------------
(* A thread of the pool.                                                   *)

At(w, p) == pc[w] = p
Goto(w, p) == pc' = [pc EXCEPT ![w] = p]

(* lock.acquire() before the loop, and after a computation.                *)
Acquire(w) ==
  /\ lock = None /\ lock' = w
  /\ \/ At(w, "start") /\ Goto(w, "next")
     \/ At(w, "computed") /\ Goto(w, "report")
  /\ UNCHANGED <<builds, main, plan, left, file, patch>>

(* by_size: what is handed out next is a largest file of those left.       *)
Largest(f) == \A g \in left : Size[target[g]] <= Size[target[f]]

MutantTake(w) ==                     \* each worker iterates for itself
  /\ At(w, "next")
  /\ \E f \in left : Largest(f) /\ file' = [file EXCEPT ![w] = f]
  /\ lock' = None
  /\ Goto(w, "compute")
  /\ UNCHANGED <<builds, main, plan, left, patch>>

(* for d in diff_iter, with the lock held; then it is released.            *)
Take(w) ==
  /\ At(w, "next")
  /\ \E f \in left :
       /\ Largest(f)
       /\ file' = [file EXCEPT ![w] = f]
       /\ left' = left \ {f}
  /\ lock' = None
  /\ Goto(w, "compute")
  /\ UNCHANGED <<builds, main, plan, patch>>

Exhaust(w) ==
  /\ At(w, "next") /\ left = {}
  /\ lock' = None
  /\ Goto(w, "ended")
  /\ UNCHANGED <<builds, main, plan, left, file, patch>>

(* ComputePatch: a patch; no patch, when the diff program fails; or an     *)
(* exception, when it or its temporary files cannot be made.               *)
ComputePatch(w) ==
  /\ At(w, "compute")
  /\ \/ /\ \E n \in PatchSizes : patch' = [patch EXCEPT ![file[w]] = n]
        /\ Goto(w, "computed")
     \/ Goto(w, "computed") /\ UNCHANGED patch
     \/ Goto(w, "died") /\ UNCHANGED patch
  /\ UNCHANGED <<builds, main, plan, left, lock, file>>

MutantReport(w) ==                   \* returns after one file
  /\ At(w, "report")
  /\ lock' = None
  /\ Goto(w, "ended")
  /\ UNCHANGED <<builds, main, plan, left, file, patch>>

MutantReportHolds(w) ==              \* len(None): no test for None
  /\ At(w, "report")
  /\ Goto(w, IF patch[file[w]] = None THEN "died" ELSE "next")
  /\ UNCHANGED <<builds, main, plan, left, lock, file, patch>>

(* The percentage divides by the size of the target file: over a patch of  *)
(* an empty one the thread dies with the lock held.                        *)
Report(w) ==
  /\ At(w, "report")
  /\ Goto(w, IF patch[file[w]] # None /\ Size[target[file[w]]] = 0
             THEN "died" ELSE "next")
  /\ UNCHANGED <<builds, main, plan, left, lock, file, patch>>

worker(w) ==
  Acquire(w) \/ Take(w) \/ Exhaust(w) \/ ComputePatch(w) \/ Report(w)

-----------------------------------------------------------------------------

MainStep == Select \/ Refuse \/ Join \/ Divide

Next == MainStep \/ \E w \in Workers : worker(w)

Spec == Init /\ [][Next]_vars

(* Threads run and a diff program ends.                                    *)
FairSpec == Spec /\ WF_vars(MainStep) /\ \A w \in Workers : WF_vars(worker(w))

-----------------------------------------------------------------------------
(* Properties.                                                             *)

TypeOK ==
  /\ target \in [Files -> Contents]
  /\ source \in [Files -> Contents \cup {NoFile}]
  /\ main \in {"select", "error", "join", "divide", "done"}
  /\ diffs \subseteq Files /\ verbatim \subseteq Files /\ patched \subseteq Files
  /\ left \subseteq diffs
  /\ lock \in Workers \cup {None}
  /\ pc \in [Workers -> {"unborn", "start", "next", "compute", "computed",
                         "report", "ended", "died"}]
  /\ file \in [Workers -> diffs \cup {None}]
  /\ patch \in [Files -> PatchSizes \cup {None}]

(* A thread that iterates or prints holds the lock; one that died in its   *)
(* report holds it for ever.                                               *)
LockInv ==
  /\ \A w \in Workers : pc[w] \in {"next", "report"} => lock = w
  /\ lock # None =>
       \/ pc[lock] \in {"next", "report"}
       \/ /\ pc[lock] = "died" /\ file[lock] # None
          /\ Size[target[file[lock]]] = 0

(* No file is handed to two threads, and the file of a computation has no  *)
(* patch yet (line 846: the iterator is accessed under the lock).          *)
TakenOnce ==
  /\ \A f \in left : patch[f] = None
  /\ \A w \in Workers :
       /\ pc[w] \in {"compute", "computed", "report"} =>
            /\ file[w] # None
            /\ \A v \in Workers \ {w} : file[v] # file[w]
       /\ pc[w] = "compute" => patch[file[w]] = None
       /\ file[w] \notin left

(* A thread ends only when the iterator is exhausted; threads run only     *)
(* while the main thread waits for them.                                   *)
PoolInv ==
  /\ \A w \in Workers : pc[w] = "ended" => left = {}
  /\ main \in {"select", "error"} =>
       /\ \A w \in Workers : pc[w] = "unborn"
       /\ \A f \in Files : patch[f] = None
  /\ main \in {"divide", "done"} => Joined

(* What each file is sent as.                                              *)
PlanInv ==
  /\ main \in {"select", "error"} => diffs = {} /\ verbatim = {} /\ patched = {}
  /\ main \in {"join", "divide", "done"} => diffs = Changed
  /\ main \in {"join", "divide"} => verbatim = Whole /\ patched = {}
  /\ main = "done" => /\ patched = {f \in diffs : WorthIt(f)}
                      /\ verbatim = Whole \cup (diffs \ patched)

(* The inductive invariant: the lock is held by the thread whose position  *)
(* says so, each file is computed by one thread, and the plan follows the  *)
(* two builds.                                                             *)
IInv == TypeOK /\ LockInv /\ TakenOnce /\ PoolInv /\ PlanInv

(* When the main thread goes on to divide the plan, every file was handed  *)
(* out unless every single thread died: an exception in one thread loses   *)
(* the file it had and no other.                                           *)
NothingLeft ==
  main \in {"divide", "done"} /\ left # {} => \A w \in Workers : pc[w] = "died"

(* The package turns the source into the target, whatever threads died and *)
(* diff programs failed: a file is sent whole, or patched by a patch that  *)
(* exists for a file that exists, or is what the source has already; and   *)
(* not in two ways (lines 534-568).                                        *)
Installed(f) == IF f \in verbatim THEN target[f]
                ELSE IF f \in patched /\ patch[f] # None /\ source[f] # NoFile
                THEN target[f] ELSE source[f]

PackageRebuildsTarget ==
  main = "done" =>
    /\ \A f \in Files : Installed(f) = target[f]
    /\ verbatim \cap patched = {}
    /\ require_verbatim \cap patched = {}

(* ComputeDifferences implements Batch: each Difference.patch is written   *)
(* once and only while the main thread waits, which then reads them with   *)
(* no lock (lines 557-560).                                                *)
Phase == IF main \in {"select", "error"} THEN "before"
         ELSE IF main = "join" THEN "running" ELSE "over"

Pool == INSTANCE Batch WITH Items <- Files, Results <- PatchSizes,
                            phase <- Phase, result <- patch

BatchSpec == Pool!Spec

(* "start worker threads; wait for them all to finish" (863): the wait     *)
(* ends, unless a thread died over an empty file with the lock held.       *)
DiedHolding(w) ==
  lock = w /\ pc[w] = "died" /\ Size[target[file[w]]] = 0

PoolEnds == main = "join" ~> main = "done" \/ \E w \in Workers : DiedHolding(w)
=============================================================================
