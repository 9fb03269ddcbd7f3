-------------------------- MODULE IncrementalProofs --------------------------
(* The pool of threads and the plan of Incremental, for every pair of      *)
(* builds, any number of threads and any contents.                         *)
EXTENDS Incremental, TLAPS

LEMMA InvInit == Init => IInv
<1> SUFFICES ASSUME Init PROVE IInv
  OBVIOUS
<1>1. TypeOK
  BY DEF Init, TypeOK
<1>2. LockInv /\ TakenOnce
  BY NoneAssumption DEF NoneAssumption, Init, LockInv, TakenOnce
<1>3. PoolInv /\ PlanInv
  BY DEF Init, PoolInv, PlanInv
<1> QED
  BY <1>1, <1>2, <1>3 DEF IInv

-----------------------------------------------------------------------------
(* The main thread's steps: it touches the pool only before the threads    *)
(* are born, and the plan only before or after they run.                   *)
LEMMA SelectKeeps == IInv /\ Select => IInv'
<1> SUFFICES ASSUME IInv, Select PROVE IInv'
  OBVIOUS
<1> USE NoneAssumption DEF NoneAssumption, IInv, Select
<1>0. Changed \subseteq Files /\ Whole \subseteq Files
  BY DEF Changed, Whole
<1>1. \A w \in Workers : file[w] = None
  BY DEF TypeOK, PlanInv
<1>2. /\ pc' \in [Workers -> {"start"}]
      /\ \A w \in Workers : pc'[w] = "start"
  OBVIOUS
<1>3. TypeOK'
  <2>1. file' \in [Workers -> diffs' \cup {None}]
    BY DEF TypeOK, PlanInv
  <2> QED
    BY <1>0, <1>2, <2>1 DEF TypeOK, builds
<1>4. lock = None
  BY DEF LockInv, PoolInv, TypeOK
<1>5. LockInv'
  BY <1>2, <1>4 DEF LockInv
<1>6. TakenOnce'
  <2>1. \A f \in Files : patch[f] = None
    BY DEF PoolInv
  <2> QED
    BY <1>0, <1>1, <1>2, <2>1 DEF TakenOnce
<1>7. PoolInv'
  BY <1>2 DEF PoolInv, Joined
<1>8. PlanInv'
  BY DEF PlanInv, Changed, Whole, builds
<1> QED
  BY <1>3, <1>5, <1>6, <1>7, <1>8

LEMMA RefuseKeeps == IInv /\ Refuse => IInv'
BY DEF IInv, Refuse, TypeOK, LockInv, TakenOnce, PoolInv, PlanInv, builds,
       plan, threads, Joined, Changed, Whole, WorthIt

LEMMA JoinKeeps == IInv /\ Join => IInv'
<1> SUFFICES ASSUME IInv, Join PROVE IInv'
  OBVIOUS
<1> USE DEF IInv, Join, builds, plan, threads
<1>1. TypeOK' /\ LockInv' /\ TakenOnce'
  BY DEF TypeOK, LockInv, TakenOnce
<1>2. PoolInv' /\ PlanInv'
  BY DEF PoolInv, PlanInv, Joined, Changed, Whole
<1> QED
  BY <1>1, <1>2

LEMMA DivideKeeps == IInv /\ Divide => IInv'
<1> SUFFICES ASSUME IInv, Divide PROVE IInv'
  OBVIOUS
<1> USE DEF IInv, Divide, builds, threads
<1>1. TypeOK' /\ LockInv' /\ TakenOnce'
  BY DEF TypeOK, LockInv, TakenOnce
<1>2. PoolInv'
  BY DEF PoolInv, Joined
<1>3. Changed' = Changed /\ Whole' = Whole /\ \A f : WorthIt(f)' <=> WorthIt(f)
  BY DEF Changed, Whole, WorthIt
<1>4. PlanInv'
  BY <1>3 DEF PlanInv
<1> QED
  BY <1>1, <1>2, <1>4

-----------------------------------------------------------------------------
(* A step of a thread leaves the plan alone, and happens only while the    *)
(* main thread waits.                                                      *)
LEMMA ThreadsRunInJoin ==
  ASSUME IInv, NEW w \in Workers,
         pc[w] \in {"start", "next", "compute", "computed", "report"}
  PROVE  main = "join"
BY DEF IInv, TypeOK, PoolInv, Joined

LEMMA PlanKept ==
  ASSUME IInv, main = "join", UNCHANGED <<builds, main, plan>>
  PROVE  PlanInv'
BY DEF IInv, PlanInv, builds, plan, Changed, Whole

LEMMA AcquireKeeps ==
  ASSUME IInv, NEW w \in Workers, Acquire(w)
  PROVE  IInv'
<1> USE NoneAssumption DEF NoneAssumption, IInv, Acquire, At, Goto
<1>1. main = "join"
  BY ThreadsRunInJoin
<1>2. TypeOK'
  BY DEF TypeOK, builds, plan
<1>3. /\ pc' = [pc EXCEPT ![w] = pc'[w]]
      /\ \/ pc[w] = "start" /\ pc'[w] = "next"
         \/ pc[w] = "computed" /\ pc'[w] = "report"
  BY DEF TypeOK
<1>4. LockInv'
  BY <1>3 DEF LockInv, TypeOK, builds
<1>5. TakenOnce'
  BY <1>3 DEF TakenOnce, TypeOK
<1>6. PoolInv'
  BY <1>1, <1>3 DEF PoolInv, TypeOK
<1> QED
  BY <1>1, <1>2, <1>4, <1>5, <1>6, PlanKept

LEMMA TakeKeeps ==
  ASSUME IInv, NEW w \in Workers, Take(w)
  PROVE  IInv'
<1> USE NoneAssumption DEF NoneAssumption, IInv, At, Goto
<1>1. main = "join"
  BY ThreadsRunInJoin DEF Take
<1>2. PICK f \in left : /\ file' = [file EXCEPT ![w] = f]
                        /\ left' = left \ {f}
  BY DEF Take
<1>3. f \in diffs /\ f \in Files /\ f # None
  BY <1>2 DEF TypeOK
<1>4. TypeOK'
  BY <1>2, <1>3 DEF Take, TypeOK, builds, plan
<1>5. LockInv'
  BY DEF Take, LockInv, TypeOK
<1>6. TakenOnce'
  <2>1. /\ file'[w] = f /\ pc'[w] = "compute"
        /\ \A v \in Workers \ {w} : file'[v] = file[v] /\ pc'[v] = pc[v]
    BY <1>2 DEF Take, TypeOK
  <2>2. \A v \in Workers : file[v] # f
    BY DEF TakenOnce
  <2> QED
    BY <1>2, <1>3, <2>1, <2>2 DEF Take, TakenOnce, TypeOK
<1>7. PoolInv'
  BY <1>1, <1>2 DEF Take, PoolInv, TypeOK
<1> QED
  BY <1>1, <1>4, <1>5, <1>6, <1>7, PlanKept DEF Take

LEMMA ExhaustKeeps ==
  ASSUME IInv, NEW w \in Workers, Exhaust(w)
  PROVE  IInv'
<1> USE NoneAssumption DEF NoneAssumption, IInv, Exhaust, At, Goto
<1>1. main = "join"
  BY ThreadsRunInJoin
<1>2. TypeOK'
  BY DEF TypeOK, builds, plan
<1>3. LockInv'
  BY DEF LockInv, TypeOK
<1>4. TakenOnce'
  BY DEF TakenOnce, TypeOK
<1>5. PoolInv'
  BY <1>1 DEF PoolInv, TypeOK
<1> QED
  BY <1>1, <1>2, <1>3, <1>4, <1>5, PlanKept

LEMMA ComputePatchKeeps ==
  ASSUME IInv, NEW w \in Workers, ComputePatch(w)
  PROVE  IInv'
<1> USE NoneAssumption DEF NoneAssumption, IInv, ComputePatch, At, Goto
<1>1. main = "join"
  BY ThreadsRunInJoin
<1>2. /\ file[w] \in Files /\ file[w] \notin left
      /\ patch' \in [Files -> PatchSizes \cup {None}]
      /\ \A f \in Files \ {file[w]} : patch'[f] = patch[f]
  BY DEF TypeOK, TakenOnce
<1>3. /\ pc' = [pc EXCEPT ![w] = pc'[w]]
      /\ pc'[w] \in {"computed", "died"}
  BY DEF TypeOK
<1>4. TypeOK'
  BY <1>2, <1>3 DEF TypeOK, builds, plan
<1>5. LockInv'
  BY <1>3 DEF LockInv, TypeOK, builds
<1>6. TakenOnce'
  <2>1. \A f \in left : patch'[f] = None
    BY <1>2 DEF TakenOnce, TypeOK
  <2>2. \A v \in Workers \ {w} : pc[v] = "compute" => patch'[file[v]] = None
    BY <1>2 DEF TakenOnce, TypeOK
  <2> QED
    BY <1>3, <2>1, <2>2 DEF TakenOnce, TypeOK
<1>7. PoolInv'
  BY <1>1, <1>3 DEF PoolInv, TypeOK
<1> QED
  BY <1>1, <1>4, <1>5, <1>6, <1>7, PlanKept

LEMMA ReportKeeps ==
  ASSUME IInv, NEW w \in Workers, Report(w)
  PROVE  IInv'
<1> USE NoneAssumption DEF NoneAssumption, IInv, Report, At, Goto
<1>1. main = "join"
  BY ThreadsRunInJoin
<1>2. /\ pc' = [pc EXCEPT ![w] = pc'[w]]
      /\ \/ pc'[w] = "next"
         \/ pc'[w] = "died" /\ Size[target[file[w]]] = 0
  BY DEF TypeOK
<1>3. TypeOK'
  BY <1>2 DEF TypeOK, builds, plan
<1>4. lock = w /\ file[w] # None
  BY DEF LockInv, TakenOnce
<1>5. LockInv'
  BY <1>2, <1>4 DEF LockInv, TypeOK, builds
<1>6. TakenOnce'
  BY <1>2 DEF TakenOnce, TypeOK
<1>7. PoolInv'
  BY <1>1, <1>2 DEF PoolInv, TypeOK
<1> QED
  BY <1>1, <1>3, <1>5, <1>6, <1>7, PlanKept

-----------------------------------------------------------------------------
(* Who holds the lock follows from the positions of the threads, each file *)
(* has one thread, and the plan follows the two builds.                    *)
THEOREM PoolInvariance == Spec => []IInv
<1>1. IInv /\ [Next]_vars => IInv'
  <2> SUFFICES ASSUME IInv, [Next]_vars PROVE IInv'
    OBVIOUS
  <2>1. CASE MainStep
    BY <2>1, SelectKeeps, RefuseKeeps, JoinKeeps, DivideKeeps DEF MainStep
  <2>2. ASSUME NEW w \in Workers, worker(w) PROVE IInv'
    BY <2>2, AcquireKeeps, TakeKeeps, ExhaustKeeps, ComputePatchKeeps,
       ReportKeeps DEF worker
  <2>3. CASE UNCHANGED vars
    BY <2>3 DEF vars, builds, plan, threads, IInv, TypeOK, LockInv, TakenOnce,
                PoolInv, PlanInv, Joined, Changed, Whole, WorthIt
  <2> QED
    BY <2>1, <2>2, <2>3 DEF Next
<1> QED
  BY <1>1, InvInit, PTL DEF Spec

(* However threads die, only a file in the hands of one is lost, unless    *)
(* they all died.                                                          *)
THEOREM NothingLost == Spec => []NothingLeft
<1>1. IInv => NothingLeft
  BY DEF IInv, PoolInv, Joined, NothingLeft
<1> QED
  BY <1>1, PoolInvariance, PTL

(* Every divided plan turns the source build into the target build.        *)
THEOREM PlanRebuildsTarget == Spec => []PackageRebuildsTarget
<1>1. IInv => PackageRebuildsTarget
  <2> SUFFICES ASSUME IInv, main = "done" PROVE PackageRebuildsTarget
    BY DEF PackageRebuildsTarget
  <2> USE DEF IInv, PlanInv
  <2>1. /\ patched = {f \in Changed : WorthIt(f)}
        /\ verbatim = Whole \cup (Changed \ patched)
    OBVIOUS
  <2>2. ASSUME NEW f \in Files PROVE Installed(f) = target[f]
    BY <2>1 DEF Changed, Whole, WorthIt, Installed
  <2>3. verbatim \cap patched = {} /\ require_verbatim \cap patched = {}
    BY <2>1 DEF Changed, Whole
  <2> QED
    BY <2>2, <2>3 DEF PackageRebuildsTarget
<1> QED
  BY <1>1, PoolInvariance, PTL

(* The pool writes each patch once, and only while its caller waits.       *)
THEOREM PoolImplementsBatch == Spec => BatchSpec
<1>1. Init => Pool!Init
  BY DEF Init, Pool!Init, Phase
<1>2. IInv /\ [Next]_vars => [Pool!Next]_(Pool!vars)
  <2> SUFFICES ASSUME IInv, [Next]_vars PROVE [Pool!Next]_(Pool!vars)
    OBVIOUS
  <2> USE DEF Pool!vars, Phase
  <2>1. CASE Select
    BY <2>1 DEF Select, Pool!Next, Pool!Begin
  <2>2. CASE Refuse \/ Divide
    BY <2>2 DEF Refuse, Divide
  <2>3. CASE Join
    BY <2>3 DEF Join, Pool!Next, Pool!End
  <2>4. ASSUME NEW w \in Workers, ComputePatch(w) PROVE [Pool!Next]_(Pool!vars)
    <3>1. main = "join" /\ main' = "join"
      BY <2>4, ThreadsRunInJoin DEF ComputePatch, At
    <3>2. file[w] \in Files /\ patch[file[w]] = None
      BY <2>4 DEF ComputePatch, At, IInv, TypeOK, TakenOnce
    <3>3. CASE UNCHANGED patch
      BY <3>1, <3>3
    <3>4. CASE \E n \in PatchSizes : patch' = [patch EXCEPT ![file[w]] = n]
      <4>1. Pool!Produce(file[w])
        BY <3>1, <3>2, <3>4 DEF Pool!Produce
      <4> QED
        BY <3>2, <4>1 DEF Pool!Next
    <3> QED
      BY <2>4, <3>3, <3>4 DEF ComputePatch
  <2>5. ASSUME NEW w \in Workers,
               Acquire(w) \/ Take(w) \/ Exhaust(w) \/ Report(w)
        PROVE  [Pool!Next]_(Pool!vars)
    BY <2>5 DEF Acquire, Take, Exhaust, Report
  <2>6. CASE UNCHANGED vars
    BY <2>6 DEF vars
  <2> QED
    BY <2>1, <2>2, <2>3, <2>4, <2>5, <2>6 DEF Next, MainStep, worker
<1> QED
  BY <1>1, <1>2, PoolInvariance, PTL DEF Spec, BatchSpec, Pool!Spec

-----------------------------------------------------------------------------
(* Why the wait for the threads ends (lines 844-868).                      *)

(* The guard of worker(w): it has the lock, needs none, or can take it.    *)
Ready(w) ==
  \/ pc[w] \in {"next", "compute", "report"}
  \/ pc[w] \in {"start", "computed"} /\ lock = None

(* While the main thread waits, a thread can go on, unless they are all    *)
(* over or one died with the lock held.                                    *)
PoolNotStuck ==
  main = "join" =>
    Joined \/ (\E w \in Workers : Ready(w)) \/ (\E w \in Workers : DiedHolding(w))

(* ComputeDifferences starts every thread before it waits for the first.   *)
Started == main = "join" => \A w \in Workers : pc[w] # "unborn"

LEMMA StartedStep == IInv /\ Started /\ [Next]_vars => Started'
<1> SUFFICES ASSUME IInv, Started, [Next]_vars PROVE Started'
  OBVIOUS
<1> USE DEF IInv, TypeOK, Started, Goto
<1>1. CASE MainStep
  BY <1>1 DEF MainStep, Select, Refuse, Join, Divide, threads
<1>2. ASSUME NEW w \in Workers, worker(w) PROVE Started'
  BY <1>2 DEF worker, Acquire, Take, Exhaust, ComputePatch, Report
<1>3. CASE UNCHANGED vars
  BY <1>3 DEF vars, threads
<1> QED
  BY <1>1, <1>2, <1>3 DEF Next

(* The pool is never stuck: the lock is free, its holder can go on, or its *)
(* holder died over an empty file, which is the only way it stays locked.  *)
THEOREM SomeThreadGoesOn == Spec => []PoolNotStuck
<1>1. Init => Started
  BY DEF Init, Started
<1>2. Spec => [](IInv /\ Started)
  BY <1>1, StartedStep, PoolInvariance, PTL DEF Spec
<1>3. IInv /\ Started => PoolNotStuck
  <2> SUFFICES ASSUME IInv, Started, main = "join", NEW w \in Workers,
                      pc[w] \notin {"ended", "died"}, ~Ready(w)
               PROVE  \E v \in Workers : Ready(v) \/ DiedHolding(v)
    BY DEF PoolNotStuck, Joined
  <2>1. lock # None /\ lock \in Workers
    BY DEF IInv, TypeOK, Started, Ready
  <2>2. Ready(lock) \/ DiedHolding(lock)
    BY <2>1 DEF IInv, LockInv, Ready, DiedHolding
  <2> QED
    BY <2>1, <2>2
<1> QED
  BY <1>2, <1>3, PTL

(* Where a thread is in its work on a file.                                *)
Rank(p) ==
  CASE p = "compute" -> 1 [] p = "computed" -> 2 [] p = "report" -> 3
    [] p = "next" -> 4 [] p \in {"ended", "died"} -> 5 [] OTHER -> 0

(* Each step of a thread takes it forward or hands out one more file, of   *)
(* which there are only so many; the iterator never gets one back.         *)
StepsCount ==
  [][ /\ main = "join" => left' \subseteq left
      /\ \A w \in Workers :
           pc'[w] # pc[w] =>
             Rank(pc[w]) < Rank(pc'[w]) \/ pc[w] = "unborn"
               \/ \E f \in left : left' = left \ {f} ]_vars

(* With PoolNotStuck: the pool takes at most five steps for each thread    *)
(* and each file, and stops only when the threads are over or one died     *)
(* with the lock held.                                                     *)
THEOREM BoundedPool == Spec => StepsCount
<1> DEFINE Counts ==
      /\ main = "join" => left' \subseteq left
      /\ \A w \in Workers :
           pc'[w] # pc[w] =>
             Rank(pc[w]) < Rank(pc'[w]) \/ pc[w] = "unborn"
               \/ \E f \in left : left' = left \ {f}
<1>1. IInv /\ [Next]_vars => Counts
  <2> SUFFICES ASSUME IInv, [Next]_vars PROVE Counts
    OBVIOUS
  <2> USE DEF IInv, TypeOK, Goto, At, Rank
  <2>1. CASE Select
    BY <2>1 DEF Select, PoolInv
  <2>2. CASE Refuse \/ Join \/ Divide \/ UNCHANGED vars
    BY <2>2 DEF Refuse, Join, Divide, vars, threads
  <2>3. ASSUME NEW w \in Workers, Take(w) PROVE Counts
    BY <2>3 DEF Take
  <2>4. ASSUME NEW w \in Workers,
               Acquire(w) \/ Exhaust(w) \/ ComputePatch(w) \/ Report(w)
        PROVE  Counts
    BY <2>4 DEF Acquire, Exhaust, ComputePatch, Report
  <2> QED
    BY <2>1, <2>2, <2>3, <2>4 DEF Next, MainStep, worker
<1>2. IInv /\ [Next]_vars => [Counts]_vars
  BY <1>1
<1> QED
  BY <1>2, PoolInvariance, PTL DEF Spec, StepsCount
=============================================================================
