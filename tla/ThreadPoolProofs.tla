-------------------------- MODULE ThreadPoolProofs --------------------------
(***************************************************************************)
(* TLAPS proofs about ThreadPool: every task runs once, no worker idles    *)
(* while a task waits, no put() blocks, and join means done.               *)
(***************************************************************************)
EXTENDS ThreadPool, FiniteSetTheorems, SequenceTheorems, TLAPS

(* The destructor has joined and is deleting the workers.                  *)
Deleting == pc[Owner] \in {"delete", "gone"}

(* Worker w has been given task t and has not run it yet.                  *)
Holds(w, t) == box[w] = t \/ (at[w] = "run" /\ task[w] = t)

Queued(t) == \E i \in 1..Len(tasks) : tasks[i] = t

(* What a free worker looks like, a busy one and a deleted one.            *)
IsFree(w) == box[w] = EMPTY /\ isDone[w] /\ at[w] \in {"take", "asleep"}

IsBusy(w) ==
    \/ at[w] = "take" /\ box[w] \in Tasks /\ ~isDone[w]
    \/ at[w] = "run" /\ box[w] = EMPTY /\ task[w] \in Tasks /\ ~isDone[w]
    \/ at[w] = "ran" /\ box[w] = EMPTY /\ isDone[w]

IsDeleted(w) ==
    \/ at[w] = "take" /\ box[w] = STOP
    \/ at[w] = "end" /\ box[w] = EMPTY

(* Where each worker stands.                                               *)
WorkerInv ==
    /\ \A w \in freeWorkers : IsFree(w)
    /\ ~Deleting => \A w \in Busy : IsBusy(w)
    /\ Deleting => \A w \in Busy : IsDeleted(w)

(* The destructor runs alone, and deletes only when nothing is left.       *)
QuitInv ==
    /\ quits => \A c \in Callers \ {Owner} : pc[c] = "idle"
    /\ \A c \in Callers : pc[c] \in {"delete", "gone"} => quits
    /\ Deleting => tasks = <<>> /\ remaining = 0

(* A task that is queued or held has not run, every other has, and no task *)
(* is in two places.                                                       *)
PlaceInv ==
    /\ \A t \in Tasks : t > scheduled => ~Queued(t) /\ runs[t] = 0
    /\ \A t \in Tasks, w \in Workers : t > scheduled => ~Holds(w, t)
    /\ \A t \in 1..scheduled :
          runs[t] = IF Queued(t) \/ \E w \in Workers : Holds(w, t) THEN 0 ELSE 1
    /\ \A i, j \in 1..Len(tasks) : tasks[i] = tasks[j] => i = j
    /\ \A t \in Tasks, w \in Workers : Holds(w, t) => ~Queued(t)
    /\ \A t \in Tasks, v, w \in Workers : Holds(v, t) /\ Holds(w, t) => v = w

(* _tasksRemaining never exceeds the tasks scheduled.                      *)
CountInv == RemainingCounts /\ remaining <= scheduled

IInv ==
    /\ TPTypeOK /\ WorkerInv /\ QuitInv /\ PlaceInv /\ CountInv
    /\ NoIdleWorker /\ NeverBlocks

-----------------------------------------------------------------------------

LEMMA TaskFact ==
  /\ EMPTY \notin Tasks /\ STOP \notin Tasks /\ EMPTY # STOP
  /\ \A t \in Tasks : t \in Nat /\ t # EMPTY /\ t # STOP
  BY PoolAssumption DEF Tasks, EMPTY, STOP

LEMMA BusyFinite ==
  ASSUME freeWorkers \subseteq Workers
  PROVE  IsFiniteSet(Busy) /\ Cardinality(Busy) \in Nat
  BY PoolAssumption, FS_Difference, FS_CardinalityType DEF Busy

LEMMA InitInv == Init => IInv
<1> SUFFICES ASSUME Init PROVE IInv
  OBVIOUS
<1>1. TPTypeOK
  <2>1. tasks \in Seq(Tasks) /\ EMPTY \in {EMPTY, STOP} \cup Tasks
    BY DEF Init
  <2>2. isDone \in [Workers -> BOOLEAN] /\ quits \in BOOLEAN /\ blocked \in BOOLEAN
    BY Zenon DEF Init
  <2> QED
    BY <2>1, <2>2, PoolAssumption DEF Init, TPTypeOK
<1>2. ~Deleting
  BY PoolAssumption DEF Init, Deleting
<1>3. WorkerInv
  BY <1>2 DEF Init, WorkerInv, IsFree, Busy
<1>4. QuitInv
  BY <1>2 DEF Init, QuitInv
<1>5. PlaceInv
  BY PoolAssumption, TaskFact DEF Init, PlaceInv, Queued, Holds
<1>6. CountInv
  <2>1. Cardinality(Busy) = 0
    BY FS_EmptySet DEF Init, Busy
  <2> QED
    BY <2>1 DEF Init, CountInv, RemainingCounts
<1> QED
  BY <1>1, <1>3, <1>4, <1>5, <1>6 DEF Init, IInv, NoIdleWorker, NeverBlocks

-----------------------------------------------------------------------------
(* The actions.                                                            *)

(* A new task goes to a free worker.                                       *)
LEMMA ScheduleNow ==
  ASSUME IInv, ~Deleting, scheduled < MaxTasks, scheduled' = scheduled + 1,
         remaining' = remaining + 1, NEW w \in freeWorkers, SetTask(w, scheduled'),
         freeWorkers' = freeWorkers \ {w}, UNCHANGED <<tasks, pc, quits, runs>>
  PROVE  IInv'
<1> DEFINE n == scheduled + 1
<1>0. /\ TPTypeOK /\ WorkerInv /\ QuitInv /\ PlaceInv /\ CountInv
      /\ NoIdleWorker /\ NeverBlocks /\ w \in Workers
      /\ n \in Tasks /\ n \in Nat /\ scheduled \in Nat /\ remaining \in Nat /\ MaxTasks \in Nat
  BY PoolAssumption DEF IInv, TPTypeOK, Tasks
<1>1. IsFree(w)
  BY <1>0 DEF WorkerInv
<1>2. /\ box' = [box EXCEPT ![w] = n]
      /\ at' = [at EXCEPT ![w] = "take"]
      /\ isDone' = [isDone EXCEPT ![w] = FALSE]
      /\ task' = task /\ ~blocked'
  BY <1>0, <1>1 DEF SetTask, Put, IsFree, NeverBlocks, TPTypeOK
<1>3. TPTypeOK'
  <2>1. blocked' \in BOOLEAN
    BY Zenon DEF SetTask
  <2>2. isDone' \in [Workers -> BOOLEAN]
    BY <1>0, <1>2 DEF TPTypeOK
  <2> QED
    BY <1>0, <1>2, <2>1, <2>2 DEF TPTypeOK, CountInv
<1>4. WorkerInv'
  <2>1. IsBusy(w)'
    BY <1>0, <1>2 DEF IsBusy, TPTypeOK
  <2>2. \A v \in Workers \ {w} : (IsFree(v) => IsFree(v)') /\ (IsBusy(v) => IsBusy(v)')
    BY <1>0, <1>2 DEF IsFree, IsBusy, TPTypeOK
  <2> QED
    BY <1>0, <2>1, <2>2 DEF WorkerInv, Deleting, Busy, TPTypeOK
<1>5. QuitInv'
  BY <1>0 DEF QuitInv, Deleting
<1>6. PlaceInv'
  <2>1. \A t \in Tasks, v \in Workers : Holds(v, t)' <=> Holds(v, t) \/ (v = w /\ t = n)
    BY <1>0, <1>1, <1>2, TaskFact DEF Holds, IsFree, TPTypeOK
  <2>2. \A t : Queued(t)' <=> Queued(t)
    BY DEF Queued
  <2>3. \A t \in Tasks : t > scheduled' => t > scheduled /\ t # n
    BY <1>0 DEF Tasks
  <2>4. \A t \in 1..scheduled' : t \in Tasks /\ (t = n \/ t \in 1..scheduled)
    BY <1>0 DEF Tasks
  <2>5. n > scheduled
    BY <1>0
  <2> HIDE DEF n
  <2> QED
    BY <1>0, <2>1, <2>2, <2>3, <2>4, <2>5 DEF PlaceInv
<1>7. CountInv'
  <2>1. Busy' = Busy \cup {w} /\ w \notin Busy
    BY <1>0 DEF Busy
  <2>2. Cardinality(Busy') = Cardinality(Busy) + 1 /\ Cardinality(Busy) \in Nat
    BY <2>1, <1>0, BusyFinite, FS_AddElement DEF TPTypeOK
  <2>3. Len(tasks) \in Nat
    BY <1>0 DEF TPTypeOK
  <2> QED
    BY <1>0, <2>2, <2>3 DEF CountInv, RemainingCounts, Deleting
<1>8. NoIdleWorker' /\ NeverBlocks'
  BY <1>0, <1>2 DEF NoIdleWorker, NeverBlocks
<1> QED
  BY <1>3, <1>4, <1>5, <1>6, <1>7, <1>8 DEF IInv

(* All workers are busy: the task is queued.                               *)
LEMMA ScheduleLater ==
  ASSUME IInv, ~Deleting, scheduled < MaxTasks, scheduled' = scheduled + 1,
         remaining' = remaining + 1, freeWorkers = {}, tasks' = Append(tasks, scheduled'),
         UNCHANGED <<freeWorkers, workVars, blocked, pc, quits, runs>>
  PROVE  IInv'
<1> DEFINE n == scheduled + 1
<1>0. /\ TPTypeOK /\ WorkerInv /\ QuitInv /\ PlaceInv /\ CountInv
      /\ NoIdleWorker /\ NeverBlocks
      /\ n \in Tasks /\ n \in Nat /\ scheduled \in Nat /\ remaining \in Nat /\ MaxTasks \in Nat
      /\ UNCHANGED <<box, isDone, at, task>> /\ ~Deleting'
  BY PoolAssumption DEF IInv, TPTypeOK, Tasks, workVars, Deleting
<1>1. /\ tasks' \in Seq(Tasks) /\ Len(tasks') = Len(tasks) + 1 /\ Len(tasks) \in Nat
      /\ \A i \in 1..Len(tasks) : tasks'[i] = tasks[i]
      /\ tasks'[Len(tasks) + 1] = n
      /\ \A i \in 1..Len(tasks) : tasks[i] \in Tasks
  BY <1>0, AppendProperties, ElementOfSeq DEF TPTypeOK
<1>2. TPTypeOK'
  BY <1>0, <1>1 DEF TPTypeOK, CountInv
<1>3. WorkerInv'
  BY <1>0 DEF WorkerInv, IsFree, IsBusy, IsDeleted, Busy
<1>4. QuitInv'
  BY <1>0 DEF QuitInv
<1>5. PlaceInv'
  <2>1. \A t, v : Holds(v, t)' <=> Holds(v, t)
    BY <1>0 DEF Holds
  <2>2. \A t \in Tasks : Queued(t)' <=> Queued(t) \/ t = n
    BY <1>0, <1>1 DEF Queued
  <2>3. \A t \in Tasks : t > scheduled' => t > scheduled /\ t # n
    BY <1>0 DEF Tasks
  <2>4. \A t \in 1..scheduled' : t \in Tasks /\ (t = n \/ t \in 1..scheduled)
    BY <1>0 DEF Tasks
  <2>5. n > scheduled /\ ~Queued(n) /\ runs[n] = 0 /\ \A v \in Workers : ~Holds(v, n)
    BY <1>0 DEF PlaceInv
  <2>6. \A i, j \in 1..Len(tasks') : tasks'[i] = tasks'[j] => i = j
    <3> HIDE DEF n
    <3>1. \A i \in 1..Len(tasks) : tasks[i] # n
      BY <2>5 DEF Queued
    <3>2. \A i \in 1..Len(tasks') : i \in 1..Len(tasks) \/ i = Len(tasks) + 1
      BY <1>1
    <3> QED
      BY <1>0, <1>1, <3>1, <3>2 DEF PlaceInv
  <2> HIDE DEF n
  <2> QED
    BY <1>0, <2>1, <2>2, <2>3, <2>4, <2>5, <2>6 DEF PlaceInv
<1>6. CountInv'
  <2>1. Cardinality(Busy) \in Nat /\ Busy' = Busy
    BY <1>0, BusyFinite DEF TPTypeOK, Busy
  <2> QED
    BY <1>0, <1>1, <2>1 DEF CountInv, RemainingCounts, Deleting
<1>7. NoIdleWorker' /\ NeverBlocks'
  BY <1>0 DEF NoIdleWorker, NeverBlocks
<1> QED
  BY <1>2, <1>3, <1>4, <1>5, <1>6, <1>7 DEF IInv

LEMMA ScheduleInv == ASSUME IInv, ~Deleting, Schedule PROVE IInv'
<1>1. ASSUME NEW w \in freeWorkers, SetTask(w, scheduled'),
             freeWorkers' = freeWorkers \ {w}, UNCHANGED tasks
      PROVE  IInv'
  BY <1>1, ScheduleNow DEF Schedule
<1>2. ASSUME freeWorkers = {}, tasks' = Append(tasks, scheduled'),
             UNCHANGED <<freeWorkers, workVars, blocked>>
      PROVE  IInv'
  BY <1>2, ScheduleLater DEF Schedule
<1> QED
  BY <1>1, <1>2 DEF Schedule

(* Steps of a caller that leave tasks and workers alone.                   *)
LEMMA CallerStep ==
  ASSUME IInv, UNCHANGED <<freeWorkers, tasks, remaining, workVars, scheduled, runs, blocked>>,
         pc' \in [Callers -> {"idle", "join", "asleep", "delete", "gone"}], quits' \in BOOLEAN,
         QuitInv', Deleting' <=> Deleting
  PROVE  IInv'
<1>0. /\ TPTypeOK /\ WorkerInv /\ PlaceInv /\ CountInv /\ NoIdleWorker /\ NeverBlocks
      /\ UNCHANGED <<box, isDone, at, task>>
  BY DEF IInv, workVars
<1>1. TPTypeOK'
  BY <1>0 DEF TPTypeOK
<1>2. WorkerInv'
  BY <1>0 DEF WorkerInv, IsFree, IsBusy, IsDeleted, Busy
<1>3. PlaceInv'
  BY <1>0 DEF PlaceInv, Holds, Queued
<1>4. CountInv'
  BY <1>0 DEF CountInv, RemainingCounts, Busy, Deleting
<1> QED
  BY <1>0, <1>1, <1>2, <1>3, <1>4 DEF IInv, NoIdleWorker, NeverBlocks

(* When nothing remains, nothing is queued, every worker is free and every *)
(* task has run.                                                           *)
LEMMA NothingRemains ==
  ASSUME IInv, ~Deleting, remaining = 0
  PROVE  /\ tasks = <<>> /\ freeWorkers = Workers
         /\ \A t \in 1..scheduled : runs[t] = 1
<1>0. TPTypeOK /\ WorkerInv /\ PlaceInv /\ CountInv
  BY DEF IInv
<1>1. Len(tasks) \in Nat /\ Cardinality(Busy) \in Nat /\ IsFiniteSet(Busy)
  BY <1>0, BusyFinite DEF TPTypeOK
<1>2. Len(tasks) = 0 /\ Cardinality(Busy) = 0
  BY <1>0, <1>1 DEF CountInv, RemainingCounts, Deleting
<1>3. tasks = <<>>
  BY <1>0, <1>2, EmptySeq DEF TPTypeOK
<1>4. freeWorkers = Workers
  BY <1>0, <1>1, <1>2, FS_EmptySet DEF Busy, TPTypeOK
<1>5. \A t \in 1..scheduled : t \in Tasks
  BY <1>0, PoolAssumption DEF TPTypeOK, Tasks
<1>6. \A t \in Tasks, w \in Workers : ~Holds(w, t)
  BY <1>0, <1>4, TaskFact DEF WorkerInv, IsFree, Holds
<1>7. \A t : ~Queued(t)
  BY <1>2 DEF Queued
<1> QED
  BY <1>0, <1>3, <1>4, <1>5, <1>6, <1>7 DEF PlaceInv

LEMMA JoinInv == ASSUME IInv, NEW c \in Callers, Join(c) PROVE IInv'
<1>1. QuitInv' /\ (Deleting' <=> Deleting)
  BY PoolAssumption DEF IInv, TPTypeOK, QuitInv, Join, Deleting
<1> QED
  BY <1>1, CallerStep DEF Join, IInv, TPTypeOK

LEMMA DestroyInv == ASSUME IInv, Destroy PROVE IInv'
<1>1. QuitInv' /\ (Deleting' <=> Deleting)
  BY PoolAssumption DEF IInv, TPTypeOK, QuitInv, Destroy, Deleting
<1>2. quits' \in BOOLEAN
  BY Zenon DEF Destroy
<1>3. pc' \in [Callers -> {"idle", "join", "asleep", "delete", "gone"}]
  BY PoolAssumption DEF Destroy, IInv, TPTypeOK
<1> QED
  BY <1>1, <1>2, <1>3, CallerStep DEF Destroy

(* Only the owner joins once the destructor has begun.                     *)
LEMMA JoinAlone ==
  ASSUME QuitInv, NEW c \in Callers, pc[c] = "join"
  PROVE  ~Deleting /\ (quits => c = Owner)
  BY PoolAssumption DEF QuitInv, Deleting

LEMMA JoinTestsInv == ASSUME IInv, NEW c \in Callers, JoinTests(c) PROVE IInv'
<1>0. /\ TPTypeOK /\ WorkerInv /\ QuitInv /\ PlaceInv /\ CountInv /\ NoIdleWorker /\ NeverBlocks
      /\ UNCHANGED <<freeWorkers, tasks, remaining, box, isDone, at, task, quits, scheduled, runs>>
      /\ remaining \in Nat
  BY DEF IInv, JoinTests, workVars, TPTypeOK
<1>1. ~Deleting /\ (quits => c = Owner)
  BY <1>0, JoinAlone DEF JoinTests
<1>2. remaining = 0 => tasks = <<>> /\ freeWorkers = Workers
  BY <1>1, NothingRemains
<1>3. ~blocked' /\ blocked' \in BOOLEAN
  <2>1. ~blocked'
    BY <1>0, <1>2 DEF JoinTests, NeverBlocks
  <2>2. blocked' \in BOOLEAN
    BY Zenon DEF JoinTests
  <2> QED
    BY <2>1, <2>2
<1>4. pc' \in [Callers -> {"idle", "join", "asleep", "delete", "gone"}]
  BY <1>0 DEF JoinTests, TPTypeOK
<1>5. Deleting' <=> quits /\ remaining = 0
  BY <1>0, <1>1, PoolAssumption DEF Deleting, JoinTests, TPTypeOK
<1>6. QuitInv'
  BY <1>0, <1>1, <1>2, <1>5, PoolAssumption DEF JoinTests, QuitInv, TPTypeOK
<1>7. TPTypeOK'
  BY <1>0, <1>3, <1>4 DEF TPTypeOK
<1>8. WorkerInv'
  BY <1>0, <1>1, <1>2, <1>5 DEF WorkerInv, IsFree, IsBusy, IsDeleted, Busy
<1>9. PlaceInv'
  BY <1>0 DEF PlaceInv, Holds, Queued
<1>10. CountInv'
  BY <1>0, <1>1 DEF CountInv, RemainingCounts, Busy, Deleting
<1> QED
  BY <1>0, <1>3, <1>6, <1>7, <1>8, <1>9, <1>10 DEF IInv, NoIdleWorker, NeverBlocks

LEMMA DeleteWorkerInv == ASSUME IInv, DeleteWorker PROVE IInv'
<1>0. /\ TPTypeOK /\ WorkerInv /\ QuitInv /\ PlaceInv /\ CountInv /\ NoIdleWorker /\ NeverBlocks
      /\ UNCHANGED <<tasks, remaining, isDone, task, pc, quits, scheduled, runs>>
      /\ Deleting /\ Deleting'
  BY DEF IInv, DeleteWorker, Deleting
<1>1. PICK w \in freeWorkers : /\ Put(w, STOP)
                               /\ blocked' = (blocked \/ box[w] # EMPTY)
                               /\ freeWorkers' = freeWorkers \ {w}
  BY DEF DeleteWorker
<1>2. w \in Workers /\ IsFree(w)
  BY <1>0, <1>1 DEF TPTypeOK, WorkerInv
<1>3. box' = [box EXCEPT ![w] = STOP] /\ at' = [at EXCEPT ![w] = "take"]
  BY <1>0, <1>1, <1>2 DEF Put, IsFree, TPTypeOK
<1>4. blocked' = FALSE
  <2>1. blocked' \in BOOLEAN
    BY <1>1, Zenon
  <2>2. ~blocked'
    BY <1>0, <1>1, <1>2 DEF NeverBlocks, IsFree
  <2> QED
    BY <2>1, <2>2, Zenon
<1>5. TPTypeOK'
  <2>1. blocked' \in BOOLEAN
    BY <1>4, Zenon
  <2> QED
    BY <1>0, <1>1, <1>2, <1>3, <2>1 DEF TPTypeOK
<1>6. WorkerInv'
  <2>1. IsDeleted(w)'
    BY <1>0, <1>2, <1>3 DEF IsDeleted, TPTypeOK
  <2>2. \A v \in Workers \ {w} : (IsFree(v) => IsFree(v)') /\ (IsDeleted(v) => IsDeleted(v)')
    BY <1>0, <1>2, <1>3 DEF IsFree, IsDeleted, TPTypeOK
  <2> QED
    BY <1>0, <1>1, <1>2, <2>1, <2>2 DEF WorkerInv, Busy, TPTypeOK
<1>7. PlaceInv'
  <2>1. \A t \in Tasks, v \in Workers : Holds(v, t)' <=> Holds(v, t)
    BY <1>0, <1>2, <1>3, TaskFact DEF Holds, IsFree, TPTypeOK
  <2>2. \A t : Queued(t)' <=> Queued(t)
    BY <1>0 DEF Queued
  <2>3. \A t \in 1..scheduled : t \in Tasks
    BY <1>0, PoolAssumption DEF TPTypeOK, Tasks
  <2> QED
    BY <1>0, <2>1, <2>2, <2>3 DEF PlaceInv
<1>8. QuitInv' /\ CountInv'
  BY <1>0 DEF QuitInv, CountInv, RemainingCounts, Deleting
<1>9. NoIdleWorker' /\ NeverBlocks'
  BY <1>0, <1>4 DEF NoIdleWorker, NeverBlocks, QuitInv
<1> QED
  BY <1>5, <1>6, <1>7, <1>8, <1>9 DEF IInv

LEMMA DestroyedInv == ASSUME IInv, Destroyed PROVE IInv'
<1>1. QuitInv' /\ (Deleting' <=> Deleting)
  BY PoolAssumption DEF IInv, TPTypeOK, QuitInv, Destroyed, Deleting
<1> QED
  BY <1>1, CallerStep DEF Destroyed, IInv, TPTypeOK

-----------------------------------------------------------------------------

LEMMA TakeInv == ASSUME IInv, NEW w \in Workers, Take(w) PROVE IInv'
<1>0. /\ TPTypeOK /\ WorkerInv /\ QuitInv /\ PlaceInv /\ CountInv /\ NoIdleWorker /\ NeverBlocks
      /\ UNCHANGED <<freeWorkers, tasks, remaining, isDone, pc, quits, scheduled, runs, blocked>>
      /\ at[w] = "take" /\ box' = [box EXCEPT ![w] = EMPTY]
      /\ (Deleting' <=> Deleting) /\ Busy' = Busy
  BY DEF IInv, Take, Deleting, Busy
<1>1. CASE box[w] \in Tasks
  <2>1. /\ at' = [at EXCEPT ![w] = "run"] /\ task' = [task EXCEPT ![w] = box[w]]
        /\ box[w] # EMPTY /\ box[w] # STOP
    BY <1>1, TaskFact DEF Take
  <2>2. TPTypeOK'
    BY <1>0, <1>1, <2>1 DEF TPTypeOK
  <2>3. WorkerInv'
    <3>1. w \in Busy /\ ~Deleting /\ IsBusy(w)
      BY <1>0, <1>1, <2>1 DEF WorkerInv, IsFree, IsDeleted, Busy
    <3>2. IsBusy(w)'
      BY <1>0, <1>1, <2>1, <3>1 DEF IsBusy, TPTypeOK
    <3>3. \A v \in Workers \ {w} : (IsFree(v) => IsFree(v)') /\ (IsBusy(v) => IsBusy(v)')
      BY <1>0, <2>1 DEF IsFree, IsBusy, TPTypeOK
    <3> QED
      BY <1>0, <3>1, <3>2, <3>3 DEF WorkerInv, Busy, TPTypeOK
  <2>4. PlaceInv'
    <3>1. \A t \in Tasks, v \in Workers : Holds(v, t)' <=> Holds(v, t)
      BY <1>0, <1>1, <2>1, TaskFact DEF Holds, TPTypeOK
    <3>2. \A t : Queued(t)' <=> Queued(t)
      BY <1>0 DEF Queued
    <3>3. \A t \in 1..scheduled : t \in Tasks
      BY <1>0, PoolAssumption DEF TPTypeOK, Tasks
    <3> QED
      BY <1>0, <3>1, <3>2, <3>3 DEF PlaceInv
  <2> QED
    BY <1>0, <2>2, <2>3, <2>4 DEF IInv, QuitInv, CountInv, RemainingCounts, NoIdleWorker,
       NeverBlocks, Deleting
<1>2. CASE box[w] \notin Tasks
  <2>1. /\ task' = [task EXCEPT ![w] = EMPTY]
        /\ box[w] = EMPTY => at' = [at EXCEPT ![w] = "asleep"]
        /\ box[w] = STOP => at' = [at EXCEPT ![w] = "end"]
        /\ box[w] = EMPTY \/ box[w] = STOP
    BY <1>0, <1>2, TaskFact DEF Take, TPTypeOK
  <2>2. TPTypeOK'
    BY <1>0, <2>1 DEF TPTypeOK
  <2>3. WorkerInv'
    <3>1. /\ w \in freeWorkers => box[w] = EMPTY /\ IsFree(w)
          /\ w \in Busy => Deleting /\ box[w] = STOP
      BY <1>0, <1>2, TaskFact DEF WorkerInv, IsFree, IsBusy, IsDeleted, Busy
    <3>2. w \in freeWorkers => IsFree(w)'
      BY <1>0, <2>1, <3>1 DEF IsFree, TPTypeOK
    <3>3. w \in Busy => IsDeleted(w)'
      BY <1>0, <2>1, <3>1 DEF IsDeleted, TPTypeOK
    <3>4. \A v \in Workers \ {w} : /\ IsFree(v) => IsFree(v)'
                                   /\ IsBusy(v) => IsBusy(v)'
                                   /\ IsDeleted(v) => IsDeleted(v)'
      BY <1>0, <2>1 DEF IsFree, IsBusy, IsDeleted, TPTypeOK
    <3> QED
      BY <1>0, <3>1, <3>2, <3>3, <3>4 DEF WorkerInv, Busy, TPTypeOK
  <2>4. PlaceInv'
    <3>1. \A t \in Tasks, v \in Workers : Holds(v, t)' <=> Holds(v, t)
      BY <1>0, <1>2, <2>1, TaskFact DEF Holds, TPTypeOK
    <3>2. \A t : Queued(t)' <=> Queued(t)
      BY <1>0 DEF Queued
    <3>3. \A t \in 1..scheduled : t \in Tasks
      BY <1>0, PoolAssumption DEF TPTypeOK, Tasks
    <3> QED
      BY <1>0, <3>1, <3>2, <3>3 DEF PlaceInv
  <2> QED
    BY <1>0, <2>2, <2>3, <2>4 DEF IInv, QuitInv, CountInv, RemainingCounts, NoIdleWorker,
       NeverBlocks, Deleting
<1> QED
  BY <1>1, <1>2

(* A worker that runs a task, or has run it, is busy.                      *)
LEMMA RunnerBusy ==
  ASSUME IInv, NEW w \in Workers, at[w] \in {"run", "ran"}
  PROVE  w \in Busy /\ ~Deleting /\ IsBusy(w)
  BY DEF IInv, WorkerInv, IsFree, IsDeleted, Busy

LEMMA RunsInv == ASSUME IInv, NEW w \in Workers, Runs(w) PROVE IInv'
<1> DEFINE n == task[w]
<1>0. /\ TPTypeOK /\ WorkerInv /\ QuitInv /\ PlaceInv /\ CountInv /\ NoIdleWorker /\ NeverBlocks
      /\ UNCHANGED <<freeWorkers, tasks, remaining, box, task, pc, quits, scheduled, blocked>>
      /\ at[w] = "run" /\ at' = [at EXCEPT ![w] = "ran"]
      /\ isDone' = [isDone EXCEPT ![w] = TRUE]
      /\ runs' = [runs EXCEPT ![n] = @ + 1]
      /\ (Deleting' <=> Deleting) /\ Busy' = Busy
  BY DEF IInv, Runs, Deleting, Busy
<1>1. w \in Busy /\ ~Deleting /\ box[w] = EMPTY /\ n \in Tasks
  BY <1>0, RunnerBusy DEF IsBusy
<1>2. TPTypeOK'
  BY <1>0, <1>1 DEF TPTypeOK
<1>3. WorkerInv'
  <2>1. IsBusy(w)'
    BY <1>0, <1>1 DEF IsBusy, TPTypeOK
  <2>2. \A v \in Workers \ {w} : (IsFree(v) => IsFree(v)') /\ (IsBusy(v) => IsBusy(v)')
    BY <1>0 DEF IsFree, IsBusy, TPTypeOK
  <2> QED
    BY <1>0, <1>1, <2>1, <2>2 DEF WorkerInv, Busy, TPTypeOK
<1>4. PlaceInv'
  <2>1. Holds(w, n) /\ ~Queued(n) /\ \A v \in Workers : Holds(v, n) => v = w
    BY <1>0, <1>1 DEF Holds, PlaceInv
  <2>2. n <= scheduled /\ runs[n] = 0 /\ n \in 1..scheduled
    BY <1>0, <1>1, <2>1 DEF PlaceInv, Tasks, TPTypeOK
  <2>3. \A t \in Tasks, v \in Workers : Holds(v, t)' <=> Holds(v, t) /\ t # n
    BY <1>0, <1>1, <2>1, TaskFact DEF Holds, TPTypeOK
  <2>4. \A t : Queued(t)' <=> Queued(t)
    BY <1>0 DEF Queued
  <2>5. \A t \in 1..scheduled : t \in Tasks
    BY <1>0, PoolAssumption DEF TPTypeOK, Tasks
  <2>6. \A t \in Tasks : runs'[t] = IF t = n THEN 1 ELSE runs[t]
    BY <1>0, <1>1, <2>2 DEF TPTypeOK
  <2>7. \A t \in Tasks : t > scheduled => t # n
    BY <2>2, <1>0 DEF Tasks, TPTypeOK
  <2> HIDE DEF n
  <2>8. \A t \in 1..scheduled :
          runs'[t] = IF Queued(t)' \/ \E v \in Workers : Holds(v, t)' THEN 0 ELSE 1
    BY <1>0, <1>1, <2>1, <2>2, <2>3, <2>4, <2>5, <2>6 DEF PlaceInv
  <2> QED
    BY <1>0, <2>3, <2>4, <2>5, <2>6, <2>7, <2>8 DEF PlaceInv
<1> QED
  BY <1>0, <1>2, <1>3, <1>4 DEF IInv, QuitInv, CountInv, RemainingCounts, NoIdleWorker,
     NeverBlocks, Deleting

(* What Notify leaves alone.                                               *)
LEMMA NotifyFact ==
  ASSUME TPTypeOK, QuitInv, NEW n, Notify(n), UNCHANGED quits
  PROVE  /\ pc' \in [Callers -> {"idle", "join", "asleep", "delete", "gone"}]
         /\ Deleting' <=> Deleting
         /\ quits' => \A c \in Callers \ {Owner} : pc'[c] = "idle"
         /\ \A c \in Callers : pc'[c] \in {"delete", "gone"} => quits'
<1>1. \A c \in Callers : /\ pc'[c] = pc[c] \/ (pc[c] = "asleep" /\ pc'[c] = "join")
                         /\ pc'[c] \in {"idle", "join", "asleep", "delete", "gone"}
  BY DEF Notify, TPTypeOK
<1> QED
  BY <1>1, PoolAssumption DEF Notify, Deleting, QuitInv

(* The worker takes the next task from the queue.                          *)
LEMMA DoneNext ==
  ASSUME IInv, NEW w \in Workers, TaskDone(w), tasks # <<>>
  PROVE  IInv'
<1> DEFINE n == Head(tasks)
<1>0. /\ TPTypeOK /\ WorkerInv /\ QuitInv /\ PlaceInv /\ CountInv /\ NoIdleWorker /\ NeverBlocks
      /\ at[w] = "ran" /\ at' = [at EXCEPT ![w] = "take"]
      /\ remaining' = remaining - 1 /\ tasks' = Tail(tasks)
      /\ box' = [box EXCEPT ![w] = n] /\ isDone' = [isDone EXCEPT ![w] = FALSE]
      /\ blocked' = (blocked \/ ~isDone[w] \/ box[w] # EMPTY)
      /\ Notify(remaining')
      /\ UNCHANGED <<freeWorkers, task, quits, scheduled, runs>>
      /\ Busy' = Busy
  BY DEF IInv, TaskDone, Busy
<1>1. w \in Busy /\ ~Deleting /\ box[w] = EMPTY /\ isDone[w]
  BY <1>0, RunnerBusy DEF IsBusy
<1>2. /\ pc' \in [Callers -> {"idle", "join", "asleep", "delete", "gone"}] /\ ~Deleting'
      /\ quits' => \A c \in Callers \ {Owner} : pc'[c] = "idle"
      /\ \A c \in Callers : pc'[c] \in {"delete", "gone"} => quits'
  BY <1>0, <1>1, NotifyFact
<1>3. /\ n \in Tasks /\ tasks' \in Seq(Tasks) /\ Len(tasks) \in Nat /\ Len(tasks) > 0
      /\ Len(tasks') = Len(tasks) - 1 /\ n = tasks[1]
      /\ \A i \in 1..Len(tasks') : tasks'[i] = tasks[i + 1]
  BY <1>0, HeadTailProperties, EmptySeq DEF TPTypeOK
<1>4. Cardinality(Busy) \in Nat /\ remaining = Len(tasks) + Cardinality(Busy)
  BY <1>0, <1>1, BusyFinite DEF TPTypeOK, CountInv, RemainingCounts, Deleting
<1>5. ~blocked' /\ blocked' \in BOOLEAN
  <2>1. blocked' \in BOOLEAN
    BY <1>0, Zenon
  <2> QED
    BY <1>0, <1>1, <2>1 DEF NeverBlocks
<1>6. TPTypeOK'
  <2>1. remaining' \in 0..MaxTasks
    BY <1>0, <1>3, <1>4, PoolAssumption DEF TPTypeOK
  <2>2. box' \in [Workers -> {EMPTY, STOP} \cup Tasks] /\ isDone' \in [Workers -> BOOLEAN]
    BY <1>0, <1>3 DEF TPTypeOK
  <2> QED
    BY <1>0, <1>2, <1>3, <1>5, <2>1, <2>2 DEF TPTypeOK
<1>7. WorkerInv'
  <2>1. IsBusy(w)'
    BY <1>0, <1>3 DEF IsBusy, TPTypeOK
  <2>2. \A v \in Workers \ {w} : (IsFree(v) => IsFree(v)') /\ (IsBusy(v) => IsBusy(v)')
    BY <1>0 DEF IsFree, IsBusy, TPTypeOK
  <2> QED
    BY <1>0, <1>1, <1>2, <2>1, <2>2 DEF WorkerInv, Busy, TPTypeOK
<1>8. PlaceInv'
  <2> HIDE DEF n
  <2>1. Queued(n) /\ \A v \in Workers : ~Holds(v, n)
    BY <1>0, <1>3 DEF Queued, PlaceInv
  <2>2. \A t \in Tasks, v \in Workers : Holds(v, t)' <=> Holds(v, t) \/ (v = w /\ t = n)
    BY <1>0, <1>1, <1>3, TaskFact DEF Holds, TPTypeOK
  <2>3. \A i, j \in 1..Len(tasks') : tasks'[i] = tasks'[j] => i = j
    BY <1>0, <1>3 DEF PlaceInv
  <2>4. \A t : Queued(t)' <=> Queued(t) /\ t # n
    <3> SUFFICES ASSUME NEW t PROVE Queued(t)' <=> Queued(t) /\ t # n
      OBVIOUS
    <3>1. ASSUME Queued(t)' PROVE Queued(t) /\ t # n
      <4>1. PICK i \in 1..Len(tasks') : tasks'[i] = t
        BY <3>1 DEF Queued
      <4>2. i + 1 \in 1..Len(tasks) /\ tasks[i + 1] = t /\ 1 \in 1..Len(tasks) /\ i + 1 # 1
        BY <1>3, <4>1
      <4> QED
        BY <1>0, <1>3, <4>2 DEF Queued, PlaceInv
    <3>2. ASSUME Queued(t), t # n PROVE Queued(t)'
      <4>1. PICK i \in 1..Len(tasks) : tasks[i] = t
        BY <3>2 DEF Queued
      <4>2. i # 1
        BY <1>3, <3>2, <4>1
      <4>3. i - 1 \in 1..Len(tasks') /\ tasks'[i - 1] = t
        BY <1>3, <4>1, <4>2
      <4> QED
        BY <4>3 DEF Queued
    <3> QED
      BY <3>1, <3>2
  <2>5. \A t \in 1..scheduled : t \in Tasks
    BY <1>0, PoolAssumption DEF TPTypeOK, Tasks
  <2>6. \A t \in Tasks : t > scheduled => t # n
    BY <1>0, <1>3, <2>1 DEF PlaceInv
  <2> QED
    BY <1>0, <1>3, <2>1, <2>2, <2>3, <2>4, <2>5, <2>6 DEF PlaceInv
<1>9. QuitInv' /\ CountInv'
  <2>1. scheduled \in Nat
    BY <1>0 DEF TPTypeOK
  <2> QED
    BY <1>0, <1>1, <1>2, <1>3, <1>4, <2>1 DEF QuitInv, CountInv, RemainingCounts
<1>10. NoIdleWorker' /\ NeverBlocks'
  BY <1>0, <1>5 DEF NoIdleWorker, NeverBlocks
<1> QED
  BY <1>6, <1>7, <1>8, <1>9, <1>10 DEF IInv

(* The queue is empty: the worker is free again.                           *)
LEMMA DoneFree ==
  ASSUME IInv, NEW w \in Workers, TaskDone(w), tasks = <<>>
  PROVE  IInv'
<1>0. /\ TPTypeOK /\ WorkerInv /\ QuitInv /\ PlaceInv /\ CountInv /\ NoIdleWorker /\ NeverBlocks
      /\ at[w] = "ran" /\ at' = [at EXCEPT ![w] = "take"]
      /\ remaining' = remaining - 1
      /\ freeWorkers' = freeWorkers \cup {w}
      /\ Notify(remaining')
      /\ UNCHANGED <<tasks, box, isDone, blocked, task, quits, scheduled, runs>>
  BY DEF IInv, TaskDone
<1>1. w \in Busy /\ ~Deleting /\ box[w] = EMPTY /\ isDone[w]
  BY <1>0, RunnerBusy DEF IsBusy
<1>2. /\ pc' \in [Callers -> {"idle", "join", "asleep", "delete", "gone"}] /\ ~Deleting'
      /\ quits' => \A c \in Callers \ {Owner} : pc'[c] = "idle"
      /\ \A c \in Callers : pc'[c] \in {"delete", "gone"} => quits'
  BY <1>0, <1>1, NotifyFact
<1>3. /\ Cardinality(Busy) \in Nat /\ IsFiniteSet(Busy) /\ Len(tasks) = 0
      /\ remaining = Cardinality(Busy)
  BY <1>0, <1>1, BusyFinite DEF TPTypeOK, CountInv, RemainingCounts, Deleting
<1>4. Busy' = Busy \ {w}
  BY <1>0 DEF Busy
<1>5. Cardinality(Busy') = Cardinality(Busy) - 1 /\ Cardinality(Busy') \in Nat
  <2>1. Cardinality(Busy') = Cardinality(Busy) - 1 /\ IsFiniteSet(Busy')
    BY <1>1, <1>3, <1>4, FS_RemoveElement
  <2> QED
    BY <2>1, FS_CardinalityType
<1>6. TPTypeOK'
  <2>1. remaining' \in 0..MaxTasks
    BY <1>0, <1>3, <1>5, PoolAssumption DEF TPTypeOK
  <2> QED
    BY <1>0, <1>2, <2>1 DEF TPTypeOK
<1>7. WorkerInv'
  <2>1. IsFree(w)'
    BY <1>0, <1>1 DEF IsFree, TPTypeOK
  <2>2. \A v \in Workers \ {w} : (IsFree(v) => IsFree(v)') /\ (IsBusy(v) => IsBusy(v)')
    BY <1>0 DEF IsFree, IsBusy, TPTypeOK
  <2> QED
    BY <1>0, <1>1, <1>2, <2>1, <2>2 DEF WorkerInv, Busy, TPTypeOK
<1>8. PlaceInv'
  <2>1. \A t \in Tasks, v \in Workers : Holds(v, t)' <=> Holds(v, t)
    BY <1>0, <1>1 DEF Holds, TPTypeOK
  <2>2. \A t : Queued(t)' <=> Queued(t)
    BY <1>0 DEF Queued
  <2>3. \A t \in 1..scheduled : t \in Tasks
    BY <1>0, PoolAssumption DEF TPTypeOK, Tasks
  <2> QED
    BY <1>0, <2>1, <2>2, <2>3 DEF PlaceInv
<1>9. QuitInv' /\ CountInv'
  <2>1. scheduled \in Nat
    BY <1>0 DEF TPTypeOK
  <2> QED
    BY <1>0, <1>1, <1>2, <1>3, <1>5, <2>1 DEF QuitInv, CountInv, RemainingCounts
<1> QED
  BY <1>0, <1>6, <1>7, <1>8, <1>9 DEF IInv, NoIdleWorker, NeverBlocks

-----------------------------------------------------------------------------

LEMMA StutterInv == ASSUME IInv, UNCHANGED vars PROVE IInv'
  BY CallerStep DEF vars, IInv, TPTypeOK, QuitInv, Deleting

LEMMA NextInv == ASSUME IInv, [Next]_vars PROVE IInv'
<1>1. ASSUME NEW c \in Callers, CallerSchedules(c) PROVE IInv'
  <2>1. ~Deleting
    BY <1>1, PoolAssumption DEF CallerSchedules, IInv, QuitInv, Deleting
  <2> QED
    BY <1>1, <2>1, ScheduleInv DEF CallerSchedules
<1>2. ASSUME NEW w \in Workers, TaskSchedules(w) PROVE IInv'
  BY <1>2, RunnerBusy, ScheduleInv DEF TaskSchedules
<1>3. ASSUME NEW c \in Callers, Joins(c) PROVE IInv'
  BY <1>3, JoinTestsInv, DeleteWorkerInv, DestroyedInv DEF Joins
<1>4. ASSUME NEW w \in Workers, Works(w) PROVE IInv'
  BY <1>4, TakeInv, RunsInv, DoneNext, DoneFree DEF Works
<1> QED
  BY <1>1, <1>2, <1>3, <1>4, JoinInv, DestroyInv, StutterInv DEF Next

LEMMA InvInductive == Spec => []IInv
<1>1. Init => IInv
  BY InitInv
<1>2. IInv /\ [Next]_vars => IInv'
  BY NextInv
<1> QED
  BY <1>1, <1>2, PTL DEF Spec

-----------------------------------------------------------------------------

LEMMA PlacesCounted == ASSUME IInv PROVE OnePlace
<1>0. TPTypeOK /\ PlaceInv
  BY DEF IInv
<1> SUFFICES ASSUME NEW t \in 1..scheduled
             PROVE  runs[t] + Cardinality({i \in 1..Len(tasks) : tasks[i] = t})
                            + Cardinality({w \in Workers : Holds(w, t)}) = 1
  BY DEF OnePlace, Holds
<1> DEFINE Q == {i \in 1..Len(tasks) : tasks[i] = t}
           H == {w \in Workers : Holds(w, t)}
<1>1. t \in Tasks
  BY <1>0, PoolAssumption DEF TPTypeOK, Tasks
<1>2. Cardinality(Q) = IF Queued(t) THEN 1 ELSE 0
  <2>1. CASE Queued(t)
    <3>1. PICK i \in 1..Len(tasks) : tasks[i] = t
      BY <2>1 DEF Queued
    <3>2. Q = {i}
      BY <1>0, <3>1 DEF PlaceInv
    <3> QED
      BY <2>1, <3>2, FS_Singleton
  <2>2. CASE ~Queued(t)
    <3>1. Q = {}
      BY <2>2 DEF Queued
    <3> QED
      BY <2>2, <3>1, FS_EmptySet
  <2> QED
    BY <2>1, <2>2
<1>3. Cardinality(H) = IF \E w \in Workers : Holds(w, t) THEN 1 ELSE 0
  <2>1. ASSUME NEW w \in Workers, Holds(w, t) PROVE Cardinality(H) = 1
    <3>1. H = {w}
      BY <1>0, <1>1, <2>1 DEF PlaceInv
    <3> QED
      BY <3>1, FS_Singleton
  <2>2. CASE ~ \E w \in Workers : Holds(w, t)
    <3>1. H = {}
      BY <2>2
    <3> QED
      BY <2>2, <3>1, FS_EmptySet
  <2> QED
    BY <2>1, <2>2
<1>4. runs[t] = IF Queued(t) \/ \E w \in Workers : Holds(w, t) THEN 0 ELSE 1
  BY <1>0 DEF PlaceInv
<1>5. ~(Queued(t) /\ \E w \in Workers : Holds(w, t))
  BY <1>0, <1>1 DEF PlaceInv
<1> HIDE DEF Q, H
<1>6. runs[t] + Cardinality(Q) + Cardinality(H) = 1
  BY <1>2, <1>3, <1>4, <1>5
<1> QED
  BY <1>6 DEF Q, H

(* Every task that was scheduled is in the queue, with one worker, or has  *)
(* run once; _tasksRemaining counts the queue and the busy workers         *)
(* (ThreadPool::schedule and task_done, thread_pool.cpp:108-136).          *)
THEOREM TasksAccounted == Spec => []Accounted
<1>1. IInv => Accounted
  BY PlacesCounted DEF IInv, CountInv, Accounted
<1> QED
  BY <1>1, InvInductive, PTL

(* No worker is free while a task waits in the queue.                      *)
THEOREM NoWorkerIdles == Spec => []NoIdleWorker
<1>1. IInv => NoIdleWorker
  BY DEF IInv
<1> QED
  BY <1>1, InvInductive, PTL

(* No assert of the pool fails and no MVar::put waits, in set_task, in the *)
(* destructor of the pool or in that of a worker.                          *)
THEOREM PutNeverBlocks == Spec => []NeverBlocks
<1>1. IInv => NeverBlocks
  BY DEF IInv
<1> QED
  BY <1>1, InvInductive, PTL

(* When join returns, every task scheduled by then has run, once.          *)
THEOREM JoinWaitsForAll == Spec => JoinMeansDone
<1> DEFINE A == \A c \in Callers : pc[c] = "join" /\ pc'[c] \in {"idle", "delete"}
                  => \A t \in 1..scheduled : runs[t] = 1
<1>1. IInv /\ [Next]_vars => [A]_vars
  <2> SUFFICES ASSUME IInv, Next, NEW c \in Callers, pc[c] = "join", pc'[c] \in {"idle", "delete"}
               PROVE  \A t \in 1..scheduled : runs[t] = 1
    BY Zenon
  <2>1. TPTypeOK /\ QuitInv /\ remaining \in Nat
    BY DEF IInv, TPTypeOK
  <2>2. ~Deleting
    BY <2>1, JoinAlone
  <2>3. JoinTests(c)
    <3>1. ASSUME NEW d \in Callers, CallerSchedules(d) \/ Join(d) PROVE pc'[c] = pc[c]
      BY <2>1, <3>1 DEF CallerSchedules, Schedule, Join, TPTypeOK
    <3>2. ASSUME NEW d \in Callers, Joins(d), ~JoinTests(c) PROVE pc'[c] = pc[c]
      <4>1. CASE JoinTests(d)
        BY <2>1, <3>2, <4>1 DEF JoinTests, TPTypeOK
      <4>2. CASE DeleteWorker \/ Destroyed
        BY <2>2, <4>2 DEF DeleteWorker, Destroyed, Deleting
      <4> QED
        BY <3>2, <4>1, <4>2 DEF Joins
    <3>3. ASSUME NEW w \in Workers, TaskSchedules(w) \/ Works(w) PROVE pc'[c] = pc[c]
      BY <2>1, <3>3 DEF TaskSchedules, Schedule, Works, Take, Runs, TaskDone, Notify, TPTypeOK
    <3>4. ~Destroy
      BY DEF Destroy
    <3> QED
      BY <3>1, <3>2, <3>3, <3>4 DEF Next
  <2>4. remaining = 0
    BY <2>1, <2>3 DEF JoinTests, TPTypeOK
  <2> QED
    BY <2>2, <2>4, NothingRemains
<1> QED
  BY <1>1, InvInductive, PTL DEF Spec, JoinMeansDone

=============================================================================
