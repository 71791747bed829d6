----------------------------- MODULE ThreadPool -----------------------------
(***************************************************************************)
(* ThreadPool (util/concurrency/thread_pool.cpp) and the MVar of each of   *)
(* its workers (mvar.h).  Callers and running tasks schedule tasks, callers*)
(* join, and one of them destroys the pool in the end.  A task is known by *)
(* its number; whether it throws makes no difference.  Which free worker   *)
(* gets a task makes none either: the stack of them is a set.              *)
(***************************************************************************)
EXTENDS Naturals, Sequences, FiniteSets, SequencesExt

CONSTANTS
    Workers, Callers,
    Owner,      \* the caller that destroys the pool
    MaxTasks    \* bound: tasks ever scheduled

ASSUME PoolAssumption ==
    /\ Owner \in Callers /\ MaxTasks \in Nat
    /\ IsFiniteSet(Workers) /\ Workers # {}

VARIABLES
    freeWorkers,  \* _freeWorkers
    tasks,        \* _tasks
    remaining,    \* _tasksRemaining
    box,          \* worker -> its MVar: EMPTY, a task, or STOP for Task()
    isDone,       \* worker -> _is_done
    at,           \* worker -> "take", "asleep" in take(), "run", "ran", "end"
    task,         \* worker -> the task it runs
    pc,           \* caller -> "idle", "join", "asleep" in it, "delete", "gone"
    quits,        \* the destructor has been called
    scheduled,    \* tasks scheduled so far
    runs,         \* history: task -> how often it has run
    blocked       \* history: an assert failed, or put() found a full MVar

workVars == <<box, isDone, at, task>>
vars == <<freeWorkers, tasks, remaining, workVars, pc, quits, scheduled, runs, blocked>>

Tasks == 1..MaxTasks
EMPTY == 0
STOP  == MaxTasks + 1

TPTypeOK ==
    /\ freeWorkers \subseteq Workers
    /\ tasks \in Seq(Tasks)
    /\ remaining \in 0..MaxTasks
    /\ box \in [Workers -> {EMPTY, STOP} \cup Tasks]
    /\ isDone \in [Workers -> BOOLEAN]
    /\ at \in [Workers -> {"take", "asleep", "run", "ran", "end"}]
    /\ task \in [Workers -> {EMPTY} \cup Tasks]
    /\ pc \in [Callers -> {"idle", "join", "asleep", "delete", "gone"}]
    /\ quits \in BOOLEAN
    /\ scheduled \in 0..MaxTasks
    /\ runs \in [Tasks -> Nat]
    /\ blocked \in BOOLEAN

Init ==
    /\ freeWorkers = Workers
    /\ tasks = <<>> /\ remaining = 0
    /\ box = [w \in Workers |-> EMPTY]
    /\ isDone = [w \in Workers |-> TRUE]
    /\ at = [w \in Workers |-> "take"]
    /\ task = [w \in Workers |-> EMPTY]
    /\ pc = [c \in Callers |-> "idle"]
    /\ quits = FALSE
    /\ scheduled = 0
    /\ runs = [t \in Tasks |-> 0]
    /\ blocked = FALSE

-----------------------------------------------------------------------------

(* MVar::put, which wakes a take().                                        *)
Put(w, v) ==
    /\ box' = [box EXCEPT ![w] = v]
    /\ at' = [at EXCEPT ![w] = IF @ = "asleep" THEN "take" ELSE @]

(* Worker::set_task; callers schedule no empty Task (assert, line 43).     *)
SetTask(w, t) ==
    /\ blocked' = (blocked \/ ~isDone[w] \/ box[w] # EMPTY)
    /\ isDone' = [isDone EXCEPT ![w] = FALSE]
    /\ Put(w, t)
    /\ UNCHANGED task

(* ThreadPool::schedule, under _mutex.                                     *)
Schedule ==
    /\ scheduled < MaxTasks
    /\ scheduled' = scheduled + 1
    /\ remaining' = remaining + 1
    /\ \/ \E w \in freeWorkers :
             /\ SetTask(w, scheduled')
             /\ freeWorkers' = freeWorkers \ {w}
             /\ UNCHANGED tasks
       \/ /\ freeWorkers = {}
          /\ tasks' = Append(tasks, scheduled')
          /\ UNCHANGED <<freeWorkers, workVars, blocked>>
    /\ UNCHANGED <<pc, quits, runs>>

CallerSchedules(c) == pc[c] = "idle" /\ ~quits /\ Schedule
TaskSchedules(w) == at[w] = "run" /\ Schedule

(* join, under _mutex; the destructor begins with one.                     *)
Join(c) ==
    /\ pc[c] = "idle" /\ ~quits
    /\ pc' = [pc EXCEPT ![c] = "join"]
    /\ UNCHANGED <<freeWorkers, tasks, remaining, workVars, quits, scheduled, runs, blocked>>

Destroy ==
    /\ \A c \in Callers : pc[c] = "idle"
    /\ ~quits
    /\ quits' = TRUE
    /\ pc' = [pc EXCEPT ![Owner] = "join"]
    /\ UNCHANGED <<freeWorkers, tasks, remaining, workVars, scheduled, runs, blocked>>

(* Mutant of JoinTests: an empty queue is enough.                          *)
JoinTestsQueue(c) ==
    /\ pc[c] = "join"
    /\ pc' = [pc EXCEPT ![c] = IF tasks # <<>> THEN "asleep" ELSE IF quits THEN "delete" ELSE "idle"]
    /\ UNCHANGED <<freeWorkers, tasks, remaining, workVars, quits, scheduled, runs, blocked>>

JoinTests(c) ==
    /\ pc[c] = "join"
    /\ pc' = [pc EXCEPT ![c] = IF remaining > 0 THEN "asleep" ELSE IF quits THEN "delete" ELSE "idle"]
    /\ blocked' = (blocked \/ (quits /\ remaining = 0 /\ (tasks # <<>> \/ freeWorkers # Workers)))
    /\ UNCHANGED <<freeWorkers, tasks, remaining, workVars, quits, scheduled, runs>>

(* ~Worker for the next one: an empty task ends its thread, which is       *)
(* joined; then the pool is gone.                                          *)
DeleteWorker ==
    /\ pc[Owner] = "delete"
    /\ \E w \in freeWorkers :
          /\ \A v \in Workers \ freeWorkers : at[v] = "end"
          /\ Put(w, STOP)
          /\ blocked' = (blocked \/ box[w] # EMPTY)
          /\ freeWorkers' = freeWorkers \ {w}
    /\ UNCHANGED <<tasks, remaining, isDone, task, pc, quits, scheduled, runs>>

Destroyed ==
    /\ pc[Owner] = "delete" /\ freeWorkers = {} /\ \A w \in Workers : at[w] = "end"
    /\ pc' = [pc EXCEPT ![Owner] = "gone"]
    /\ UNCHANGED <<freeWorkers, tasks, remaining, workVars, quits, scheduled, runs, blocked>>

-----------------------------------------------------------------------------
(* Worker::loop.                                                           *)

(* MVar::take.                                                             *)
Take(w) ==
    /\ at[w] = "take"
    /\ at' = [at EXCEPT ![w] = CASE box[w] = EMPTY -> "asleep"
                                 [] box[w] = STOP  -> "end"
                                 [] OTHER          -> "run"]
    /\ task' = [task EXCEPT ![w] = IF box[w] \in Tasks THEN box[w] ELSE EMPTY]
    /\ box' = [box EXCEPT ![w] = EMPTY]
    /\ UNCHANGED <<freeWorkers, tasks, remaining, isDone, pc, quits, scheduled, runs, blocked>>

(* Mutant of Runs: _is_done is not set again.                              *)
RunsUndone(w) ==
    /\ at[w] = "run"
    /\ runs' = [runs EXCEPT ![task[w]] = @ + 1]
    /\ at' = [at EXCEPT ![w] = "ran"]
    /\ UNCHANGED <<freeWorkers, tasks, remaining, box, isDone, task, pc, quits, scheduled, blocked>>

(* The task ends, by itself or by an exception.                            *)
Runs(w) ==
    /\ at[w] = "run"
    /\ runs' = [runs EXCEPT ![task[w]] = @ + 1]
    /\ isDone' = [isDone EXCEPT ![w] = TRUE]
    /\ at' = [at EXCEPT ![w] = "ran"]
    /\ UNCHANGED <<freeWorkers, tasks, remaining, box, task, pc, quits, scheduled, blocked>>

(* Mutant of Notify: notify_one.                                           *)
NotifyOne(n) ==
    \/ n = 0 /\ \E c \in Callers : pc[c] = "asleep" /\ pc' = [pc EXCEPT ![c] = "join"]
    \/ (n > 0 \/ ~ \E c \in Callers : pc[c] = "asleep") /\ UNCHANGED pc

(* notify_all, when the last task is done.                                 *)
Notify(n) ==
    pc' = [c \in Callers |-> IF n = 0 /\ pc[c] = "asleep" THEN "join" ELSE pc[c]]

(* Mutant of TaskDone: the queue is left alone.                            *)
TaskDoneIdle(w) ==
    /\ at[w] = "ran"
    /\ remaining' = remaining - 1
    /\ freeWorkers' = freeWorkers \cup {w}
    /\ at' = [at EXCEPT ![w] = "take"]
    /\ Notify(remaining')
    /\ UNCHANGED <<tasks, isDone, box, blocked, task, quits, scheduled, runs>>

(* Mutant of TaskDone: the task stays in the queue.                        *)
TaskDoneKept(w) ==
    /\ at[w] = "ran"
    /\ remaining' = remaining - 1
    /\ \/ /\ tasks # <<>>
          /\ box' = [box EXCEPT ![w] = Head(tasks)]
          /\ isDone' = [isDone EXCEPT ![w] = FALSE]
          /\ UNCHANGED <<tasks, freeWorkers>>
       \/ /\ tasks = <<>>
          /\ freeWorkers' = freeWorkers \cup {w}
          /\ UNCHANGED <<tasks, box, isDone>>
    /\ at' = [at EXCEPT ![w] = "take"]
    /\ Notify(remaining')
    /\ UNCHANGED <<blocked, task, quits, scheduled, runs>>

(* ThreadPool::task_done, under _mutex, and back to take().                *)
TaskDone(w) ==
    /\ at[w] = "ran"
    /\ remaining' = remaining - 1
    /\ \/ /\ tasks # <<>>
          /\ blocked' = (blocked \/ ~isDone[w] \/ box[w] # EMPTY)
          /\ box' = [box EXCEPT ![w] = Head(tasks)]
          /\ isDone' = [isDone EXCEPT ![w] = FALSE]
          /\ tasks' = Tail(tasks)
          /\ UNCHANGED freeWorkers
       \/ /\ tasks = <<>>
          /\ freeWorkers' = freeWorkers \cup {w}
          /\ UNCHANGED <<tasks, isDone, box, blocked>>
    /\ at' = [at EXCEPT ![w] = "take"]
    /\ Notify(remaining')
    /\ UNCHANGED <<task, quits, scheduled, runs>>

-----------------------------------------------------------------------------

Works(w) == Take(w) \/ Runs(w) \/ TaskDone(w)
Joins(c) == JoinTests(c) \/ (c = Owner /\ (DeleteWorker \/ Destroyed))

Next ==
    \/ \E c \in Callers : CallerSchedules(c) \/ Join(c) \/ Joins(c)
    \/ \E w \in Workers : TaskSchedules(w) \/ Works(w)
    \/ Destroy

Spec == Init /\ [][Next]_vars

(* Threads run, and tasks end.                                             *)
FairSpec ==
    /\ Spec
    /\ \A w \in Workers : WF_vars(Works(w))
    /\ \A c \in Callers : WF_vars(Joins(c))

-----------------------------------------------------------------------------
(* Properties.                                                             *)

Busy == Workers \ freeWorkers

(* _tasksRemaining is what it says, "in queue + currently processing"      *)
(* (thread_pool.h:70): the workers that are not free each have a task.     *)
RemainingCounts == pc[Owner] # "delete" /\ pc[Owner] # "gone" =>
    remaining = Len(tasks) + Cardinality(Busy)

(* A task is scheduled once and runs once: it is in the queue, with one    *)
(* worker, or has run (thread_pool.cpp:108-132).                           *)
OnePlace ==
    \A t \in 1..scheduled :
        runs[t] + Cardinality({i \in 1..Len(tasks) : tasks[i] = t})
                + Cardinality({w \in Workers : box[w] = t \/ (at[w] = "run" /\ task[w] = t)}) = 1

(* Every task is accounted for, with the types of the variables.           *)
Accounted == TPTypeOK /\ OnePlace /\ RemainingCounts

(* No worker is free while a task waits (thread_pool.cpp:113-119, :126-132).*)
NoIdleWorker == tasks # <<>> => freeWorkers = {}

(* No assert of Worker and ThreadPool fails, and no put() waits - it would *)
(* do so with the mutex of the pool (thread_pool.cpp:42-48, :90-93).       *)
NeverBlocks == ~blocked

(* When join returns, every task scheduled by then has run.                *)
JoinMeansDone ==
    [][\A c \in Callers : pc[c] = "join" /\ pc'[c] \in {"idle", "delete"}
          => \A t \in 1..scheduled : runs[t] = 1]_vars

(* join and the destructor return when no more tasks come                  *)
(* (thread_pool.cpp:87-106).                                               *)
JoinReturns == \A c \in Callers : pc[c] \in {"join", "asleep", "delete"} ~> pc[c] \in {"idle", "gone"}

=============================================================================
