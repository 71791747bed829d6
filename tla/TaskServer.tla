----------------------------- MODULE TaskServer -----------------------------
(***************************************************************************)
(* task::Server (util/concurrency/task.cpp, msg.h): a thread that runs the *)
(* messages others send or call.  A message is known by its number in the  *)
(* order of arrival; what it does is to return or throw, after asking, or  *)
(* not, to be requeued.  call() waits on a Ret in its own frame, which the *)
(* server's thread writes to without the mutex of that Ret.                *)
(***************************************************************************)
EXTENDS Naturals, Sequences, SequencesExt

CONSTANTS
    Callers,
    MaxMsgs,   \* bound: messages
    MaxAsks    \* bound: calls of requeue()

ASSUME ServerAssumption == MaxMsgs \in Nat /\ MaxAsks \in Nat

VARIABLES
    d,         \* the deque
    at,        \* the server's thread: "test", "asleep", "run", "done", "notify", "after"
    f,         \* the message it runs
    rq,        \* rq
    pc,        \* caller -> "idle", "notify" in send, "check", "towait", "waiting" in call
    msg,       \* caller -> the message it sends
    sent,      \* messages so far
    calls,     \* those of them that are calls
    done,      \* calls whose Ret::done is set
    frames,    \* calls whose Ret is in scope
    missed,    \* history: calls whose notify_one came before the wait
    ended,     \* history: messages that have run to their end
    threw,     \* history: messages that threw
    runs,      \* history: message -> how often it has run
    asked,     \* history: message -> how often it asked to be requeued
    stray,     \* history: a message asked, and threw: rq is left for the next
    touched    \* history: a Ret was used after its frame had gone

retVars  == <<done, frames, missed>>
histVars == <<ended, threw, runs, asked, stray>>
vars == <<d, at, f, rq, pc, msg, sent, calls, retVars, histVars, touched>>

Msgs == 1..MaxMsgs

TSTypeOK ==
    /\ d \in Seq(Msgs) /\ rq \in BOOLEAN
    /\ at \in {"test", "asleep", "run", "done", "notify", "after"}
    /\ at \in {"run", "done", "notify", "after"} => f \in 1..sent
    /\ pc \in [Callers -> {"idle", "notify", "check", "towait", "waiting"}]
    /\ msg \in [Callers -> 0..sent]
    /\ sent \in 0..MaxMsgs /\ calls \subseteq 1..sent
    /\ done \subseteq calls /\ frames \subseteq calls

Init ==
    /\ d = <<>> /\ at = "test" /\ f = 0 /\ rq = FALSE
    /\ pc = [c \in Callers |-> "idle"]
    /\ msg = [c \in Callers |-> 0]
    /\ sent = 0 /\ calls = {} /\ done = {} /\ frames = {} /\ missed = {}
    /\ ended = {} /\ threw = {} /\ stray = FALSE /\ touched = FALSE
    /\ runs = [m \in Msgs |-> 0]
    /\ asked = [m \in Msgs |-> 0]

-----------------------------------------------------------------------------
(* A caller.                                                               *)

(* send() pushes under the mutex; call() sends a bound Ret::f.             *)
Push(c) ==
    /\ pc[c] = "idle" /\ sent < MaxMsgs
    /\ sent' = sent + 1
    /\ d' = Append(d, sent')
    /\ msg' = [msg EXCEPT ![c] = sent']
    /\ \/ calls' = calls \cup {sent'} /\ frames' = frames \cup {sent'}
       \/ UNCHANGED <<calls, frames>>
    /\ pc' = [pc EXCEPT ![c] = "notify"]
    /\ UNCHANGED <<at, f, rq, done, missed, histVars, touched>>

(* Mutant of SendNotifies: nobody is told.                                 *)
SendNotifiesNobody(c) ==
    /\ pc[c] = "notify"
    /\ pc' = [pc EXCEPT ![c] = IF msg[c] \in calls THEN "check" ELSE "idle"]
    /\ UNCHANGED <<d, at, f, rq, msg, sent, calls, retVars, histVars, touched>>

(* c.notify_one(), after the mutex.                                        *)
SendNotifies(c) ==
    /\ pc[c] = "notify"
    /\ at' = IF at = "asleep" THEN "test" ELSE at
    /\ pc' = [pc EXCEPT ![c] = IF msg[c] \in calls THEN "check" ELSE "idle"]
    /\ UNCHANGED <<d, f, rq, msg, sent, calls, retVars, histVars, touched>>

(* while( !r.done ) r.c.wait(lk): the test, and the wait.                  *)
CallChecks(c) ==
    /\ pc[c] = "check"
    /\ \/ msg[c] \in done /\ frames' = frames \ {msg[c]} /\ pc' = [pc EXCEPT ![c] = "idle"]
       \/ msg[c] \notin done /\ pc' = [pc EXCEPT ![c] = "towait"] /\ UNCHANGED frames
    /\ UNCHANGED <<d, at, f, rq, msg, sent, calls, done, missed, histVars, touched>>

CallWaits(c) ==
    /\ pc[c] = "towait"
    /\ pc' = [pc EXCEPT ![c] = "waiting"]
    /\ UNCHANGED <<d, at, f, rq, msg, sent, calls, retVars, histVars, touched>>

-----------------------------------------------------------------------------
(* Server::doWork.                                                         *)

TakeMessage ==
    /\ at = "test"
    /\ \/ d = <<>> /\ at' = "asleep" /\ UNCHANGED <<d, f>>
       \/ d # <<>> /\ at' = "run" /\ f' = Head(d) /\ d' = Tail(d)
    /\ UNCHANGED <<rq, pc, msg, sent, calls, retVars, histVars, touched>>

Touch ==
    /\ touched' = TRUE
    /\ UNCHANGED <<d, at, f, rq, pc, msg, sent, calls, retVars, histVars>>

(* Mutant of Run: done is set before the message runs.                     *)
RunDoneFirst ==
    /\ at = "run" /\ (f \in calls => f \in frames)
    /\ \/ f \in calls \ done /\ done' = done \cup {f} /\ UNCHANGED <<at, ended, runs>>
       \/ /\ f \in calls => f \in done
          /\ at' = "after"
          /\ ended' = ended \cup {f}
          /\ runs' = [runs EXCEPT ![f] = @ + 1]
          /\ UNCHANGED done
    /\ UNCHANGED <<d, f, rq, pc, msg, sent, calls, frames, missed, threw, asked, stray, touched>>

(* f() runs; an exception leaves Ret::f, and leaves rq as it is.           *)
Run ==
    /\ at = "run" /\ (f \in calls => f \in frames)
    /\ \E asks \in BOOLEAN :
          /\ asks => \A m \in Msgs : asked[m] < MaxAsks
          /\ rq' = (rq \/ asks)
          /\ asked' = [asked EXCEPT ![f] = IF asks THEN @ + 1 ELSE @]
    /\ runs' = [runs EXCEPT ![f] = @ + 1]
    /\ \/ /\ at' = IF f \in calls THEN "done" ELSE "after"
          /\ ended' = ended \cup {f}
          /\ UNCHANGED <<threw, stray>>
       \/ /\ at' = "test"
          /\ threw' = threw \cup {f}
          /\ stray' = (stray \/ rq')
          /\ UNCHANGED ended
    /\ UNCHANGED <<d, f, pc, msg, sent, calls, retVars, touched>>

RunDead == at = "run" /\ f \in calls \ frames /\ Touch

SetDone ==
    /\ at = "done"
    /\ done' = done \cup {f}
    /\ at' = "notify"
    /\ UNCHANGED <<d, f, rq, pc, msg, sent, calls, frames, missed, histVars, touched>>

(* Mutant of NotifyCaller: the caller is not woken.                        *)
NotifyNobody ==
    /\ at = "notify" /\ f \in frames
    /\ at' = "after"
    /\ UNCHANGED <<d, f, rq, pc, msg, sent, calls, retVars, histVars, touched>>

(* notify_one of a Ret whose owner may have looked at done and gone.       *)
NotifyCaller ==
    /\ at = "notify" /\ f \in frames
    /\ \E c \in Callers :
          /\ pc[c] # "idle" /\ msg[c] = f
          /\ pc' = [pc EXCEPT ![c] = IF @ = "waiting" THEN "check" ELSE @]
          /\ missed' = IF pc[c] = "towait" THEN missed \cup {f} ELSE missed
    /\ at' = "after"
    /\ UNCHANGED <<d, f, rq, msg, sent, calls, done, frames, histVars, touched>>

NotifyDead == at = "notify" /\ f \notin frames /\ Touch

(* Mutant of Requeue: rq is not reset.                                     *)
RequeueAll ==
    /\ at = "after"
    /\ at' = "test"
    /\ d' = IF rq THEN Append(d, f) ELSE d
    /\ UNCHANGED <<f, rq, pc, msg, sent, calls, retVars, histVars, touched>>

Requeue ==
    /\ at = "after"
    /\ at' = "test"
    /\ d' = IF rq THEN Append(d, f) ELSE d
    /\ rq' = FALSE
    /\ UNCHANGED <<f, pc, msg, sent, calls, retVars, histVars, touched>>

-----------------------------------------------------------------------------

DoWork ==
    TakeMessage \/ Run \/ RunDead \/ SetDone \/ NotifyCaller \/ NotifyDead \/ Requeue

InCall(c) == SendNotifies(c) \/ CallChecks(c) \/ CallWaits(c)

Next ==
    /\ ~touched
    /\ DoWork \/ \E c \in Callers : Push(c) \/ InCall(c)

Spec == Init /\ [][Next]_vars

(* Threads run, and messages end.                                          *)
FairSpec ==
    /\ Spec
    /\ WF_vars(~touched /\ DoWork)
    /\ \A c \in Callers : WF_vars(~touched /\ InCall(c))

-----------------------------------------------------------------------------
(* Properties.                                                             *)

(* call() returns only when its message has run to its end ("block until   *)
(* function completes", msg.h:39).                                         *)
CallMeansRun == calls \ frames \subseteq ended

(* Messages run, the first time, in the order in which they came, past     *)
(* those that were requeued (task.cpp:113-144).                            *)
FirstRunsInOrder == \A m \in Msgs : runs[m] > 0 => \A k \in 1..(m - 1) : runs[k] > 0

(* A message runs again only if it asked to.  The hole: one that asked and *)
(* then threw leaves rq set, and the next one is requeued (:135-144).      *)
RunsAsAsked == ~stray => \A m \in Msgs : runs[m] <= 1 + asked[m]

(* The queue of the server, with the types of the variables.               *)
QueueInv == TSTypeOK /\ FirstRunsInOrder /\ RunsAsAsked

(* Every message runs, in spite of those that throw or are requeued: once  *)
(* no more come, none is left that has not.                                *)
SentRuns == <>[](touched \/ \A m \in 1..sent : runs[m] > 0)

(* And every call() has returned, unless its message threw, or the signal  *)
(* came between the test of done and the wait (task.cpp:94-112).           *)
CallComesBack == <>[](touched \/ \A c \in Callers : pc[c] = "idle" \/ msg[c] \in missed \cup threw)

=============================================================================
