--------------------------- MODULE FileAllocator ---------------------------
(***************************************************************************)
(* FileAllocator (util/file_allocator.cpp): one caller asks for files, and *)
(* a thread allocates them.  The list of requests is shared; the thread    *)
(* takes the front without removing it, and removes the front when the     *)
(* file is there.  Every step below is one hold of _pendingMutex.          *)
(***************************************************************************)
EXTENDS Naturals, Sequences, SequencesExt

CONSTANTS
    Names,
    MaxSize    \* sizes are 1..MaxSize

ASSUME AllocatorAssumption == MaxSize \in Nat \ {0} /\ "none" \notin Names

VARIABLES
    pending,      \* _pending
    pendingSize,  \* _pendingSize, 0 for a name without an entry
    failed,       \* _failed
    disk,         \* name -> size of the file, 0 if there is none
    at,           \* the thread: "start", "asleep", "pick", "alloc", "pop", "fail", "end"
    name, size,   \* its locals
    pc,           \* the caller: "idle", "asap", "asapWait", "wait", "waitAsleep"
    arg,          \* the name and size of its call
    got,          \* history: name and size of the allocateAsap that has just returned
    first         \* history: name -> the first size asked for, 0 if none

listVars == <<pending, pendingSize, failed>>
thrVars  == <<at, name, size>>
callVars == <<pc, arg, got, first>>
vars == <<listVars, disk, thrVars, callVars>>

Sizes == 1..MaxSize
Nothing == [name |-> "none", size |-> 0]

FATypeOK ==
    /\ pending \in Seq(Names) /\ IsInjective(pending)
    /\ pendingSize \in [Names -> 0..MaxSize]
    /\ failed \in BOOLEAN
    /\ disk \in [Names -> 0..MaxSize]
    /\ at \in {"start", "asleep", "pick", "alloc", "pop", "fail", "end"}
    /\ at \in {"alloc", "pop", "fail"} => name \in Names /\ size \in Sizes
    /\ pc \in {"idle", "asap", "asapWait", "wait", "waitAsleep"}

(* Some files are there already.                                           *)
Init ==
    /\ pending = <<>> /\ pendingSize = [n \in Names |-> 0] /\ failed = FALSE
    /\ disk \in [Names -> 0..MaxSize]
    /\ at = "start" /\ name = "none" /\ size = 0
    /\ pc = "idle" /\ arg = Nothing /\ got = Nothing
    /\ first = disk

-----------------------------------------------------------------------------

prevSize(n) == IF pendingSize[n] # 0 THEN pendingSize[n] ELSE disk[n]

inProgress(n) == n \in Range(pending)

(* _pendingUpdated.notify_all() wakes the thread and the caller.           *)
NotifyAll ==
    /\ at' = IF at = "asleep" THEN "pick" ELSE at
    /\ pc' = CASE pc = "asapWait" -> "asap" [] pc = "waitAsleep" -> "wait" [] OTHER -> pc

Asked(n, s) == first' = [first EXCEPT ![n] = IF @ = 0 THEN s ELSE @]

(* requestAllocation.                                                      *)
RequestAllocation(n, s) ==
    /\ pc = "idle"
    /\ got' = Nothing
    /\ IF failed \/ prevSize(n) # 0
       THEN UNCHANGED <<listVars, thrVars, pc, first>>
       ELSE /\ pending' = Append(pending, n)
            /\ pendingSize' = [pendingSize EXCEPT ![n] = s]
            /\ Asked(n, s)
            /\ NotifyAll
            /\ UNCHANGED <<failed, name, size>>
    /\ UNCHANGED <<disk, arg>>

(* Mutant of Sooner: in front of the file that is being made.              *)
SoonerThanAll(n) == <<n>> \o SelectSeq(pending, LAMBDA m : m # n)

(* The list with n at the front, or right behind it; list::remove finds n  *)
(* once at most (FATypeOK).                                                *)
Sooner(n) ==
    IF pending = <<>> THEN <<n>>
    ELSE IF Head(pending) = n THEN pending
    ELSE <<Head(pending), n>> \o RemoveFirst(Tail(pending), n)

(* Mutant of OldSize: the size of the call is taken.                       *)
OldSizeIgnored(n, s) == s

OldSize(n, s) == IF prevSize(n) # 0 THEN prevSize(n) ELSE s

(* allocateAsap, up to the wait of its loop: the name is on the list now.  *)
AllocateAsap(n, s) ==
    /\ pc = "idle"
    /\ \/ /\ prevSize(n) # 0 /\ ~inProgress(n)
          /\ got' = [name |-> n, size |-> prevSize(n)]
          /\ UNCHANGED <<listVars, thrVars, pc, arg, first>>
       \/ /\ prevSize(n) = 0 \/ inProgress(n)
          /\ failed
          /\ got' = Nothing
          /\ UNCHANGED <<listVars, thrVars, pc, arg, first>>
       \/ /\ prevSize(n) = 0 \/ inProgress(n)
          /\ ~failed
          /\ pendingSize' = [pendingSize EXCEPT ![n] = OldSize(n, s)]
          /\ pending' = Sooner(n)
          /\ arg' = [name |-> n, size |-> OldSize(n, s)]
          /\ Asked(n, s)
          /\ at' = IF at = "asleep" THEN "pick" ELSE at
          /\ pc' = "asapWait"
          /\ got' = Nothing
          /\ UNCHANGED <<failed, name, size>>
    /\ UNCHANGED disk

(* Mutant of AsapLoop: it waits once.                                      *)
AsapLoopOnce ==
    /\ pc = "asap"
    /\ pc' = "idle" /\ arg' = Nothing
    /\ got' = IF failed THEN Nothing ELSE arg
    /\ UNCHANGED <<listVars, disk, thrVars, first>>

(* Awake: while( inProgress( name ) ), with checkFailure's exception.      *)
AsapLoop ==
    /\ pc = "asap"
    /\ \/ ~inProgress(arg.name) /\ pc' = "idle" /\ got' = arg /\ arg' = Nothing
       \/ inProgress(arg.name) /\ failed /\ pc' = "idle" /\ arg' = Nothing /\ UNCHANGED got
       \/ inProgress(arg.name) /\ ~failed /\ pc' = "asapWait" /\ UNCHANGED <<got, arg>>
    /\ UNCHANGED <<listVars, disk, thrVars, first>>

(* waitUntilFinished looks at _failed once, and then at the list only.     *)
WaitUntilFinished ==
    /\ pc = "idle" /\ ~failed
    /\ pc' = "wait"
    /\ got' = Nothing
    /\ UNCHANGED <<listVars, disk, thrVars, arg, first>>

WaitLoop ==
    /\ pc = "wait"
    /\ pc' = IF pending = <<>> THEN "idle" ELSE "waitAsleep"
    /\ UNCHANGED <<listVars, disk, thrVars, arg, got, first>>

-----------------------------------------------------------------------------
(* FileAllocator::run.                                                     *)

Start ==
    /\ at = "start"
    /\ at' = IF pending = <<>> THEN "asleep" ELSE "pick"
    /\ UNCHANGED <<listVars, disk, name, size, callVars>>

Pick ==
    /\ at = "pick"
    /\ IF pending = <<>>
       THEN at' = "start" /\ UNCHANGED <<name, size>>
       ELSE /\ at' = "alloc"
            /\ name' = Head(pending)
            /\ size' = pendingSize[Head(pending)]
    /\ UNCHANGED <<listVars, disk, callVars>>

(* Open and ensureLength, without the mutex.  After a failure the file is  *)
(* removed, or what was written stays when that fails too: of any length,  *)
(* the full one as well, since the last byte is written first.             *)
Allocate ==
    /\ at = "alloc"
    /\ \/ disk' = [disk EXCEPT ![name] = size] /\ at' = "pop"
       \/ \E left \in 0..size :
             disk' = [disk EXCEPT ![name] = left] /\ at' = "fail"
    /\ UNCHANGED <<listVars, name, size, callVars>>

(* Mutant of Fail: nobody is told.                                         *)
FailSilent ==
    /\ at = "fail"
    /\ failed' = TRUE
    /\ at' = "end"
    /\ UNCHANGED <<pending, pendingSize, disk, name, size, callVars>>

(* "not erasing from pending"; "no more allocation".                       *)
Fail ==
    /\ at = "fail"
    /\ failed' = TRUE
    /\ at' = "end"
    /\ pc' = CASE pc = "asapWait" -> "asap" [] pc = "waitAsleep" -> "wait" [] OTHER -> pc
    /\ UNCHANGED <<pending, pendingSize, disk, name, size, arg, got, first>>

Pop ==
    /\ at = "pop"
    /\ pendingSize' = [pendingSize EXCEPT ![name] = 0]
    /\ pending' = Tail(pending)
    /\ at' = "pick" /\ name' = "none" /\ size' = 0
    /\ pc' = CASE pc = "asapWait" -> "asap" [] pc = "waitAsleep" -> "wait" [] OTHER -> pc
    /\ UNCHANGED <<failed, disk, arg, got, first>>

-----------------------------------------------------------------------------

Allocator == Start \/ Pick \/ Allocate \/ Fail \/ Pop
InCall == AsapLoop \/ WaitLoop

Next ==
    \/ Allocator \/ InCall \/ WaitUntilFinished
    \/ \E n \in Names, s \in Sizes : RequestAllocation(n, s) \/ AllocateAsap(n, s)

Spec == Init /\ [][Next]_vars

(* Both threads run.                                                       *)
FairSpec == Spec /\ WF_vars(Allocator) /\ WF_vars(InCall)

-----------------------------------------------------------------------------
(* Properties.                                                             *)

(* What the thread pops is what it has allocated, whatever the caller has  *)
(* moved forward meanwhile (file_allocator.cpp:114-119, :215, :262-267).   *)
FrontIsMine == at \in {"alloc", "pop", "fail"} => pending # <<>> /\ Head(pending) = name

(* The list of requests, with the types of the variables.                  *)
ListInv == FATypeOK /\ FrontIsMine

(* "Returns when file has been allocated.  If file exists, size is updated *)
(* to match existing file size" (file_allocator.h:44-45).                  *)
AsapMeansAllocated == got # Nothing => disk[got.name] = got.size

(* "only the first size specified per file will be used"                   *)
(* (file_allocator.h:30-31), for requests and urgent requests; only the    *)
(* file whose allocation failed may be left shorter.                       *)
FirstSizeUsed ==
    \A n \in Names : disk[n] \in {0, first[n]} \/ (at \in {"fail", "end"} /\ n = name)

(* allocateAsap returns or throws; waitUntilFinished returns, unless an    *)
(* allocation fails while it waits: the list is never emptied then         *)
(* (file_allocator.cpp:121-134, :255-266).                                 *)
CallsReturn ==
    /\ pc \in {"asap", "asapWait"} ~> pc = "idle"
    /\ pc \in {"wait", "waitAsleep"} ~> (pc = "idle" \/ failed)

=============================================================================
