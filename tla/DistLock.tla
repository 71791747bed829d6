------------------------------ MODULE DistLock ------------------------------
(***************************************************************************)
(* DistributedLock (client/distlock.cpp) on a SyncClusterConnection: the   *)
(* lock is a document on every config server, a process takes it with a    *)
(* conditional update, and steals it from a process that has not pinged    *)
(* for takeoverMinutes.  One thread of each process uses the lock; ts is a *)
(* fresh OID, whose order between machines is arbitrary.  A process has a  *)
(* clock that is ahead of the true time by its skew.                       *)
(***************************************************************************)
EXTENDS SyncCluster, FiniteSets

CONSTANTS
    MaxTs,      \* bound: OIDs made
    MaxTime,    \* bound: minutes
    Skews,      \* process -> how far its clock may be ahead: the cases
    Takeover,   \* takeoverMinutes
    maxAttempts \* of unlock; 3 in the code

ASSUME LockAssumption ==
    /\ MaxTs \in Nat /\ MaxTime \in Nat /\ Takeover \in Nat /\ maxAttempts \in Nat \ {0}
    /\ Skews \subseteq [Procs -> Nat] /\ {"", "absent"} \cap Procs = {}

VARIABLES
    pc,        \* process -> where it is in lock_try or unlock
    mine,      \* process -> the ts it is taking, or holds, the lock with
    seen,      \* process -> the ts, or the process, of the document it read
    best,      \* process -> the greatest ts of the servers it has read
    attempted, \* process -> tries of unlock
    ping,      \* server -> process -> its entry in config.lockpings, or NoPing
    skew,      \* process -> how far its clock is ahead
    now,       \* true time
    used,      \* history: OIDs made
    released,  \* history: the ts of locks whose unlock succeeded
    robbed     \* history: a write by another hit a lock held or won

lockVars == <<pc, mine, seen, best, attempted, ping, skew, now, used, released, robbed>>
vars == <<clusterVars, lockVars>>

Ts == 1..MaxTs
NoPing == 0
Clock(p) == 1 + now + skew[p]

LockTypeOK ==
    /\ doc \in [Servers -> [state : {0, 1}, ts : {0} \cup Ts, process : Procs \cup {"", "absent"}]]
    /\ at \in [Procs -> 1..(NServers + 1)]
    /\ \A p \in Procs : Len(count[p]) = at[p] - 1
    /\ faults \in 0..MaxFaults
    /\ pc \in [Procs -> {"idle", "taken", "acquire", "compare", "won", "held", "unlock", "write", "dead"}]
    /\ mine \in [Procs -> {0} \cup Ts]
    /\ best \in [Procs -> {0} \cup Ts]
    /\ attempted \in [Procs -> 0..maxAttempts]
    /\ ping \in [Servers -> [Procs -> Nat]]
    /\ used \subseteq Ts /\ released \subseteq used
    /\ robbed \in BOOLEAN

Init ==
    /\ ClusterInit
    /\ pc = [p \in Procs |-> "idle"]
    /\ mine = [p \in Procs |-> 0]
    /\ seen = [p \in Procs |-> 0]
    /\ best = [p \in Procs |-> 0]
    /\ attempted = [p \in Procs |-> 0]
    /\ ping = [s \in Servers |-> [p \in Procs |-> NoPing]]
    /\ skew \in Skews
    /\ now = 0
    /\ used = {} /\ released = {}
    /\ robbed = FALSE

-----------------------------------------------------------------------------

Goto(p, l) == pc' = [pc EXCEPT ![p] = l]

(* lock_try returns false, or lock_try or unlock is left for good.         *)
Idle(p) ==
    /\ Goto(p, "idle")
    /\ mine' = [mine EXCEPT ![p] = 0]
    /\ best' = [best EXCEPT ![p] = 0]
    /\ seen' = [seen EXCEPT ![p] = 0]
    /\ attempted' = [attempted EXCEPT ![p] = 0]

callVars  == <<mine, seen, best, attempted>>
worldVars == <<ping, skew, now>>

(* findOne of the lock document: it has to be made, it is taken, or free.  *)
TryRead(p) ==
    /\ pc[p] = "idle"
    /\ \E s \in Servers :
          /\ ReadsFrom(s)
          /\ \/ /\ doc[s] = NoDoc
                /\ Begin(p, [kind |-> "insert"])
                /\ Goto(p, "write")
                /\ UNCHANGED seen
             \/ /\ doc[s].state > 0
                /\ seen' = [seen EXCEPT ![p] = doc[s].process]
                /\ Goto(p, "taken")
                /\ UNCHANGED <<doc, op, at, count>>
             \/ /\ doc[s] # NoDoc /\ doc[s].state = 0
                /\ seen' = [seen EXCEPT ![p] = doc[s].ts]
                /\ Goto(p, "acquire")
                /\ UNCHANGED <<doc, op, at, count>>
    /\ UNCHANGED <<mine, best, attempted, worldVars, used, released, robbed>>

(* A ping that is missing, or from the future, keeps the lock; an old one  *)
(* loses it.                                                               *)
Stale(p, t) == t # NoPing /\ Clock(p) >= t /\ Clock(p) - t > Takeover

LookAtPing(p) ==
    /\ pc[p] = "taken"
    /\ \E s \in Servers :
          /\ ReadsFrom(s)
          /\ \/ /\ ~Stale(p, ping[s][seen[p]])
                /\ Idle(p)
                /\ UNCHANGED <<doc, op, at, count>>
             \/ /\ Stale(p, ping[s][seen[p]])
                /\ Begin(p, [kind |-> "takeover"])
                /\ seen' = [seen EXCEPT ![p] = 0]
                /\ Goto(p, "write")
                /\ UNCHANGED <<mine, best, attempted>>
    /\ UNCHANGED <<worldVars, used, released, robbed>>

(* ts.init() and the conditional update.                                   *)
Acquire(p) ==
    /\ pc[p] = "acquire"
    /\ \E t \in Ts \ used :
          /\ used' = used \cup {t}
          /\ mine' = [mine EXCEPT ![p] = t]
          /\ Begin(p, [kind |-> "acquire", ts |-> t, seen |-> seen[p]])
    /\ Goto(p, "write")
    /\ seen' = [seen EXCEPT ![p] = 0]
    /\ UNCHANGED <<faults, best, attempted, worldVars, released, robbed>>

-----------------------------------------------------------------------------
(* A write reaches a server.                                               *)

(* A lock that p's write takes from another process: one that holds it, or *)
(* may yet.  Completing a propagation may take it from who lost the        *)
(* comparison, or has still to see that it did.                            *)
Victim(p, s) ==
    \E v \in Procs \ {p} :
        /\ op[p].kind # "acquire" /\ pc[v] # "unlock"
        /\ doc[s].state = 1 /\ doc[s].ts = mine[v]
        /\ op[p].kind = "force" => pc[v] # "compare" /\ ~ \E i \in 1..Len(count[v]) : count[v][i] # 1

Write(p) ==
    /\ WriteOne(p)
    /\ robbed' = (robbed \/ (doc' # doc /\ Victim(p, at[p])))
    /\ UNCHANGED <<pc, callVars, worldVars, used, released>>

Loses(p) == WriteLost(p) /\ UNCHANGED lockVars

(* What an exception does to who is writing: unlock tries again, an insert *)
(* goes on after a UserException, and lock_try is left otherwise.          *)
Thrown(p, user) ==
    CASE op[p].kind = "unlock" /\ attempted[p] < maxAttempts ->
            Goto(p, "unlock") /\ UNCHANGED callVars
      [] op[p].kind = "insert" /\ user ->
            Goto(p, "acquire") /\ UNCHANGED callVars
      [] OTHER -> Idle(p)

(* Mutant of Throws: unlock returns when its update throws.                *)
ThrowsUnlocked(p) ==
    /\ CheckFails(p) \/ WriteBreaks(p)
    /\ Idle(p)
    /\ released' = IF op[p].kind = "unlock" THEN released \cup {mine[p]} ELSE released
    /\ UNCHANGED <<worldVars, used, robbed>>

Throws(p) ==
    /\ \/ CheckFails(p) /\ Thrown(p, TRUE)
       \/ WriteBreaks(p) /\ Thrown(p, FALSE)
    /\ robbed' = (robbed \/ (doc' # doc /\ Victim(p, at[p])))
    /\ UNCHANGED <<worldVars, used, released>>

(* The write is over on every server.                                      *)
Inserted(p) ==
    /\ op[p].kind = "insert" /\ Checked(p)
    /\ Goto(p, "acquire")
    /\ UNCHANGED <<callVars, released>>

(* seen is 0: the update after a takeover asks for state 0 only.           *)
TookOver(p) ==
    /\ op[p].kind = "takeover" /\ Checked(p)
    /\ IF Agreed(p) THEN Goto(p, "acquire") /\ UNCHANGED callVars ELSE Idle(p)
    /\ UNCHANGED released

(* The findOne after the update may throw, and the lock stays taken.       *)
Acquired(p) ==
    /\ op[p].kind = "acquire" /\ at[p] > NServers /\ ~Missing(p)
    /\ \/ Agreed(p) /\ count[p][1] = 0 /\ Checked(p) /\ Idle(p)
       \/ Agreed(p) /\ count[p][1] = 1 /\ Checked(p) /\ Goto(p, "held") /\ UNCHANGED callVars
       \/ Agreed(p) /\ Over(p) /\ Fault /\ UNCHANGED doc /\ Idle(p)
       \/ ~Agreed(p) /\ Checked(p) /\ Goto(p, "compare") /\ UNCHANGED callVars
    /\ UNCHANGED released

Forced(p) ==
    /\ op[p].kind = "force" /\ Checked(p)
    /\ IF Agreed(p) THEN Goto(p, "held") /\ UNCHANGED callVars ELSE Idle(p)
    /\ UNCHANGED released

(* So may the findOne that unlock logs.                                    *)
Unlocked(p) ==
    /\ op[p].kind = "unlock" /\ at[p] > NServers /\ ~Missing(p)
    /\ \/ Agreed(p) /\ Checked(p) /\ Idle(p) /\ released' = released \cup {mine[p]}
       \/ Agreed(p) /\ Over(p) /\ Fault /\ UNCHANGED <<doc, released>> /\ Thrown(p, TRUE)
       \/ ~Agreed(p) /\ Checked(p) /\ Thrown(p, TRUE) /\ UNCHANGED released

Ends(p) ==
    /\ Inserted(p) \/ TookOver(p) \/ Acquired(p) \/ Forced(p) \/ Unlocked(p)
    /\ UNCHANGED <<worldVars, used, robbed>>

-----------------------------------------------------------------------------
(* UpdateNotTheSame: whoever wrote the greatest ts has the lock.           *)

Greater(a, b) == IF a > b THEN a ELSE b

Compare(p) ==
    /\ pc[p] = "compare" /\ at[p] <= NServers
    /\ best' = [best EXCEPT ![p] = Greater(@, doc[at[p]].ts)]
    /\ at' = [at EXCEPT ![p] = @ + 1]
    /\ count' = [count EXCEPT ![p] = Append(@, 0)]
    /\ UNCHANGED <<doc, op, faults, pc, mine, seen, attempted, worldVars, used, released, robbed>>

CompareFails(p) ==
    /\ pc[p] = "compare" /\ at[p] <= NServers
    /\ Fault /\ Over(p)
    /\ Idle(p)
    /\ UNCHANGED <<doc, worldVars, used, released, robbed>>

Decide(p) ==
    /\ pc[p] = "compare" /\ at[p] > NServers
    /\ at' = [at EXCEPT ![p] = 1]
    /\ count' = [count EXCEPT ![p] = <<>>]
    /\ IF best[p] = mine[p]
       THEN /\ op' = [op EXCEPT ![p] = [kind |-> "force", ts |-> mine[p]]]
            /\ best' = [best EXCEPT ![p] = 0]
            /\ Goto(p, "won")
            /\ UNCHANGED <<mine, seen, attempted>>
       ELSE Idle(p) /\ UNCHANGED op
    /\ UNCHANGED <<doc, faults, worldVars, used, released, robbed>>

-----------------------------------------------------------------------------

(* unlock, the first time or again after sleepsecs.                        *)
Unlock(p) ==
    /\ pc[p] = "held" \/ (pc[p] = "unlock" /\ op[p] = NoOp)
    /\ Begin(p, [kind |-> "unlock"])
    /\ attempted' = [attempted EXCEPT ![p] = @ + 1]
    /\ Goto(p, "unlock")
    /\ UNCHANGED <<faults, mine, seen, best, worldVars, used, released, robbed>>

(* The pinger's upsert reaches all servers, or the first k of them.        *)
Ping(p) ==
    /\ pc[p] # "dead"
    /\ \E k \in Servers :
          /\ (k = NServers /\ UNCHANGED faults) \/ (k < NServers /\ Fault)
          /\ ping' = [s \in Servers |-> IF s <= k THEN [ping[s] EXCEPT ![p] = Clock(p)] ELSE ping[s]]
    /\ UNCHANGED <<doc, op, at, count, pc, callVars, skew, now, used, released, robbed>>

Crash(p) ==
    /\ pc[p] # "dead"
    /\ Fault /\ Over(p)
    /\ Goto(p, "dead")
    /\ mine' = [mine EXCEPT ![p] = 0]
    /\ UNCHANGED <<doc, seen, best, attempted, worldVars, used, released, robbed>>

Tick ==
    /\ now < MaxTime
    /\ now' = now + 1
    /\ UNCHANGED <<clusterVars, pc, callVars, ping, skew, used, released, robbed>>

LockTry(p) ==
    \/ TryRead(p) \/ LookAtPing(p) \/ Acquire(p)
    \/ Compare(p) \/ CompareFails(p) \/ Decide(p)

Next ==
    \/ \E p \in Procs :
          \/ LockTry(p) \/ Unlock(p) \/ Write(p) \/ Loses(p) \/ Throws(p) \/ Ends(p)
          \/ Ping(p) \/ Crash(p)
    \/ Tick

Spec == Init /\ [][Next]_vars

-----------------------------------------------------------------------------
(* Properties.                                                             *)

Holders == {p \in Procs : pc[p] = "held"}

(* Two processes hold the lock only after some unconditional write -       *)
(* takeover, unlock or the write that completes a propagation - hit a lock *)
(* that was held or being taken: the conditional update and the comparison *)
(* of the ts let one process through (distlock.cpp:260-303).               *)
OneHolder == ~robbed => Cardinality(Holders) <= 1

(* Until then every server names the holder, whichever is asked            *)
(* (distlock.cpp:263-276, :294-298, syncclusterconnection.cpp:287-316).    *)
HolderRecorded ==
    ~robbed => \A p \in Holders : \A s \in Servers : doc[s].state = 1 /\ doc[s].ts = mine[p]

(* The lock document, with the types of the variables.                     *)
LockInv == LockTypeOK /\ HolderRecorded

(* A lock whose unlock succeeded is not taken on any server any more, for  *)
(* good (distlock.cpp:312-325).                                            *)
Released == \A s \in Servers : doc[s].state = 1 => doc[s].ts \notin released

=============================================================================
