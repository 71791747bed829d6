----------------------------- MODULE ReplicaSet -----------------------------
(***************************************************************************)
(* ReplicaSetMonitor and DBClientReplicaSet (client/dbclient_rs.{h,cpp}):  *)
(* the node list and the master that client threads and the watcher share. *)
(* The replica set around them elects and loses primaries and members.     *)
(* _lock is held inside single steps; _master is also used without it.     *)
(* Indices start at 1, and 0 is the code's -1.                             *)
(***************************************************************************)
EXTENDS Naturals, Sequences, SequencesExt

CONSTANTS
    Clients,     \* threads, each with a DBClientReplicaSet
    Watcher,     \* the thread of ReplicaSetMonitorWatcher
    Members,     \* hosts of the replica set
    Seeds,       \* the servers the monitor is made with
    MaxChanges   \* bound: elections, members lost or back, connections broken

NoHost == "none"

ASSUME SetAssumption ==
    /\ Watcher \notin Clients /\ NoHost \notin Members \cup Clients \cup {Watcher}
    /\ Seeds \in Seq(Members) /\ Seeds # <<>> /\ MaxChanges \in Nat

VARIABLES
    primary, up,  \* the set: its primary or NoHost, the members that answer
    changes,
    nodes,        \* _nodes, by address
    ok,           \* Node::ok of each of them
    master,       \* _master
    todo,         \* seeds the constructor has still to try
    checkLock,    \* who holds _checkConnectionLock, or NoHost
    pc,           \* thread -> where it is
    back,         \* thread -> where the _checkConnection it is in was called
    idx, retry,   \* thread -> i and retry of _check
    answer,       \* thread -> isMaster of that _checkConnection
    adding,       \* thread -> hosts that it has still to add
    again,        \* client -> in the second getMaster of checkMaster
    mconn, sconn, \* client -> its master and slave connection
    crash         \* the read out of bounds, or division by 0, that happened

setVars   == <<primary, up, changes>>
monVars   == <<nodes, ok, master, todo>>
checkVars == <<back, idx, retry, answer, adding>>
connVars  == <<again, mconn, sconn>>
vars == <<setVars, monVars, checkLock, pc, checkVars, connVars, crash>>

Threads == Clients \cup {Watcher}
NoConn  == [host |-> NoHost, failed |-> TRUE]
Conn    == [host : Members \cup {NoHost}, failed : BOOLEAN]

SetTypeOK ==
    /\ primary \in up \cup {NoHost} /\ up \subseteq Members
    /\ nodes \in Seq(Members) /\ ok \in [1..Len(nodes) -> BOOLEAN]
    /\ master \in 0..Len(nodes)
    /\ checkLock \in Threads \cup {NoHost}
    /\ pc \in [Threads -> {"idle", "seed", "first", "index", "current", "scan", "hosts", "set", "get", "assert",
                           "read", "notify", "connect", "lost", "slost", "sget"}]
    /\ \A t \in Threads : pc[t] \in {"hosts", "set", "current"} => idx[t] \in 1..Len(nodes)
    /\ answer \in [Threads -> BOOLEAN]
    /\ mconn \in [Clients -> Conn] /\ sconn \in [Clients -> Conn]

Init ==
    /\ up \in SUBSET Members /\ primary \in up \cup {NoHost}
    /\ changes = 0
    /\ nodes = <<>> /\ ok = <<>> /\ master = 0
    /\ todo = Seeds
    /\ checkLock = NoHost
    /\ pc = [t \in Threads |-> IF t = Watcher THEN "seed" ELSE "idle"]
    /\ back = [t \in Threads |-> "idle"]
    /\ idx = [t \in Threads |-> 1]
    /\ retry = [t \in Threads |-> 0]
    /\ answer = [t \in Threads |-> FALSE]
    /\ adding = [t \in Threads |-> {}]
    /\ again = [c \in Clients |-> FALSE]
    /\ mconn = [c \in Clients |-> NoConn]
    /\ sconn = [c \in Clients |-> NoConn]
    /\ crash = "no"

Goto(t, l) == pc' = [pc EXCEPT ![t] = l]

-----------------------------------------------------------------------------
(* _checkConnection, under _checkConnectionLock.                           *)

(* Mutant of CheckConnection: _checkConnectionLock is not taken.           *)
CheckConnectionFree(t) ==
    LET h == nodes[idx[t]]
    IN  /\ pc[t] \in {"first", "current", "scan"}
        /\ answer' = [answer EXCEPT ![t] = h = primary]
        /\ adding' = [adding EXCEPT ![t] = IF h \in up THEN Members \ Range(nodes) ELSE {}]
        /\ back' = [back EXCEPT ![t] = pc[t]]
        /\ Goto(t, "hosts")
        /\ UNCHANGED <<setVars, monVars, checkLock, idx, retry, connVars, crash>>

(* isMaster: what the node says, and the hosts it names that are new.      *)
CheckConnection(t) ==
    LET h == nodes[idx[t]]
    IN  /\ pc[t] \in {"first", "current", "scan"}
        /\ checkLock = NoHost
        /\ checkLock' = t
        /\ answer' = [answer EXCEPT ![t] = h = primary]
        /\ adding' = [adding EXCEPT ![t] = IF h \in up THEN Members \ Range(nodes) ELSE {}]
        /\ back' = [back EXCEPT ![t] = pc[t]]
        /\ Goto(t, "hosts")
        /\ UNCHANGED <<setVars, monVars, idx, retry, connVars, crash>>

(* _checkHosts: a host is connected to and added.                          *)
CheckHosts(t) ==
    /\ pc[t] = "hosts"
    /\ \E h \in adding[t] :
          /\ nodes' = Append(nodes, h)
          /\ ok' = Append(ok, TRUE)
          /\ adding' = [adding EXCEPT ![t] = @ \ {h}]
    /\ UNCHANGED <<setVars, master, todo, checkLock, pc, back, idx, retry, answer, connVars, crash>>

(* _find: the first node of that address, if there is one.                 *)
Find(h) == SelectInSeq(nodes, LAMBDA n : n = h)

(* Mutant of CheckStatus: a node that is back stays failed.                *)
CheckStatusDown ==
    ok' = [i \in 1..Len(nodes) |-> ok[i] /\ (i > 1 => nodes[i] \in up)]

(* replSetGetStatus.  The first node keeps its flag, because _find() <= 0  *)
(* is taken for not found.                                                 *)
CheckStatus ==
    ok' = [i \in 1..Len(nodes) |-> IF i > 1 /\ i = Find(nodes[i]) THEN nodes[i] \in up ELSE ok[i]]

(* Where _check goes on after node idx[t]: to the next node, around once   *)
(* more, or out.                                                           *)
Out(t) == IF t = Watcher THEN "idle" ELSE "assert"

NextNode(t) ==
    \/ /\ idx[t] < Len(nodes)
       /\ idx' = [idx EXCEPT ![t] = @ + 1]
       /\ Goto(t, "scan") /\ UNCHANGED retry
    \/ /\ idx[t] >= Len(nodes) /\ retry[t] = 0
       /\ idx' = [idx EXCEPT ![t] = 1]
       /\ retry' = [retry EXCEPT ![t] = 1]
       /\ Goto(t, "scan")
    \/ /\ idx[t] >= Len(nodes) /\ retry[t] = 1
       /\ Goto(t, Out(t)) /\ UNCHANGED <<idx, retry>>

Scan(t) ==
    /\ idx' = [idx EXCEPT ![t] = 1]
    /\ retry' = [retry EXCEPT ![t] = 0]
    /\ Goto(t, IF nodes = <<>> THEN Out(t) ELSE "scan")

Checked(t) ==
    /\ pc[t] = "hosts" /\ adding[t] = {}
    /\ checkLock' = NoHost
    /\ IF nodes[idx[t]] \in up THEN CheckStatus ELSE UNCHANGED ok
    /\ back' = [back EXCEPT ![t] = "idle"]
    /\ answer' = [answer EXCEPT ![t] = FALSE]
    /\ CASE back[t] = "scan" /\ answer[t]    -> Goto(t, "set") /\ UNCHANGED <<idx, retry, todo>>
         [] back[t] = "scan" /\ ~answer[t]   -> NextNode(t) /\ UNCHANGED todo
         [] back[t] = "current" /\ answer[t] -> Goto(t, "idle") /\ UNCHANGED <<idx, retry, todo>>
         [] back[t] = "current" /\ ~answer[t] -> Scan(t) /\ UNCHANGED todo
         [] back[t] = "first" -> /\ todo' = IF answer[t] THEN <<>> ELSE todo
                                /\ Goto(t, "seed") /\ UNCHANGED <<idx, retry>>
    /\ UNCHANGED <<setVars, nodes, master, adding, connVars, crash>>

(* _master = i, without a lock.                                            *)
SetMaster(t) ==
    /\ pc[t] = "set"
    /\ master' = idx[t]
    /\ Goto(t, Out(t))
    /\ UNCHANGED <<setVars, nodes, ok, todo, checkLock, checkVars, connVars, crash>>

-----------------------------------------------------------------------------
(* The constructor, before any other thread has the monitor.  Each seed    *)
(* that connects is pushed, whether or not an earlier one has named it.    *)

Seed ==
    /\ pc[Watcher] = "seed" /\ todo # <<>>
    /\ todo' = Tail(todo)
    /\ IF Head(todo) \in up
       THEN /\ nodes' = Append(nodes, Head(todo))
            /\ ok' = Append(ok, TRUE)
            /\ idx' = [idx EXCEPT ![Watcher] = Len(nodes')]
            /\ Goto(Watcher, "first")
       ELSE UNCHANGED <<nodes, ok, idx, pc>>
    /\ UNCHANGED <<setVars, master, checkLock, back, retry, answer, adding, connVars, crash>>

Seeded ==
    /\ pc[Watcher] = "seed" /\ todo = <<>>
    /\ Goto(Watcher, "idle")
    /\ UNCHANGED <<setVars, monVars, checkLock, checkVars, connVars, crash>>

Built == pc[Watcher] \notin {"seed", "first"} /\ back[Watcher] # "first"

(* Mutant of Check: only a missing master is looked for.                   *)
CheckNone ==
    /\ pc[Watcher] = "idle"
    /\ master = 0 /\ Scan(Watcher)
    /\ UNCHANGED <<setVars, monVars, checkLock, back, answer, adding, connVars, crash>>

(* The watcher's check(): _master is read for the test, and read again for *)
(* the node.                                                               *)
Check ==
    /\ pc[Watcher] = "idle"
    /\ \/ master > 0 /\ Goto(Watcher, "index") /\ UNCHANGED <<idx, retry>>
       \/ master = 0 /\ Scan(Watcher)
    /\ UNCHANGED <<setVars, monVars, checkLock, back, answer, adding, connVars, crash>>

CheckMaster ==
    /\ pc[Watcher] = "index"
    /\ IF master > 0
       THEN /\ idx' = [idx EXCEPT ![Watcher] = master]
            /\ Goto(Watcher, "current")
            /\ UNCHANGED crash
       ELSE crash' = "check" /\ UNCHANGED <<pc, idx>>
    /\ UNCHANGED <<setVars, monVars, checkLock, back, retry, answer, adding, connVars>>

-----------------------------------------------------------------------------
(* A client: checkMaster, which calls getMaster once or twice.             *)

BeginMaster(c) ==
    /\ pc[c] = "idle" /\ Built
    /\ again' = [again EXCEPT ![c] = FALSE]
    /\ Goto(c, "get")
    /\ UNCHANGED <<setVars, monVars, checkLock, checkVars, mconn, sconn, crash>>

(* getMaster: is there a good one?                                         *)
GetMaster(c) ==
    /\ pc[c] = "get"
    /\ \/ master > 0 /\ ok[master] /\ Goto(c, "assert") /\ UNCHANGED <<idx, retry>>
       \/ ~(master > 0 /\ ok[master]) /\ Scan(c)
    /\ UNCHANGED <<setVars, monVars, checkLock, back, answer, adding, connVars, crash>>

(* uassert 10009, without the lock.                                        *)
AssertMaster(c) ==
    /\ pc[c] = "assert"
    /\ Goto(c, IF master > 0 THEN "read" ELSE "idle")
    /\ UNCHANGED <<setVars, monVars, checkLock, checkVars, connVars, crash>>

(* Then _nodes[_master], with it.                                          *)
ReadMaster(c) ==
    /\ pc[c] = "read"
    /\ IF master = 0
       THEN crash' = "getMaster" /\ UNCHANGED <<pc, again, mconn>>
       ELSE LET h == nodes[master]
            IN  /\ \/ again[c] /\ mconn' = [mconn EXCEPT ![c] = [host |-> h, failed |-> FALSE]]
                      /\ Goto(c, "connect")
                   \/ ~again[c] /\ h # mconn[c].host /\ Goto(c, "get") /\ UNCHANGED mconn
                   \/ ~again[c] /\ h = mconn[c].host /\ UNCHANGED mconn
                      /\ Goto(c, IF mconn[c].failed THEN "notify" ELSE "idle")
                /\ again' = [again EXCEPT ![c] = TRUE]
                /\ UNCHANGED crash
    /\ UNCHANGED <<setVars, monVars, checkLock, checkVars, sconn>>

Connect(c) ==
    /\ pc[c] = "connect"
    /\ Goto(c, IF mconn[c].host \in up THEN "idle" ELSE "lost")
    /\ mconn' = [mconn EXCEPT ![c].failed = mconn[c].host \notin up]
    /\ UNCHANGED <<setVars, monVars, checkLock, checkVars, again, sconn, crash>>

(* notifyFailure of the connection that is failed, or of the new one.      *)
NotifyFailure(c) ==
    /\ pc[c] \in {"notify", "lost"}
    /\ master' = IF master > 0 /\ nodes[master] = mconn[c].host THEN 0 ELSE master
    /\ Goto(c, IF pc[c] = "notify" THEN "get" ELSE "idle")
    /\ UNCHANGED <<setVars, nodes, ok, todo, checkLock, checkVars, connVars, crash>>

-----------------------------------------------------------------------------
(* checkSlave.                                                             *)

(* getSlave(): one of the others that are ok, else the first node.         *)
Slaves ==
    LET good == {i \in 1..Len(nodes) : i # master /\ ok[i]}
    IN  IF good = {} THEN {nodes[1]} ELSE {nodes[i] : i \in good}

CheckSlave(c) ==
    LET prev == sconn[c].host
    IN  /\ pc[c] = "idle" /\ Built
        /\ \E h \in IF prev \in Range(nodes) /\ ok[Find(prev)] THEN {prev}
                    ELSE IF nodes = <<>> THEN {NoHost} ELSE Slaves :
              \/ h = NoHost /\ crash' = "getSlave" /\ UNCHANGED pc
              \/ h # NoHost /\ h # prev /\ Goto(c, "sget") /\ UNCHANGED crash
              \/ h # NoHost /\ h = prev /\ sconn[c].failed /\ Goto(c, "slost") /\ UNCHANGED crash
        /\ UNCHANGED <<setVars, monVars, checkLock, checkVars, connVars>>

NotifySlaveFailure(c) ==
    /\ pc[c] = "slost"
    /\ ok' = [ok EXCEPT ![Find(sconn[c].host)] = FALSE]
    /\ Goto(c, "sget")
    /\ UNCHANGED <<setVars, nodes, master, todo, checkLock, checkVars, connVars, crash>>

(* The second getSlave, and its connect.  One that fails leaves checkSlave *)
(* by an exception (connect(const string&), dbclient.h:832-836), with the  *)
(* new host and a connection marked failed.                                *)
GetSlave(c) ==
    /\ pc[c] = "sget"
    /\ \E h \in Slaves : sconn' = [sconn EXCEPT ![c] = [host |-> h, failed |-> h \notin up]]
    /\ Goto(c, "idle")
    /\ UNCHANGED <<setVars, monVars, checkLock, checkVars, again, mconn, crash>>

-----------------------------------------------------------------------------
(* The world.                                                              *)

Change == changes < MaxChanges /\ changes' = changes + 1

World ==
    /\ Change
    /\ \/ \E h \in up \cup {NoHost} : primary' = h /\ UNCHANGED up
       \/ \E h \in up : up' = up \ {h} /\ primary' = IF primary = h THEN NoHost ELSE primary
       \/ \E h \in Members \ up : up' = up \cup {h} /\ UNCHANGED primary
    /\ UNCHANGED <<monVars, checkLock, pc, checkVars, connVars, crash>>

(* An operation finds its connection broken.                               *)
Breaks(c) ==
    /\ pc[c] = "idle"
    /\ \/ /\ mconn[c] # NoConn /\ ~mconn[c].failed
          /\ IF mconn[c].host \in up THEN Change ELSE UNCHANGED changes
          /\ mconn' = [mconn EXCEPT ![c].failed = TRUE] /\ UNCHANGED sconn
       \/ /\ sconn[c] # NoConn /\ ~sconn[c].failed
          /\ IF sconn[c].host \in up THEN Change ELSE UNCHANGED changes
          /\ sconn' = [sconn EXCEPT ![c].failed = TRUE] /\ UNCHANGED mconn
    /\ UNCHANGED <<primary, up, monVars, checkLock, pc, checkVars, again, crash>>

Monitor(t) == CheckConnection(t) \/ CheckHosts(t) \/ Checked(t) \/ SetMaster(t)

Watch == Seed \/ Seeded \/ Check \/ CheckMaster \/ Monitor(Watcher)

Goes(c) ==
    \/ Monitor(c) \/ GetMaster(c) \/ AssertMaster(c) \/ ReadMaster(c) \/ Connect(c)
    \/ NotifyFailure(c) \/ NotifySlaveFailure(c) \/ GetSlave(c)

Next ==
    /\ crash = "no"
    /\ \/ Watch
       \/ \E c \in Clients : BeginMaster(c) \/ CheckSlave(c) \/ Breaks(c) \/ Goes(c)
       \/ World

Spec == Init /\ [][Next]_vars

(* Threads run; a call that has begun goes on.  Nobody has to call.        *)
FairSpec ==
    /\ Spec
    /\ WF_vars(crash = "no" /\ Watch)
    /\ \A c \in Clients : WF_vars(crash = "no" /\ Goes(c))

-----------------------------------------------------------------------------
(* Properties.                                                             *)

(* A host that is not a seed is listed once, however many threads find it  *)
(* at the same time (dbclient_rs.cpp:276-295, :299-331).  A seed may be    *)
(* there twice: the constructor does not look (:91).                       *)
ListedOnce ==
    \A i, j \in 1..Len(nodes) : nodes[i] = nodes[j] /\ nodes[i] \notin Range(Seeds) => i = j

(* The node list, with the types of the variables.                         *)
NodesInv == SetTypeOK /\ ListedOnce

Stable == primary # NoHost /\ up = Members /\ nodes # <<>> /\ crash = "no"

(* The set has settled: the monitor finds its primary for good, whatever   *)
(* stale answers were on their way (dbclient_rs.cpp:333-388).  Without a   *)
(* seed that connected it never does: the node list stays empty (:83-97).  *)
FindsPrimary == <>[]Stable => <>[](master > 0 /\ nodes[master] = primary)

(* A node other than the first that was reported as failed is used again,  *)
(* by way of its first entry in the list (dbclient_rs.cpp:245-274).        *)
SlavesRecover ==
    \A h \in Members : <>[]Stable => <>[](Find(h) > 1 => ok[Find(h)])

(* Every listed host of a set that has settled is marked as what it is:    *)
(* "Use replSetGetStatus command to make sure hosts in host list are up    *)
(* and readable.  Sets Node::ok appropriately." (dbclient_rs.h:103-106).   *)
HostsChecked ==
    \A h \in Members : <>[]Stable => <>[](Find(h) > 0 => ok[Find(h)])

(* dbclient_rs.h:61: "@return HostAndPort or throws an exception".         *)
MasterOrException == crash # "getMaster"

=============================================================================
