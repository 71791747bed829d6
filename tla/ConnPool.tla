------------------------------ MODULE ConnPool ------------------------------
(***************************************************************************)
(* DBConnectionPool and ScopedDbConnection (client/connpool.{h,cpp}): the  *)
(* threads of a process share pooled connections, and make new ones with   *)
(* MessagingPort::connect (ConnectBG.tla).  A connection is an object with *)
(* the failed flag of DBClientConnection and a descriptor.  The pool of a  *)
(* host is a stack, its top first; time passes in hours.                   *)
(***************************************************************************)
EXTENDS ConnectBG, FiniteSets, SequencesExt

CONSTANTS
    MaxConn,   \* bound: connection objects ever made
    MaxTime    \* bound: hours

Conns == 1..MaxConn
Nobody == "nobody"

ASSUME PoolAssumption ==
    /\ MaxConn \in Nat /\ MaxTime \in Nat
    /\ Hosts # {} /\ Nobody \notin Threads

VARIABLES
    pool,      \* host -> _pools[host]._pool
    when,      \* connection -> StoredConnection::when
    status,    \* connection -> "unused", "live" or "deleted"
    host,      \* connection -> the host it was made for
    fd,        \* connection -> its port's socket
    failed,    \* connection -> DBClientConnection::failed
    mutex,     \* the thread that holds _mutex over a network call
    pc,        \* thread -> where it is
    conn,      \* thread -> its connection, 0 if none
    want,      \* thread -> the host it asked for, or is flushing
    all,       \* thread -> the vector of PoolForHost::flush
    unflushed, \* hosts the flush has still to visit
    leaked,    \* history: connections lost by a flush that threw
    now        \* time(0), in hours

connVars == <<status, host, fd, failed>>
thrVars  == <<pc, conn, want>>
poolVars == <<pool, when, connVars, mutex, thrVars, all, unflushed, leaked, now>>
vars     == <<portVars, poolVars>>

PoolTypeOK ==
    /\ PortTypeOK
    /\ pool \in [Hosts -> Seq(Conns)]
    /\ when \in [Conns -> 0..MaxTime]
    /\ status \in [Conns -> {"unused", "live", "deleted"}]
    /\ host \in [Conns -> Hosts]
    /\ fd \in [Conns -> Fds \cup {0}]
    /\ failed \in [Conns -> BOOLEAN]
    /\ mutex \in Threads \cup {Nobody}
    /\ pc \in [Threads -> {"idle", "connect", "connecting", "created", "using",
                           "reconnecting", "flush", "ping"}]
    /\ conn \in [Threads -> 0..MaxConn]
    /\ want \in [Threads -> Hosts]
    /\ all \in [Threads -> Seq(Conns)]
    /\ unflushed \in SUBSET Hosts
    /\ leaked \in SUBSET Conns
    /\ now \in 0..MaxTime

Init ==
    /\ PortInit
    /\ pool = [h \in Hosts |-> <<>>]
    /\ when = [c \in Conns |-> 0]
    /\ status = [c \in Conns |-> "unused"]
    /\ host = [c \in Conns |-> CHOOSE h \in Hosts : TRUE]
    /\ fd = [c \in Conns |-> 0]
    /\ failed = [c \in Conns |-> FALSE]
    /\ mutex = Nobody
    /\ pc = [t \in Threads |-> "idle"]
    /\ conn = [t \in Threads |-> 0]
    /\ want = [t \in Threads |-> CHOOSE h \in Hosts : TRUE]
    /\ all = [t \in Threads |-> <<>>]
    /\ unflushed = {}
    /\ leaked = {}
    /\ now = 0

-----------------------------------------------------------------------------

(* delete conn, for each of cs: ~MessagingPort closes the socket.          *)
Delete(cs) ==
    /\ status' = [c \in Conns |-> IF c \in cs THEN "deleted" ELSE status[c]]
    /\ fdTable' = Closed(fdTable, {fd[c] : c \in cs})
    /\ UNCHANGED <<peer, trying, nextSock, callVars, jobVars, host, fd, failed>>

StoredConnection_ok(c) == now - when[c] < 1

(* PoolForHost::get under _mutex: the first young one from the top, the    *)
(* old ones above it deleted.                                              *)
Get(t, h) ==
    /\ pc[t] = "idle" /\ mutex = Nobody
    /\ want' = [want EXCEPT ![t] = h]
    /\ \E n \in 0..Len(pool[h]) :
          /\ \A i \in 1..n : ~StoredConnection_ok(pool[h][i])
          /\ Delete({pool[h][i] : i \in 1..n})
          /\ \/ /\ n < Len(pool[h]) /\ StoredConnection_ok(pool[h][n + 1])
                /\ conn' = [conn EXCEPT ![t] = pool[h][n + 1]]
                /\ pool' = [pool EXCEPT ![h] = SubSeq(@, n + 2, Len(@))]
                /\ pc' = [pc EXCEPT ![t] = "using"]
             \/ /\ n = Len(pool[h])
                /\ pool' = [pool EXCEPT ![h] = <<>>]
                /\ pc' = [pc EXCEPT ![t] = "connect"]
                /\ UNCHANGED conn
    /\ UNCHANGED <<when, mutex, all, unflushed, leaked, now>>

(* ConnectionString::connect makes an object and connects it.              *)
Connect(t) ==
    /\ pc[t] = "connect"
    /\ PortConnect(t, want[t], fdTable)
    /\ \E c \in Conns :
          /\ status[c] = "unused" /\ \A b \in 1..(c - 1) : status[b] # "unused"
          /\ status' = [status EXCEPT ![c] = "live"]
          /\ host' = [host EXCEPT ![c] = want[t]]
          /\ conn' = [conn EXCEPT ![t] = c]
    /\ pc' = [pc EXCEPT ![t] = "connecting"]
    /\ UNCHANGED <<pool, when, fd, failed, mutex, want, all, unflushed, leaked, now>>

(* No descriptor is left: socket() fails, and get throws.                  *)
NoSocket(t) ==
    /\ pc[t] = "connect" /\ Free(fdTable) = {}
    /\ pc' = [pc EXCEPT ![t] = "idle"]
    /\ UNCHANGED <<portVars, pool, when, connVars, mutex, conn, want, all, unflushed, leaked, now>>

(* The object connects for the first time, or again (below).               *)
Connected(t) ==
    /\ pc[t] \in {"connecting", "reconnecting"}
    /\ ConnectWorks(t)
    /\ fd' = [fd EXCEPT ![conn[t]] = sock[t]]
    /\ failed' = [failed EXCEPT ![conn[t]] = FALSE]
    /\ pc' = [pc EXCEPT ![t] = IF @ = "connecting" THEN "created" ELSE "using"]
    /\ UNCHANGED <<pool, when, status, host, mutex, conn, want, all, unflushed, leaked, now>>

GiveUp(t) ==
    /\ pc[t] \in {"connecting", "reconnecting"}
    /\ ConnectTimesOut(t)
    /\ UNCHANGED poolVars

(* A new object is deleted and get throws; one that reconnects stays       *)
(* failed and in use.                                                      *)
NotConnected(t) ==
    /\ pc[t] \in {"connecting", "reconnecting"}
    /\ ConnectRefused(t) \/ LateEnds(t)
    /\ IF pc[t] = "connecting"
       THEN /\ status' = [status EXCEPT ![conn[t]] = "deleted"]
            /\ conn' = [conn EXCEPT ![t] = 0]
            /\ pc' = [pc EXCEPT ![t] = "idle"]
       ELSE /\ pc' = [pc EXCEPT ![t] = "using"]
            /\ UNCHANGED <<status, conn>>
    /\ UNCHANGED <<pool, when, host, fd, failed, mutex, want, all, unflushed, leaked, now>>

(* _finishCreate takes _mutex to count the new connection.                 *)
FinishCreate(t) ==
    /\ pc[t] = "created" /\ mutex = Nobody
    /\ pc' = [pc EXCEPT ![t] = "using"]
    /\ UNCHANGED <<portVars, pool, when, connVars, mutex, conn, want, all, unflushed, leaked, now>>

-----------------------------------------------------------------------------
(* ScopedDbConnection.                                                     *)

(* An operation on the connection fails.                                   *)
UseFails(t) ==
    /\ pc[t] = "using"
    /\ failed' = [failed EXCEPT ![conn[t]] = TRUE]
    /\ UNCHANGED <<portVars, pool, when, status, host, fd, mutex, thrVars, all,
                   unflushed, leaked, now>>

(* The next operation on a failed connection reconnects; the old port is   *)
(* closed first.                                                           *)
Reconnect(t) ==
    LET c == conn[t]
    IN  /\ pc[t] = "using" /\ failed[c]
        /\ PortConnect(t, host[c], Closed(fdTable, {fd[c]}))
        /\ fd' = [fd EXCEPT ![c] = 0]
        /\ pc' = [pc EXCEPT ![t] = "reconnecting"]
        /\ UNCHANGED <<pool, when, status, host, failed, mutex, conn, want, all,
                       unflushed, leaked, now>>

(* kill(), or the destructor of a ScopedDbConnection that is not done.     *)
Kill(t) ==
    /\ pc[t] = "using"
    /\ Delete({conn[t]})
    /\ conn' = [conn EXCEPT ![t] = 0]
    /\ pc' = [pc EXCEPT ![t] = "idle"]
    /\ UNCHANGED <<pool, when, mutex, want, all, unflushed, leaked, now>>

(* Mutant of Done: release does not ask isFailed().                        *)
DoneUnasked(t) ==
    LET c == conn[t]
    IN  /\ pc[t] = "using"
        /\ mutex = Nobody
        /\ pool' = [pool EXCEPT ![host[c]] = <<c>> \o @]
        /\ when' = [when EXCEPT ![c] = now]
        /\ conn' = [conn EXCEPT ![t] = 0]
        /\ pc' = [pc EXCEPT ![t] = "idle"]
        /\ UNCHANGED <<portVars, connVars, mutex, want, all, unflushed, leaked, now>>

(* Mutant of Done: the ScopedDbConnection keeps its pointer, and is used   *)
(* after done().                                                           *)
DoneKept(t) ==
    LET c == conn[t]
    IN  /\ pc[t] = "using"
        /\ ~failed[c] /\ mutex = Nobody
        /\ pool' = [pool EXCEPT ![host[c]] = <<c>> \o @]
        /\ when' = [when EXCEPT ![c] = now]
        /\ UNCHANGED <<portVars, connVars, mutex, thrVars, all, unflushed, leaked, now>>

(* done(): DBConnectionPool::release deletes a failed connection and puts  *)
(* any other on the stack.                                                 *)
Done(t) ==
    LET c == conn[t]
    IN  /\ pc[t] = "using"
        /\ \/ /\ failed[c]
              /\ Delete({c})
              /\ UNCHANGED <<pool, when>>
           \/ /\ ~failed[c] /\ mutex = Nobody
              /\ pool' = [pool EXCEPT ![host[c]] = <<c>> \o @]
              /\ when' = [when EXCEPT ![c] = now]
              /\ UNCHANGED <<portVars, connVars>>
        /\ conn' = [conn EXCEPT ![t] = 0]
        /\ pc' = [pc EXCEPT ![t] = "idle"]
        /\ UNCHANGED <<mutex, want, all, unflushed, leaked, now>>

-----------------------------------------------------------------------------
(* DBConnectionPool::flush: one thread holds _mutex and talks to every     *)
(* pooled connection.                                                      *)

FlushBegins(t) ==
    /\ pc[t] = "idle" /\ mutex = Nobody
    /\ mutex' = t
    /\ unflushed' = Hosts
    /\ pc' = [pc EXCEPT ![t] = "flush"]
    /\ UNCHANGED <<portVars, pool, when, connVars, conn, want, all, leaked, now>>

(* The next connection is popped and isMaster called on it.                *)
FlushPops(t, h) ==
    /\ pc[t] = "flush" /\ h \in unflushed
    /\ all[t] # <<>> => h = want[t]
    /\ pool[h] # <<>>
    /\ want' = [want EXCEPT ![t] = h]
    /\ all' = [all EXCEPT ![t] = Append(@, Head(pool[h]))]
    /\ pool' = [pool EXCEPT ![h] = Tail(@)]
    /\ pc' = [pc EXCEPT ![t] = "ping"]
    /\ UNCHANGED <<portVars, when, connVars, mutex, conn, unflushed, leaked, now>>

FlushPinged(t) ==
    /\ pc[t] = "ping"
    /\ pc' = [pc EXCEPT ![t] = "flush"]
    /\ UNCHANGED <<portVars, pool, when, connVars, mutex, conn, want, all, unflushed, leaked, now>>

(* isMaster throws: the vector goes, and with it every connection popped   *)
(* so far from this host; nobody deletes them.                             *)
FlushThrows(t) ==
    /\ pc[t] = "ping"
    /\ failed' = [failed EXCEPT ![Last(all[t])] = TRUE]
    /\ leaked' = leaked \cup Range(all[t])
    /\ all' = [all EXCEPT ![t] = <<>>]
    /\ mutex' = Nobody
    /\ pc' = [pc EXCEPT ![t] = "idle"]
    /\ unflushed' = {}
    /\ UNCHANGED <<portVars, pool, when, status, host, fd, conn, want, now>>

(* The host is done: its connections are pushed back, the first popped     *)
(* first, with the time they had.                                          *)
FlushHost(t, h) ==
    /\ pc[t] = "flush" /\ h \in unflushed
    /\ all[t] # <<>> => h = want[t]
    /\ pool[h] = <<>>
    /\ pool' = [pool EXCEPT ![h] = Reverse(all[t])]
    /\ all' = [all EXCEPT ![t] = <<>>]
    /\ unflushed' = unflushed \ {h}
    /\ UNCHANGED <<portVars, when, connVars, mutex, thrVars, leaked, now>>

FlushEnds(t) ==
    /\ pc[t] = "flush" /\ unflushed = {}
    /\ mutex' = Nobody
    /\ pc' = [pc EXCEPT ![t] = "idle"]
    /\ UNCHANGED <<portVars, pool, when, connVars, conn, want, all, unflushed, leaked, now>>

-----------------------------------------------------------------------------

Tick ==
    /\ now < MaxTime
    /\ now' = now + 1
    /\ UNCHANGED <<portVars, pool, when, connVars, mutex, thrVars, all, unflushed, leaked>>

JobStep(t) == Job(t) /\ UNCHANGED poolVars

Waits(t) == Connected(t) \/ GiveUp(t) \/ NotConnected(t)

Flush(t) ==
    \/ FlushBegins(t) \/ FlushPinged(t) \/ FlushThrows(t) \/ FlushEnds(t)
    \/ \E h \in Hosts : FlushPops(t, h) \/ FlushHost(t, h)

Scoped(t) ==
    \/ \E h \in Hosts : Get(t, h)
    \/ Connect(t) \/ NoSocket(t) \/ FinishCreate(t)
    \/ UseFails(t) \/ Reconnect(t) \/ Kill(t) \/ Done(t)

Next == (\E t \in Threads : Scoped(t) \/ Waits(t) \/ Flush(t) \/ JobStep(t)) \/ Tick

Spec == Init /\ [][Next]_vars

(* ::connect returns in the end, and threads that can run do.              *)
FairSpec ==
    /\ Spec
    /\ \A t \in Threads : WF_vars(JobStep(t)) /\ WF_vars(Connected(t) \/ NotConnected(t))

-----------------------------------------------------------------------------
(* Properties.                                                             *)

(* The places that hold a pointer to connection c.                         *)
Places(c) ==
    (UNION {{<<"pool", h, i>> : i \in {j \in 1..Len(pool[h]) : pool[h][j] = c}} : h \in Hosts})
    \cup {<<"thread", t, 0>> : t \in {u \in Threads : conn[u] = c}}
    \cup (UNION {{<<"flush", t, i>> : i \in {j \in 1..Len(all[t]) : all[t][j] = c}} : t \in Threads})

(* A connection has one owner as long as it lives - a stack, a             *)
(* ScopedDbConnection or the vector of a flush - and none afterwards:      *)
(* never handed to two threads, never used or deleted after it is deleted  *)
(* (connpool.cpp:39-71, connpool.h:134-141, :213-235).  Connections that a *)
(* flush drops when isMaster throws (connpool.cpp:58-66) have no owner.    *)
OneOwner ==
    \A c \in Conns :
        Cardinality(Places(c)) = IF status[c] = "live" /\ c \notin leaked THEN 1 ELSE 0

(* The pool and who owns what, with the types of the variables.            *)
PoolInv == PoolTypeOK /\ OneOwner

(* A connection waits in the stack of its own host and is not failed:      *)
(* whoever gets it need not reconnect first (connpool.h:134-141).          *)
PooledUsable ==
    \A h \in Hosts : \A c \in Range(pool[h]) : host[c] = h /\ ~failed[c]

(* An open descriptor belongs to one connection, or to one thread that is  *)
(* connecting: none is closed under its owner, none is forgotten           *)
(* (message.cpp:384-399).                                                  *)
SocketOwned ==
    \A f \in Fds : fdTable[f] # 0 =>
        Cardinality({<<"conn", c>> : c \in {d \in Conns : status[d] = "live" /\ fd[d] = f}}
                    \cup {<<"thread", t>> : t \in {u \in Threads : sock[u] = f}}) = 1

(* A connection that is not failed talks to the host it was made for.  The *)
(* hole: a job that starts after its caller gave up calls ::connect on a   *)
(* descriptor that may by then be somebody else's (message.cpp:361,        *)
(* :393-397).                                                              *)
RightPeer ==
    ~stray => \A c \in Conns :
        status[c] = "live" /\ ~failed[c] /\ fd[c] # 0 => peer[fdTable[fd[c]]] = host[c]

(* Descriptors belong to whom they should and lead where they should.      *)
DescriptorInv == SocketOwned /\ RightPeer

(* The ConnectBG object outlives its thread ("so bg stays in scope until   *)
(* bg thread terminates", message.cpp:397).                                *)
InScope == \A t \in Threads : fg[t] = "out" => bg[t] = "none"

(* MessagingPort::connect returns when ::connect does, whether or not the  *)
(* five seconds passed (message.cpp:384-399, background.cpp:77-108).       *)
ConnectReturns == \A t \in Threads : fg[t] # "out" ~> fg[t] = "out"

=============================================================================
