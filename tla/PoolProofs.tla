----------------------------- MODULE PoolProofs -----------------------------
(***************************************************************************)
(* Theorems about ConnPool: for every number of threads, hosts,            *)
(* descriptors, sockets and connections.                                   *)
(***************************************************************************)
EXTENDS ConnPool, SequenceTheorems, FiniteSetTheorems, TLAPS

-----------------------------------------------------------------------------
(* The inductive invariant.                                                *)

(* connect() and its job: the job ends before connect() returns.           *)
JobInv ==
    \A t \in Threads :
        /\ fg[t] = "out" => bg[t] = "none"
        /\ bg[t] # "none" => state[t] # "Done" /\ bgFd[t] # 0
        /\ fg[t] = "wait" <=> sock[t] # 0
        /\ fg[t] = "wait" => bgFd[t] = sock[t]

(* Where a thread is, and what it has in its hands there.                  *)
PcOf(t) ==
    /\ fg[t] # "out" <=> pc[t] \in {"connecting", "reconnecting"}
    /\ fg[t] # "out" => fd[conn[t]] = 0 /\ far[t] = host[conn[t]]
    /\ conn[t] # 0 <=> pc[t] \in {"connecting", "created", "using", "reconnecting"}
    /\ pc[t] \in {"flush", "ping"} => mutex = t
    /\ all[t] # <<>> => pc[t] \in {"flush", "ping"} /\ want[t] \in unflushed
    /\ pc[t] = "ping" => all[t] # <<>>

PcInv == \A t \in Threads : PcOf(t)

Elems(s)    == {s[i] : i \in 1..Len(s)}
Distinct(s) == \A i, j \in 1..Len(s) : s[i] = s[j] => i = j

(* The connections that are in a stack or a vector, that somebody has a    *)
(* pointer to, that are not failed.                                        *)
pooled   == [h \in Hosts |-> Elems(pool[h])]
flushing == [t \in Threads |-> Elems(all[t])]
owned    == {c \in Conns : status[c] = "live" /\ c \notin leaked}
sound    == {c \in Conns : ~failed[c]}

(* Who has a connection of O: the stack of its host (P), a thread (C), or  *)
(* the vector of a flush (A) of its host (W).                              *)
OneHas(P, A, W, C, O, S, H) ==
    /\ \A h \in Hosts : \A c \in P[h] : c \in O /\ c \in S /\ H[c] = h
    /\ \A t \in Threads : \A c \in A[t] : c \in O /\ c \in S /\ H[c] = W[t]
    /\ \A t \in Threads : C[t] # 0 => C[t] \in O
    /\ \A t, u \in Threads : C[t] = C[u] /\ C[t] # 0 => t = u
    /\ \A h \in Hosts, t \in Threads : \A c \in P[h] : c \notin A[t] /\ c # C[t]
    /\ \A t, u \in Threads : \A c \in A[t] : c # C[u]
    /\ \A c \in O : \/ \E h \in Hosts : c \in P[h]
                    \/ \E t \in Threads : C[t] = c \/ c \in A[t]

OwnInv ==
    /\ \A h \in Hosts : Distinct(pool[h])
    /\ \A t \in Threads : Distinct(all[t])
    /\ OneHas(pooled, flushing, want, conn, owned, sound, host)
    /\ \A c \in leaked : status[c] = "live"

(* Whose descriptor is whose.                                              *)
FdInv ==
    /\ \A c \in Conns : status[c] = "unused" => fd[c] = 0
    /\ \A c, d \in Conns :
          status[c] = "live" /\ status[d] = "live" /\ fd[c] = fd[d] /\ fd[c] # 0 => c = d
    /\ \A t, u \in Threads : sock[t] = sock[u] /\ sock[t] # 0 => t = u
    /\ \A c \in Conns, t \in Threads : status[c] = "live" /\ fd[c] # 0 => fd[c] # sock[t]
    /\ \A f \in Fds : fdTable[f] # 0 <=> \/ \E c \in Conns : status[c] = "live" /\ fd[c] = f
                                         \/ \E t \in Threads : sock[t] = f

(* Sockets are made in order and each has one descriptor at most.          *)
SockInv ==
    /\ \A f \in Fds : fdTable[f] <= nextSock
    /\ \A f, g \in Fds : fdTable[f] = fdTable[g] /\ fdTable[f] # 0 => f = g
    /\ \A s \in Sockets : s > nextSock => peer[s] = NoHost /\ trying[s] = NoHost
    /\ \A t \in Threads : bg[t] = "connect" => bgSock[t] \in 1..nextSock

(* As long as no job has touched a socket that is not its caller's, a job  *)
(* works on its caller's socket, or on one that has no descriptor any more.*)
JobSocket(t) ==
    LET s == fdTable[sock[t]]
    IN  /\ fg[t] = "wait" =>
              /\ bg[t] \in {"start", "run"} => peer[s] = NoHost /\ trying[s] = NoHost
              /\ bg[t] = "connect" => /\ bgSock[t] = s /\ peer[s] = NoHost
                                      /\ trying[s] \in {far[t], NoHost}
              /\ res[t] = "ok" => peer[s] = far[t]
        /\ fg[t] = "late" /\ bg[t] = "connect" => \A f \in Fds : fdTable[f] # bgSock[t]

PeerInv ==
    ~stray => (\A t \in Threads : JobSocket(t)) /\ RightPeer

IInv == PoolTypeOK /\ JobInv /\ PcInv /\ OwnInv /\ FdInv /\ SockInv /\ PeerInv

-----------------------------------------------------------------------------
(* Each part of the invariant reads few of the variables.                  *)

LEMMA JobFrame == JobInv /\ UNCHANGED <<fg, bg, state, sock, bgFd>> => JobInv'
BY DEF JobInv

LEMMA PcFrame ==
  PcInv /\ UNCHANGED <<fg, pc, fd, conn, far, host, mutex, all, want, unflushed>> => PcInv'
BY DEF PcInv, PcOf

LEMMA OwnFrame ==
  OwnInv /\ UNCHANGED <<pool, all, status, leaked, host, failed, want, conn>> => OwnInv'
BY DEF OwnInv, pooled, flushing, owned, sound

LEMMA FdFrame == FdInv /\ UNCHANGED <<status, fd, sock, fdTable>> => FdInv'
BY DEF FdInv

LEMMA SockFrame == SockInv /\ UNCHANGED <<fdTable, nextSock, peer, trying, bg, bgSock>> => SockInv'
BY DEF SockInv

(* A connection that is failed, or gone, is no concern of RightPeer.       *)
LEMMA PeerFrame ==
  ASSUME PeerInv, UNCHANGED <<portVars, fd, host>>,
         \A c \in Conns : status'[c] = "live" /\ ~failed'[c] => status[c] = "live" /\ ~failed[c]
  PROVE  PeerInv'
<1>1. UNCHANGED <<fdTable, peer, trying, fg, sock, far, bg, bgSock, res, stray>>
  BY DEF portVars, kernelVars, callVars, jobVars
<1>2. \A t \in Threads : JobSocket(t) => JobSocket(t)'
  BY <1>1 DEF JobSocket
<1> QED
  BY <1>1, <1>2 DEF PeerInv, RightPeer

-----------------------------------------------------------------------------
(* Facts about stacks and vectors.                                         *)

LEMMA EmptyElems == Elems(<<>>) = {} /\ Distinct(<<>>)
BY DEF Elems, Distinct

LEMMA ElemsType == ASSUME NEW S, NEW s \in Seq(S) PROVE Elems(s) \subseteq S
BY ElementOfSeq DEF Elems

LEMMA NonEmpty == ASSUME NEW S, NEW s \in Seq(S), s # <<>> PROVE Len(s) \in Nat /\ Len(s) > 0 /\ Head(s) \in Elems(s)
<1>1. Len(s) \in Nat /\ Len(s) > 0
  BY LenProperties, EmptySeq
<1>2. Head(s) = s[1] /\ 1 \in 1..Len(s)
  BY <1>1
<1> QED
  BY <1>1, <1>2 DEF Elems

LEMMA PushElems ==
  ASSUME NEW S, NEW s \in Seq(S), NEW c \in S
  PROVE  /\ <<c>> \o s \in Seq(S)
         /\ Elems(<<c>> \o s) = {c} \cup Elems(s)
         /\ Distinct(s) /\ c \notin Elems(s) => Distinct(<<c>> \o s)
<1> DEFINE one == <<c>>
           r == one \o s
<1>1. one \in Seq(S) /\ Len(one) = 1 /\ one[1] = c /\ Len(s) \in Nat
  BY LenProperties
<1> HIDE DEF one
<1>2. /\ r \in Seq(S) /\ Len(r) = Len(s) + 1
      /\ \A i \in 1..(Len(s) + 1) : r[i] = IF i <= 1 THEN one[i] ELSE s[i - 1]
  <2>1. /\ r \in Seq(S) /\ Len(r) = Len(one) + Len(s)
        /\ \A i \in 1..(Len(one) + Len(s)) : r[i] = IF i <= Len(one) THEN one[i] ELSE s[i - Len(one)]
    BY <1>1, ConcatProperties
  <2> HIDE DEF r
  <2> QED
    BY <1>1, <2>1
<1> HIDE DEF r
<1>3. r[1] = c /\ \A i \in 1..Len(s) : i + 1 \in 1..Len(r) /\ r[i + 1] = s[i]
  BY <1>1, <1>2
<1>4. \A i \in 1..Len(r) : i # 1 => i - 1 \in 1..Len(s) /\ r[i] = s[i - 1]
  BY <1>1, <1>2
<1>5. Elems(r) = {c} \cup Elems(s)
  <2>1. ASSUME NEW i \in 1..Len(r) PROVE r[i] \in {c} \cup Elems(s)
    <3>1. CASE i = 1
      BY <1>3, <3>1
    <3>2. CASE i # 1
      BY <1>4, <3>2 DEF Elems
    <3> QED
      BY <3>1, <3>2
  <2>2. c \in Elems(r)
    BY <1>1, <1>2, <1>3 DEF Elems
  <2>3. ASSUME NEW i \in 1..Len(s) PROVE s[i] \in Elems(r)
    BY <1>3 DEF Elems
  <2> QED
    BY <2>1, <2>2, <2>3 DEF Elems
<1>6. ASSUME Distinct(s), c \notin Elems(s) PROVE Distinct(r)
  <2> SUFFICES ASSUME NEW i \in 1..Len(r), NEW j \in 1..Len(r), r[i] = r[j] PROVE i = j
    BY DEF Distinct
  <2>1. CASE i = 1 \/ j = 1
    BY <1>3, <1>4, <1>6, <2>1 DEF Elems
  <2>2. CASE i # 1 /\ j # 1
    <3>1. i - 1 = j - 1
      BY <1>4, <1>6, <2>2 DEF Distinct
    <3> QED
      BY <1>1, <1>2, <3>1
  <2> QED
    BY <2>1, <2>2
<1> QED
  BY <1>2, <1>5, <1>6 DEF r, one

LEMMA AppendElems ==
  ASSUME NEW S, NEW s \in Seq(S), NEW c \in S
  PROVE  /\ Append(s, c) \in Seq(S) /\ Append(s, c) # <<>>
         /\ Elems(Append(s, c)) = {c} \cup Elems(s)
         /\ Distinct(s) /\ c \notin Elems(s) => Distinct(Append(s, c))
<1> DEFINE r == Append(s, c)
<1>1. /\ Len(s) \in Nat /\ r \in Seq(S) /\ r # <<>> /\ Len(r) = Len(s) + 1
      /\ \A i \in 1..Len(s) : r[i] = s[i]
      /\ r[Len(s) + 1] = c
  BY LenProperties, AppendProperties
<1> HIDE DEF r
<1>2. Elems(r) = {c} \cup Elems(s)
  <2>1. Elems(r) \subseteq {c} \cup Elems(s)
    BY <1>1 DEF Elems
  <2>2. {c} \cup Elems(s) \subseteq Elems(r)
    BY <1>1 DEF Elems
  <2> QED
    BY <2>1, <2>2
<1>3. ASSUME Distinct(s), c \notin Elems(s) PROVE Distinct(r)
  BY <1>1, <1>3 DEF Distinct, Elems
<1> QED
  BY <1>1, <1>2, <1>3 DEF r

(* A stack without its n topmost.                                          *)
LEMMA DropElems ==
  ASSUME NEW S, NEW s \in Seq(S), NEW n \in 0..Len(s), Distinct(s)
  PROVE  LET r == SubSeq(s, n + 1, Len(s))
             d == {s[i] : i \in 1..n}
         IN  /\ r \in Seq(S) /\ Distinct(r)
             /\ Elems(s) = Elems(r) \cup d /\ Elems(r) \cap d = {}
<1> DEFINE r == SubSeq(s, n + 1, Len(s))
           d == {s[i] : i \in 1..n}
<1>1. Len(s) \in Nat /\ n \in Nat /\ n <= Len(s) /\ \A i \in (n + 1)..Len(s) : s[i] \in S
  BY LenProperties, ElementOfSeq
<1>2. r \in Seq(S) /\ Len(r) = Len(s) - n /\ \A i \in 1..(Len(s) - n) : r[i] = s[n + i]
  <2>1. /\ r \in Seq(S)
        /\ Len(r) = IF n + 1 <= Len(s) THEN Len(s) - (n + 1) + 1 ELSE 0
        /\ \A i \in 1..(Len(s) - (n + 1) + 1) : r[i] = s[(n + 1) + i - 1]
    BY <1>1, SubSeqProperties
  <2> HIDE DEF r
  <2> QED
    BY <1>1, <2>1
<1> HIDE DEF r
<1>3. \A i \in 1..Len(s) : i <= n \/ (i - n \in 1..Len(r) /\ r[i - n] = s[i])
  BY <1>1, <1>2
<1>4. \A i \in 1..Len(r) : n + i \in 1..Len(s) /\ n + i > n /\ r[i] = s[n + i]
  BY <1>1, <1>2
<1>5. Distinct(r)
  <2> SUFFICES ASSUME NEW i \in 1..Len(r), NEW j \in 1..Len(r), r[i] = r[j] PROVE i = j
    BY DEF Distinct
  <2>1. n + i = n + j
    BY <1>4 DEF Distinct
  <2> QED
    BY <1>1, <1>2, <2>1
<1>6. Elems(s) = Elems(r) \cup d
  <2>1. \A i \in 1..Len(s) : s[i] \in Elems(r) \cup d
    BY <1>1, <1>3, SMTT(30) DEF Elems
  <2>2. \A i \in 1..Len(r) : r[i] \in Elems(s)
    BY <1>4 DEF Elems
  <2>3. \A i \in 1..n : s[i] \in Elems(s)
    BY <1>1 DEF Elems
  <2> QED
    BY <2>1, <2>2, <2>3 DEF Elems
<1>7. Elems(r) \cap d = {}
  <2> SUFFICES ASSUME NEW i \in 1..Len(r), NEW j \in 1..n, r[i] = s[j] PROVE FALSE
    BY DEF Elems
  <2>1. n + i = j
    BY <1>1, <1>4 DEF Distinct
  <2> QED
    BY <1>1, <1>4, <2>1
<1> QED
  BY <1>2, <1>5, <1>6, <1>7 DEF r

LEMMA ReverseElems ==
  ASSUME NEW S, NEW s \in Seq(S), Distinct(s)
  PROVE  Reverse(s) \in Seq(S) /\ Distinct(Reverse(s)) /\ Elems(Reverse(s)) = Elems(s)
<1> DEFINE r == Reverse(s)
<1>1. Len(s) \in Nat /\ \A i \in 1..Len(s) : s[i] \in S
  BY LenProperties, ElementOfSeq
<1>2. r = [i \in 1..Len(s) |-> s[(Len(s) - i) + 1]]
  BY DEF Reverse
<1>3. \A i \in 1..Len(s) : (Len(s) - i) + 1 \in 1..Len(s) /\ r[i] = s[(Len(s) - i) + 1]
  BY <1>1, <1>2
<1>4. r \in Seq(S) /\ Len(r) = Len(s)
  BY <1>1, <1>2, <1>3, IsASeq
<1> HIDE DEF r
<1>5. Distinct(r)
  <2> SUFFICES ASSUME NEW i \in 1..Len(s), NEW j \in 1..Len(s), r[i] = r[j] PROVE i = j
    BY <1>4 DEF Distinct
  <2>1. (Len(s) - i) + 1 = (Len(s) - j) + 1
    BY <1>3 DEF Distinct
  <2> QED
    BY <1>1, <2>1
<1>6. \A i \in 1..Len(s) : r[(Len(s) - i) + 1] = s[i]
  <2>1. \A i \in 1..Len(s) : (Len(s) - ((Len(s) - i) + 1)) + 1 = i
    BY <1>1
  <2> QED
    BY <1>3, <2>1
<1>7. Elems(r) = Elems(s)
  <2>1. Elems(r) \subseteq Elems(s)
    BY <1>3, <1>4 DEF Elems
  <2>2. Elems(s) \subseteq Elems(r)
    BY <1>3, <1>4, <1>6 DEF Elems
  <2> QED
    BY <2>1, <2>2
<1> QED
  BY <1>4, <1>5, <1>7 DEF r

-----------------------------------------------------------------------------
(* The invariant holds initially.                                          *)

LEMMA InitInv == Init => IInv
<1> SUFFICES ASSUME Init PROVE IInv
  OBVIOUS
<1>0. (CHOOSE h \in Hosts : TRUE) \in Hosts
  BY PoolAssumption
<1>1. PortTypeOK
  <2>1. stray \in BOOLEAN
    BY Zenon DEF Init, PortInit
  <2> QED
    BY <2>1, ConnectAssumption DEF Init, PortInit, PortTypeOK
<1>2. PoolTypeOK
  <2>1. failed \in [Conns -> BOOLEAN]
    <3>1. FALSE \in BOOLEAN /\ failed = [c \in Conns |-> FALSE]
      BY Zenon DEF Init
    <3> QED
      BY <3>1, Zenon
  <2> QED
    BY <1>0, <1>1, <2>1, PoolAssumption DEF Init, PoolTypeOK
<1>3. /\ \A t \in Threads : /\ fg[t] = "out" /\ bg[t] = "none" /\ sock[t] = 0 /\ pc[t] = "idle"
                            /\ conn[t] = 0 /\ all[t] = <<>> /\ state[t] = "none"
      /\ \A h \in Hosts : pool[h] = <<>>
      /\ \A c \in Conns : status[c] = "unused" /\ fd[c] = 0
      /\ \A f \in Fds : fdTable[f] = 0
      /\ nextSock = 0
      /\ \A s \in Sockets : peer[s] = NoHost /\ trying[s] = NoHost
  BY DEF Init, PortInit
<1>4. 0 \notin Fds /\ Fds \subseteq Nat /\ 0 \notin Conns
  BY ConnectAssumption DEF Conns
<1>5. JobInv /\ PcInv
  BY <1>3 DEF JobInv, PcInv, PcOf
<1>6. OwnInv
  <2>1. owned = {} /\ (\A h \in Hosts : pooled[h] = {}) /\ (\A t \in Threads : flushing[t] = {})
    BY <1>3, EmptyElems DEF owned, pooled, flushing
  <2>2. leaked = {}
    BY DEF Init
  <2> QED
    BY <1>3, <2>1, <2>2, EmptyElems DEF OwnInv, OneHas
<1>7. FdInv /\ SockInv
  BY <1>3, <1>4 DEF FdInv, SockInv
<1>8. PeerInv
  BY <1>3 DEF PeerInv, JobSocket, RightPeer
<1> QED
  BY <1>2, <1>5, <1>6, <1>7, <1>8 DEF IInv

-----------------------------------------------------------------------------
(* Steps of the pool that leave the sockets and the connections alone.     *)

LEMMA PortTypes == PortTypeOK /\ UNCHANGED portVars => PortTypeOK'
BY DEF PortTypeOK, portVars, kernelVars, callVars, jobVars

LEMMA PoolFrames ==
  ASSUME IInv, UNCHANGED <<portVars, connVars>>
  PROVE  PortTypeOK' /\ JobInv' /\ FdInv' /\ SockInv' /\ PeerInv'
<1>1. UNCHANGED <<fdTable, peer, trying, nextSock, fg, sock, far, state, bg, bgFd, bgSock, res, stray>>
  BY DEF portVars, kernelVars, callVars, jobVars
<1>2. UNCHANGED <<status, host, fd, failed>>
  BY DEF connVars
<1>3. PortTypeOK'
  BY PortTypes DEF IInv, PoolTypeOK
<1>4. JobInv' /\ FdInv' /\ SockInv'
  BY <1>1, <1>2, JobFrame, FdFrame, SockFrame DEF IInv
<1>5. PeerInv'
  BY <1>2, PeerFrame DEF IInv
<1> QED
  BY <1>3, <1>4, <1>5

(* A thread moves on with nothing in its hands, or takes or frees _mutex.  *)
LEMMA MoveInv ==
  ASSUME IInv, NEW t \in Threads,
         NoSocket(t) \/ FinishCreate(t) \/ FlushBegins(t) \/ FlushPinged(t) \/ FlushEnds(t)
  PROVE  IInv'
<1>0. PoolTypeOK /\ PcInv /\ OwnInv /\ Nobody \notin Threads
  BY PoolAssumption DEF IInv
<1>1. /\ UNCHANGED <<portVars, connVars>>
      /\ UNCHANGED <<pool, when, conn, want, all, leaked, now>>
      /\ UNCHANGED <<fg, far, fd, host, status, failed>>
  BY DEF NoSocket, FinishCreate, FlushBegins, FlushPinged, FlushEnds, connVars, portVars, callVars
<1>2. PortTypeOK' /\ JobInv' /\ FdInv' /\ SockInv' /\ PeerInv'
  BY <1>1, PoolFrames
<1>3. OwnInv'
  BY <1>0, <1>1, OwnFrame
<1>4. \/ pc[t] = "connect" /\ pc' = [pc EXCEPT ![t] = "idle"] /\ UNCHANGED <<mutex, unflushed>>
      \/ pc[t] = "created" /\ pc' = [pc EXCEPT ![t] = "using"] /\ UNCHANGED <<mutex, unflushed>>
      \/ /\ pc[t] = "idle" /\ pc' = [pc EXCEPT ![t] = "flush"] /\ mutex = Nobody /\ mutex' = t
         /\ unflushed' = Hosts
      \/ pc[t] = "ping" /\ pc' = [pc EXCEPT ![t] = "flush"] /\ UNCHANGED <<mutex, unflushed>>
      \/ /\ pc[t] = "flush" /\ pc' = [pc EXCEPT ![t] = "idle"] /\ mutex' = Nobody
         /\ unflushed = {} /\ unflushed' = unflushed
  BY DEF NoSocket, FinishCreate, FlushBegins, FlushPinged, FlushEnds
<1>5. PoolTypeOK'
  BY <1>0, <1>1, <1>2, <1>4 DEF PoolTypeOK
<1>6. PcInv'
  <2>1. ASSUME NEW u \in Threads, u # t PROVE PcOf(u)'
    <3>1. PcOf(u) /\ PcOf(t) /\ pc'[u] = pc[u]
      BY <1>0, <1>4, <2>1 DEF PcInv, PoolTypeOK
    <3>2. pc[u] \in {"flush", "ping"} => UNCHANGED <<mutex, unflushed>>
      BY <1>0, <1>4, <2>1, <3>1 DEF PcOf
    <3> QED
      BY <1>1, <3>1, <3>2 DEF PcOf
  <2>2. PcOf(t)'
    <3>1. PcOf(t) /\ pc \in [Threads -> {"idle", "connect", "connecting", "created", "using",
                                          "reconnecting", "flush", "ping"}]
      BY <1>0 DEF PcInv, PoolTypeOK
    <3> QED
      BY <1>0, <1>1, <1>4, <3>1 DEF PcOf
  <2> QED
    BY <2>1, <2>2 DEF PcInv
<1> QED
  BY <1>2, <1>3, <1>5, <1>6 DEF IInv

LEMMA QuietInv == ASSUME IInv, Tick \/ UNCHANGED vars PROVE IInv'
<1>0. PoolTypeOK /\ PcInv /\ OwnInv
  BY DEF IInv
<1>1. /\ UNCHANGED <<portVars, connVars>>
      /\ UNCHANGED <<pool, when, mutex, pc, conn, want, all, unflushed, leaked>>
      /\ UNCHANGED <<fg, far, fd, host, status, failed>>
  BY DEF Tick, vars, poolVars, connVars, portVars, callVars, thrVars
<1>2. PortTypeOK' /\ JobInv' /\ FdInv' /\ SockInv' /\ PeerInv'
  BY <1>1, PoolFrames
<1>3. now' \in 0..MaxTime
  BY <1>0, PoolAssumption DEF PoolTypeOK, Tick, vars, poolVars
<1>4. PoolTypeOK'
  BY <1>0, <1>1, <1>2, <1>3 DEF PoolTypeOK
<1>5. PcInv' /\ OwnInv'
  BY <1>0, <1>1, PcFrame, OwnFrame
<1> QED
  BY <1>2, <1>4, <1>5 DEF IInv

-----------------------------------------------------------------------------
(* Steps that move a connection between the stacks, a thread and a vector. *)

LEMMA TailElems ==
  ASSUME NEW S, NEW s \in Seq(S), s # <<>>, Distinct(s)
  PROVE  /\ Tail(s) \in Seq(S) /\ Distinct(Tail(s))
         /\ Elems(s) = Elems(Tail(s)) \cup {Head(s)} /\ Head(s) \notin Elems(Tail(s))
<1>1. Len(s) \in Nat /\ Len(s) > 0 /\ Tail(s) = SubSeq(s, 2, Len(s)) /\ Head(s) = s[1]
  BY NonEmpty, TailIsSubSeq
<1>2. 1 \in 0..Len(s) /\ 1 + 1 = 2
  BY <1>1
<1>3. {s[i] : i \in 1..1} = {Head(s)}
  BY <1>1
<1>4. /\ SubSeq(s, 1 + 1, Len(s)) \in Seq(S) /\ Distinct(SubSeq(s, 1 + 1, Len(s)))
      /\ Elems(s) = Elems(SubSeq(s, 1 + 1, Len(s))) \cup {s[i] : i \in 1..1}
      /\ Elems(SubSeq(s, 1 + 1, Len(s))) \cap {s[i] : i \in 1..1} = {}
  BY <1>2, DropElems
<1> QED
  BY <1>1, <1>2, <1>3, <1>4

(* While one thread flushes, no other has a vector, or frees _mutex.       *)
LEMMA OneFlush ==
  ASSUME IInv, NEW t \in Threads, pc[t] \in {"flush", "ping"}, NEW u \in Threads, u # t
  PROVE  all[u] = <<>> /\ pc[u] \notin {"flush", "ping"} /\ mutex # Nobody
BY PoolAssumption DEF IInv, PcInv, PcOf

(* How a connection changes hands, in terms of OneHas.                     *)

LEMMA PopMove ==
  ASSUME NEW P \in [Hosts -> SUBSET Conns], NEW A \in [Threads -> SUBSET Conns],
         NEW W \in [Threads -> Hosts], NEW C, NEW O, NEW S, NEW H,
         NEW t \in Threads, NEW h \in Hosts, NEW c \in P[h],
         \A u \in Threads : u # t => A[u] = {},
         A[t] # {} => W[t] = h,
         OneHas(P, A, W, C, O, S, H)
  PROVE  OneHas([P EXCEPT ![h] = P[h] \ {c}], [A EXCEPT ![t] = A[t] \cup {c}],
                [W EXCEPT ![t] = h], C, O, S, H)
<1> DEFINE P2 == [P EXCEPT ![h] = P[h] \ {c}]
           A2 == [A EXCEPT ![t] = A[t] \cup {c}]
           W2 == [W EXCEPT ![t] = h]
<1>1. /\ \A k \in Hosts : \A d : d \in P2[k] <=> d \in P[k] /\ d # c
      /\ \A u \in Threads : \A d : d \in A2[u] <=> d \in A[u] \/ (u = t /\ d = c)
      /\ \A u \in Threads : W2[u] = IF u = t THEN h ELSE W[u]
  BY DEF OneHas
<1> HIDE DEF P2, A2, W2
<1> QED
  BY <1>1 DEF OneHas

LEMMA PushBack ==
  ASSUME NEW P \in [Hosts -> SUBSET Conns], NEW A \in [Threads -> SUBSET Conns],
         NEW W \in [Threads -> Hosts], NEW C, NEW O, NEW S, NEW H,
         NEW t \in Threads, NEW h \in Hosts, P[h] = {},
         \A u \in Threads : u # t => A[u] = {},
         A[t] # {} => W[t] = h,
         OneHas(P, A, W, C, O, S, H)
  PROVE  OneHas([P EXCEPT ![h] = A[t]], [A EXCEPT ![t] = {}], W, C, O, S, H)
<1> DEFINE P2 == [P EXCEPT ![h] = A[t]]
           A2 == [A EXCEPT ![t] = {}]
<1>1. /\ \A k \in Hosts : \A d : d \in P2[k] <=> d \in P[k] \/ (k = h /\ d \in A[t])
      /\ \A u \in Threads : \A d : d \notin A2[u]
      /\ \A u \in Threads : \A d : d \in A[u] => u = t
  OBVIOUS
<1> HIDE DEF P2, A2
<1> QED
  BY <1>1 DEF OneHas

LEMMA VectorLost ==
  ASSUME NEW P \in [Hosts -> SUBSET Conns], NEW A \in [Threads -> SUBSET Conns],
         NEW W, NEW C, NEW O, NEW S, NEW H,
         NEW t \in Threads, NEW x \in A[t],
         \A u \in Threads : u # t => A[u] = {},
         OneHas(P, A, W, C, O, S, H)
  PROVE  OneHas(P, [A EXCEPT ![t] = {}], W, C, O \ A[t], S \ {x}, H)
<1> DEFINE A2 == [A EXCEPT ![t] = {}]
<1>1. /\ \A u \in Threads : \A d : d \notin A2[u]
      /\ \A u \in Threads : \A d : d \in A[u] => u = t
  OBVIOUS
<1> HIDE DEF A2
<1> QED
  BY <1>1 DEF OneHas

LEMMA GiveBack ==
  ASSUME NEW P \in [Hosts -> SUBSET Conns], NEW A \in [Threads -> SUBSET Conns], NEW W,
         NEW C \in [Threads -> 0..MaxConn], NEW O, NEW S, NEW H,
         NEW t \in Threads, C[t] \in Conns, C[t] \in S, H[C[t]] \in Hosts,
         OneHas(P, A, W, C, O, S, H)
  PROVE  OneHas([P EXCEPT ![H[C[t]]] = P[H[C[t]]] \cup {C[t]}], A, W, [C EXCEPT ![t] = 0], O, S, H)
<1> DEFINE c == C[t]
           P2 == [P EXCEPT ![H[c]] = P[H[c]] \cup {c}]
           C2 == [C EXCEPT ![t] = 0]
<1>0. \A d \in Conns : d # 0
  BY PoolAssumption DEF Conns
<1>1. /\ \A k \in Hosts : \A d : d \in P2[k] <=> d \in P[k] \/ (k = H[c] /\ d = c)
      /\ \A u \in Threads : C2[u] = IF u = t THEN 0 ELSE C[u]
      /\ c # 0 /\ c = C[t]
  BY <1>0
<1> HIDE DEF P2, C2, c
<1>2. (\A k \in Hosts : \A d \in P[k] : d # 0) /\ (\A u \in Threads : \A d \in A[u] : d # 0)
  BY <1>0
<1>3. \A u \in Threads : C2[u] # 0 => u # t /\ C2[u] = C[u]
  BY <1>1
<1>4. c \in O /\ c \in S /\ H[c] \in Hosts /\ \A u \in Threads : C2[u] # c /\ c \notin A[u]
  BY <1>1 DEF OneHas, c
<1>5. \A k \in Hosts, u \in Threads : \A d \in P2[k] : d \notin A[u] /\ d # C2[u]
  BY <1>1, <1>2, <1>3, <1>4 DEF OneHas
<1>6. \A v, u \in Threads : \A d \in A[v] : d # C2[u]
  BY <1>1, <1>2, <1>3, <1>4 DEF OneHas
<1>7. \A d \in O : \/ \E k \in Hosts : d \in P2[k]
                   \/ \E u \in Threads : C2[u] = d \/ d \in A[u]
  BY <1>1, <1>3, <1>4 DEF OneHas
<1> QED
  BY <1>1, <1>2, <1>3, <1>4, <1>5, <1>6, <1>7 DEF OneHas

LEMMA Dropped ==
  ASSUME NEW P \in [Hosts -> SUBSET Conns], NEW A \in [Threads -> SUBSET Conns], NEW W,
         NEW C \in [Threads -> 0..MaxConn], NEW O \in SUBSET Conns, NEW S, NEW H,
         NEW t \in Threads, C[t] # 0,
         OneHas(P, A, W, C, O, S, H)
  PROVE  OneHas(P, A, W, [C EXCEPT ![t] = 0], O \ {C[t]}, S, H)
<1> DEFINE c == C[t]
           C2 == [C EXCEPT ![t] = 0]
<1>0. \A d \in Conns : d # 0
  BY PoolAssumption DEF Conns
<1>1. /\ \A u \in Threads : C2[u] = IF u = t THEN 0 ELSE C[u]
      /\ c # 0 /\ c = C[t]
  OBVIOUS
<1> HIDE DEF C2, c
<1>2. /\ \A k \in Hosts : \A d \in P[k] : d # 0
      /\ \A k \in Threads : \A d \in A[k] : d # 0
  BY <1>0
<1> QED
  BY <1>1, <1>2 DEF OneHas

(* A get deletes D and leaves the rest R of the stack, but for the         *)
(* connection it may take.                                                 *)
LEMMA TakeOff ==
  ASSUME NEW P \in [Hosts -> SUBSET Conns], NEW A \in [Threads -> SUBSET Conns],
         NEW W \in [Threads -> Hosts], NEW C \in [Threads -> 0..MaxConn],
         NEW O \in SUBSET Conns, NEW S, NEW H,
         NEW t \in Threads, NEW h \in Hosts, C[t] = 0, A[t] = {},
         NEW D, NEW R, NEW x \in Conns \cup {0},
         x # 0 => x \notin D \cup R,
         P[h] = R \cup D \cup (IF x = 0 THEN {} ELSE {x}), D \cap R = {},
         OneHas(P, A, W, C, O, S, H)
  PROVE  OneHas([P EXCEPT ![h] = R], A, [W EXCEPT ![t] = h], [C EXCEPT ![t] = x], O \ D, S, H)
<1> DEFINE P2 == [P EXCEPT ![h] = R]
           W2 == [W EXCEPT ![t] = h]
           C2 == [C EXCEPT ![t] = x]
<1>0. \A d \in Conns : d # 0
  BY PoolAssumption DEF Conns
<1>1. /\ \A k \in Hosts : P2[k] = IF k = h THEN R ELSE P[k]
      /\ \A u \in Threads : W2[u] = IF u = t THEN h ELSE W[u]
      /\ \A u \in Threads : C2[u] = IF u = t THEN x ELSE C[u]
      /\ \A d \in D \cup R : d \in P[h]
      /\ x # 0 => x \in P[h] /\ x \in Conns
  OBVIOUS
<1>2. (\A k \in Hosts : \A d \in P[k] : d # 0) /\ (\A u \in Threads : \A d \in A[u] : d # 0)
  BY <1>0
<1> HIDE DEF P2, W2, C2
<1>3. \A k \in Hosts : \A d \in P2[k] : d \in O \ D /\ d \in S /\ H[d] = k
  BY <1>1 DEF OneHas
<1>4. \A u \in Threads : \A d \in A[u] : d \in O \ D /\ d \in S /\ H[d] = W2[u]
  BY <1>1 DEF OneHas
<1>5. \A u \in Threads : C2[u] # 0 => C2[u] \in O \ D
  BY <1>1 DEF OneHas
<1>6. \A v, u \in Threads : C2[v] = C2[u] /\ C2[v] # 0 => v = u
  BY <1>1 DEF OneHas
<1>7. \A k \in Hosts, u \in Threads : \A d \in P2[k] : d \notin A[u] /\ d # C2[u]
  <2> SUFFICES ASSUME NEW k \in Hosts, NEW u \in Threads, NEW d \in P2[k]
               PROVE  d \notin A[u] /\ d # C2[u]
    OBVIOUS
  <2>1. d \in P[k] /\ d # 0 /\ d \notin A[u] /\ d # C[u] /\ H[d] = k
    BY <1>1, <1>2 DEF OneHas
  <2>2. d # x
    BY <1>1, <2>1 DEF OneHas
  <2> QED
    BY <1>1, <2>1, <2>2
<1>8. \A v, u \in Threads : \A d \in A[v] : d # C2[u]
  BY <1>1, <1>2 DEF OneHas
<1>9. \A d \in O \ D : \/ \E k \in Hosts : d \in P2[k]
                       \/ \E u \in Threads : C2[u] = d \/ d \in A[u]
  <2> SUFFICES ASSUME NEW d \in O, d \notin D
               PROVE  \/ \E k \in Hosts : d \in P2[k]
                      \/ \E u \in Threads : C2[u] = d \/ d \in A[u]
    OBVIOUS
  <2>0. d # 0
    BY <1>0
  <2>1. CASE \E k \in Hosts : d \in P[k]
    <3>1. PICK k \in Hosts : d \in P[k]
      BY <2>1
    <3>2. CASE k # h
      BY <1>1, <3>1, <3>2
    <3>3. CASE k = h /\ d # x
      BY <1>1, <3>1, <3>3
    <3>4. CASE k = h /\ d = x
      BY <1>1, <3>4
    <3> QED
      BY <3>2, <3>3, <3>4
  <2>2. CASE \E u \in Threads : C[u] = d \/ d \in A[u]
    BY <1>1, <2>0, <2>2
  <2> QED
    BY <2>1, <2>2 DEF OneHas
<1>10. OneHas(P2, A, W2, C2, O \ D, S, H)
  BY <1>3, <1>4, <1>5, <1>6, <1>7, <1>8, <1>9 DEF OneHas
<1> QED
  BY <1>10 DEF P2, W2, C2

LEMMA MadeNew ==
  ASSUME NEW P \in [Hosts -> SUBSET Conns], NEW A \in [Threads -> SUBSET Conns], NEW W,
         NEW C \in [Threads -> 0..MaxConn], NEW O \in SUBSET Conns, NEW S,
         NEW H \in [Conns -> Hosts], NEW t \in Threads, C[t] = 0,
         NEW c \in Conns, c \notin O, NEW h \in Hosts,
         OneHas(P, A, W, C, O, S, H)
  PROVE  OneHas(P, A, W, [C EXCEPT ![t] = c], O \cup {c}, S, [H EXCEPT ![c] = h])
<1> DEFINE C2 == [C EXCEPT ![t] = c]
           H2 == [H EXCEPT ![c] = h]
<1>0. \A d \in Conns : d # 0
  BY PoolAssumption DEF Conns
<1>1. /\ \A u \in Threads : C2[u] = IF u = t THEN c ELSE C[u]
      /\ \A d \in Conns : d # c => H2[d] = H[d]
      /\ c # 0
      /\ \A d \in O : d \in Conns /\ d # c /\ d # 0
  BY <1>0
<1> HIDE DEF C2, H2
<1>2. /\ \A k \in Hosts : \A d \in P[k] : d \in O /\ d # c /\ H2[d] = H[d]
      /\ \A u \in Threads : \A d \in A[u] : d \in O /\ d # c /\ H2[d] = H[d]
      /\ \A u \in Threads : C[u] # c
  BY <1>1 DEF OneHas
<1>3. \A v, u \in Threads : C2[v] = C2[u] /\ C2[v] # 0 => v = u
  BY <1>1, <1>2 DEF OneHas
<1>4. \A d \in O \cup {c} : \/ \E k \in Hosts : d \in P[k]
                           \/ \E u \in Threads : C2[u] = d \/ d \in A[u]
  BY <1>1, <1>2 DEF OneHas
<1>5. /\ \A k \in Hosts, u \in Threads : \A d \in P[k] : d \notin A[u] /\ d # C2[u]
      /\ \A v, u \in Threads : \A d \in A[v] : d # C2[u]
      /\ \A u \in Threads : C2[u] # 0 => C2[u] \in O \cup {c}
  BY <1>1, <1>2 DEF OneHas
<1> QED
  BY <1>1, <1>2, <1>3, <1>4, <1>5 DEF OneHas

(* The failed flag of a connection that a thread uses.                     *)
LEMMA FlagSet ==
  ASSUME NEW P, NEW A, NEW W, NEW C, NEW O, NEW S, NEW S2, NEW H,
         NEW t \in Threads, \A d \in Conns : d # C[t] => (d \in S2 <=> d \in S),
         P \in [Hosts -> SUBSET Conns], A \in [Threads -> SUBSET Conns],
         OneHas(P, A, W, C, O, S, H)
  PROVE  OneHas(P, A, W, C, O, S2, H)
<1>1. /\ \A k \in Hosts : \A d \in P[k] : d \in Conns /\ d # C[t]
      /\ \A u \in Threads : \A d \in A[u] : d \in Conns /\ d # C[t]
  BY DEF OneHas
<1> QED
  BY <1>1 DEF OneHas

(* The sets have their types.                                              *)
LEMMA SetTypes ==
  ASSUME PoolTypeOK
  PROVE  /\ pooled \in [Hosts -> SUBSET Conns] /\ flushing \in [Threads -> SUBSET Conns]
         /\ owned \in SUBSET Conns /\ sound \in SUBSET Conns
         /\ \A h \in Hosts : pooled[h] = Elems(pool[h])
         /\ \A t \in Threads : flushing[t] = Elems(all[t])
         /\ 0 \notin Conns
<1>1. /\ \A h \in Hosts : Elems(pool[h]) \in SUBSET Conns
      /\ \A t \in Threads : Elems(all[t]) \in SUBSET Conns
  BY ElemsType DEF PoolTypeOK
<1> QED
  BY <1>1, PoolAssumption DEF pooled, flushing, owned, sound, Conns

LEMMA FlushPopsInv == ASSUME IInv, NEW t \in Threads, NEW h \in Hosts, FlushPops(t, h) PROVE IInv'
<1> DEFINE c == Head(pool[h])
<1>0. /\ PoolTypeOK /\ PcInv /\ OwnInv
      /\ pool \in [Hosts -> Seq(Conns)] /\ all \in [Threads -> Seq(Conns)] /\ want \in [Threads -> Hosts]
      /\ pc \in [Threads -> {"idle", "connect", "connecting", "created", "using",
                             "reconnecting", "flush", "ping"}]
  BY DEF IInv, PoolTypeOK
<1>1. /\ pc[t] = "flush" /\ h \in unflushed /\ (all[t] # <<>> => h = want[t]) /\ pool[h] # <<>>
      /\ want' = [want EXCEPT ![t] = h] /\ all' = [all EXCEPT ![t] = Append(all[t], c)]
      /\ pool' = [pool EXCEPT ![h] = Tail(pool[h])] /\ pc' = [pc EXCEPT ![t] = "ping"]
      /\ UNCHANGED <<portVars, connVars>>
      /\ UNCHANGED <<when, mutex, conn, unflushed, leaked, now>>
      /\ UNCHANGED <<fg, far, fd, host, status, failed>>
  BY DEF FlushPops, connVars, portVars, callVars
<1>2. PortTypeOK' /\ JobInv' /\ FdInv' /\ SockInv' /\ PeerInv'
  BY <1>1, PoolFrames
<1>3. /\ pool[h] \in Seq(Conns) /\ all[t] \in Seq(Conns) /\ Distinct(pool[h]) /\ Distinct(all[t])
      /\ pool'[h] = Tail(pool[h]) /\ all'[t] = Append(all[t], c) /\ want'[t] = h
      /\ \A k \in Hosts : k # h => pool'[k] = pool[k]
      /\ \A u \in Threads : u # t => all'[u] = <<>> /\ all[u] = <<>> /\ want'[u] = want[u]
  BY <1>0, <1>1, OneFlush DEF OwnInv
<1>4. c \in Elems(pool[h]) /\ c \in Conns
  BY <1>1, <1>3, NonEmpty, ElemsType
<1>5. /\ Tail(pool[h]) \in Seq(Conns) /\ Distinct(Tail(pool[h]))
      /\ Elems(pool[h]) = Elems(Tail(pool[h])) \cup {c} /\ c \notin Elems(Tail(pool[h]))
  BY <1>1, <1>3, TailElems
<1>6. c \notin Elems(all[t])
  BY <1>0, <1>4, SetTypes DEF OwnInv, OneHas
<1>7. /\ Append(all[t], c) \in Seq(Conns) /\ Append(all[t], c) # <<>>
      /\ Elems(Append(all[t], c)) = {c} \cup Elems(all[t]) /\ Distinct(Append(all[t], c))
  BY <1>3, <1>4, <1>6, AppendElems
<1> HIDE DEF c
<1>8. PoolTypeOK'
  <2>1. pool' \in [Hosts -> Seq(Conns)] /\ all' \in [Threads -> Seq(Conns)]
    BY <1>0, <1>1, <1>5, <1>7
  <2> QED
    BY <1>0, <1>1, <1>2, <2>1 DEF PoolTypeOK
<1>9. PcInv'
  <2>1. ASSUME NEW u \in Threads, u # t PROVE PcOf(u)'
    <3>1. PcOf(u) /\ pc'[u] = pc[u] /\ pc[u] \notin {"flush", "ping"}
      BY <1>0, <1>1, <2>1, OneFlush DEF PcInv
    <3> QED
      BY <1>1, <1>3, <2>1, <3>1 DEF PcOf
  <2>2. PcOf(t)'
    <3>1. PcOf(t) /\ pc'[t] = "ping"
      BY <1>0, <1>1 DEF PcInv
    <3> QED
      BY <1>1, <1>3, <1>7, <3>1 DEF PcOf
  <2> QED
    BY <2>1, <2>2 DEF PcInv
<1>10. OwnInv'
  <2>0. /\ pooled \in [Hosts -> SUBSET Conns] /\ flushing \in [Threads -> SUBSET Conns]
        /\ \A k \in Hosts : pooled[k] = Elems(pool[k])
        /\ \A u \in Threads : flushing[u] = Elems(all[u])
    BY <1>0, SetTypes
  <2>1. /\ c \in pooled[h] /\ (flushing[t] # {} => want[t] = h)
        /\ \A u \in Threads : u # t => flushing[u] = {}
    BY <1>1, <1>3, <1>4, <2>0, EmptyElems
  <2>2. OneHas([pooled EXCEPT ![h] = pooled[h] \ {c}], [flushing EXCEPT ![t] = flushing[t] \cup {c}],
               [want EXCEPT ![t] = h], conn, owned, sound, host)
    BY <1>0, <2>0, <2>1, PopMove DEF OwnInv
  <2>3. pooled' = [pooled EXCEPT ![h] = pooled[h] \ {c}]
    <3>1. Elems(pool'[h]) = pooled[h] \ {c} /\ \A k \in Hosts : k # h => Elems(pool'[k]) = pooled[k]
      BY <1>3, <1>5, <2>0
    <3> QED
      BY <2>0, <3>1 DEF pooled
  <2>4. flushing' = [flushing EXCEPT ![t] = flushing[t] \cup {c}]
    <3>1. /\ Elems(all'[t]) = flushing[t] \cup {c}
          /\ \A u \in Threads : u # t => Elems(all'[u]) = flushing[u]
      BY <1>3, <1>7, <2>0
    <3> QED
      BY <2>0, <3>1 DEF flushing
  <2>5. owned' = owned /\ sound' = sound
    BY <1>1 DEF owned, sound
  <2>6. \A k \in Hosts : Distinct(pool'[k])
    BY <1>0, <1>3, <1>5 DEF OwnInv
  <2>7. \A u \in Threads : Distinct(all'[u])
    BY <1>3, <1>7, EmptyElems
  <2> QED
    BY <1>0, <1>1, <2>2, <2>3, <2>4, <2>5, <2>6, <2>7 DEF OwnInv
<1> QED
  BY <1>2, <1>8, <1>9, <1>10 DEF IInv

LEMMA FlushHostInv == ASSUME IInv, NEW t \in Threads, NEW h \in Hosts, FlushHost(t, h) PROVE IInv'
<1>0. /\ PoolTypeOK /\ PcInv /\ OwnInv
      /\ pool \in [Hosts -> Seq(Conns)] /\ all \in [Threads -> Seq(Conns)] /\ want \in [Threads -> Hosts]
      /\ unflushed \in SUBSET Hosts
  BY DEF IInv, PoolTypeOK
<1>1. /\ pc[t] = "flush" /\ h \in unflushed /\ (all[t] # <<>> => h = want[t]) /\ pool[h] = <<>>
      /\ pool' = [pool EXCEPT ![h] = Reverse(all[t])] /\ all' = [all EXCEPT ![t] = <<>>]
      /\ unflushed' = unflushed \ {h}
      /\ UNCHANGED <<portVars, connVars>>
      /\ UNCHANGED <<when, mutex, pc, conn, want, leaked, now>>
      /\ UNCHANGED <<fg, far, fd, host, status, failed>>
  BY DEF FlushHost, connVars, portVars, callVars, thrVars
<1>2. PortTypeOK' /\ JobInv' /\ FdInv' /\ SockInv' /\ PeerInv'
  BY <1>1, PoolFrames
<1>3. /\ all[t] \in Seq(Conns) /\ Distinct(all[t])
      /\ \A u \in Threads : all'[u] = <<>>
      /\ \A u \in Threads : u # t => all[u] = <<>>
  BY <1>0, <1>1, OneFlush DEF OwnInv
<1>4. /\ Reverse(all[t]) \in Seq(Conns) /\ Distinct(Reverse(all[t]))
      /\ Elems(Reverse(all[t])) = Elems(all[t])
  BY <1>3, ReverseElems
<1> DEFINE r == Reverse(all[t])
<1> HIDE DEF r
<1>5. /\ pool' = [pool EXCEPT ![h] = r] /\ pool'[h] = r /\ \A k \in Hosts : k # h => pool'[k] = pool[k]
      /\ r \in Seq(Conns) /\ Distinct(r) /\ Elems(r) = Elems(all[t])
  BY <1>0, <1>1, <1>4 DEF r
<1>6. PoolTypeOK'
  <2>1. pool' \in [Hosts -> Seq(Conns)] /\ all' \in [Threads -> Seq(Conns)]
    BY <1>0, <1>1, <1>5
  <2> QED
    BY <1>0, <1>1, <1>2, <2>1 DEF PoolTypeOK
<1>7. PcInv'
  <2>1. ASSUME NEW u \in Threads PROVE PcOf(u)'
    <3>1. PcOf(u) /\ pc'[u] = pc[u] /\ (pc[u] = "ping" => u = t)
      BY <1>0, <1>1, <2>1, OneFlush DEF PcInv
    <3> QED
      BY <1>1, <1>3, <2>1, <3>1 DEF PcOf
  <2> QED
    BY <2>1 DEF PcInv
<1>8. OwnInv'
  <2>0. /\ pooled \in [Hosts -> SUBSET Conns] /\ flushing \in [Threads -> SUBSET Conns]
        /\ \A k \in Hosts : pooled[k] = Elems(pool[k])
        /\ \A u \in Threads : flushing[u] = Elems(all[u])
    BY <1>0, SetTypes
  <2>1. /\ pooled[h] = {} /\ (flushing[t] # {} => want[t] = h)
        /\ \A u \in Threads : u # t => flushing[u] = {}
    BY <1>1, <1>3, <2>0, EmptyElems
  <2>2. OneHas([pooled EXCEPT ![h] = flushing[t]], [flushing EXCEPT ![t] = {}],
               want, conn, owned, sound, host)
    BY <1>0, <2>0, <2>1, PushBack DEF OwnInv
  <2>3. pooled' = [pooled EXCEPT ![h] = flushing[t]]
    BY <1>5, <2>0 DEF pooled
  <2>4. flushing' = [flushing EXCEPT ![t] = {}]
    BY <1>1, <1>3, <2>0, EmptyElems DEF flushing
  <2>5. owned' = owned /\ sound' = sound
    BY <1>1 DEF owned, sound
  <2>6. \A k \in Hosts : Distinct(pool'[k])
    BY <1>0, <1>5 DEF OwnInv
  <2>7. \A u \in Threads : Distinct(all'[u])
    BY <1>3, EmptyElems
  <2> QED
    BY <1>0, <1>1, <2>2, <2>3, <2>4, <2>5, <2>6, <2>7 DEF OwnInv
<1> QED
  BY <1>2, <1>6, <1>7, <1>8 DEF IInv

LEMMA FlushThrowsInv == ASSUME IInv, NEW t \in Threads, FlushThrows(t) PROVE IInv'
<1> DEFINE x == Last(all[t])
<1>0. /\ PoolTypeOK /\ PcInv /\ OwnInv /\ JobInv /\ FdInv /\ SockInv /\ PeerInv
      /\ pool \in [Hosts -> Seq(Conns)] /\ all \in [Threads -> Seq(Conns)]
      /\ failed \in [Conns -> BOOLEAN] /\ leaked \in SUBSET Conns
      /\ pc \in [Threads -> {"idle", "connect", "connecting", "created", "using",
                             "reconnecting", "flush", "ping"}]
  BY DEF IInv, PoolTypeOK
<1>1. /\ pc[t] = "ping" /\ failed' = [failed EXCEPT ![x] = TRUE]
      /\ leaked' = leaked \cup Range(all[t]) /\ all' = [all EXCEPT ![t] = <<>>]
      /\ mutex' = Nobody /\ pc' = [pc EXCEPT ![t] = "idle"] /\ unflushed' = {}
      /\ UNCHANGED portVars
      /\ UNCHANGED <<pool, when, status, host, fd, conn, want, now>>
      /\ UNCHANGED <<fg, far, state, sock, bg, bgFd, bgSock, fdTable, nextSock, peer, trying>>
  BY DEF FlushThrows, portVars, callVars, jobVars, kernelVars
<1>2. all[t] \in Seq(Conns) /\ all[t] # <<>>
  BY <1>0, <1>1 DEF PcInv, PcOf
<1>3. x \in Elems(all[t]) /\ x \in Conns /\ Range(all[t]) = Elems(all[t])
  <2>1. Len(all[t]) \in Nat /\ Len(all[t]) > 0 /\ DOMAIN all[t] = 1..Len(all[t])
    BY <1>2, NonEmpty, LenProperties
  <2>2. x = all[t][Len(all[t])] /\ Len(all[t]) \in 1..Len(all[t])
    BY <2>1 DEF Last
  <2>3. x \in Elems(all[t])
    BY <2>2 DEF Elems
  <2> QED
    BY <1>2, <2>1, <2>3, ElemsType DEF Range, Elems
<1> HIDE DEF x
<1>4. \A c \in Conns : ~failed'[c] <=> ~failed[c] /\ c # x
  BY <1>0, <1>1, <1>3
<1>5. JobInv' /\ FdInv' /\ SockInv' /\ PeerInv'
  BY <1>0, <1>1, <1>4, JobFrame, FdFrame, SockFrame, PeerFrame
<1>6. PoolTypeOK'
  <2>1. failed' \in [Conns -> BOOLEAN]
    <3>1. TRUE \in BOOLEAN
      BY Zenon
    <3> QED
      BY <1>0, <1>1, <3>1
  <2>2. leaked' \in SUBSET Conns /\ unflushed' \in SUBSET Hosts
    BY <1>0, <1>1, <1>2, <1>3, ElemsType
  <2>3. all' \in [Threads -> Seq(Conns)]
    BY <1>0, <1>1
  <2>4. PortTypeOK'
    BY <1>0, <1>1, PortTypes DEF PoolTypeOK
  <2> QED
    BY <1>0, <1>1, <2>1, <2>2, <2>3, <2>4 DEF PoolTypeOK
<1>7. PcInv'
  <2>1. ASSUME NEW u \in Threads, u # t PROVE PcOf(u)'
    <3>1. PcOf(u) /\ pc'[u] = pc[u] /\ pc[u] \notin {"flush", "ping"} /\ all'[u] = <<>>
      BY <1>0, <1>1, <2>1, OneFlush DEF PcInv
    <3> QED
      BY <1>1, <3>1 DEF PcOf
  <2>2. PcOf(t)'
    <3>1. PcOf(t) /\ pc'[t] = "idle" /\ all'[t] = <<>>
      BY <1>0, <1>1 DEF PcInv
    <3> QED
      BY <1>1, <3>1 DEF PcOf
  <2> QED
    BY <2>1, <2>2 DEF PcInv
<1>8. OwnInv'
  <2>0. /\ pooled \in [Hosts -> SUBSET Conns] /\ flushing \in [Threads -> SUBSET Conns]
        /\ \A u \in Threads : flushing[u] = Elems(all[u])
    BY <1>0, SetTypes
  <2>1. \A u \in Threads : u # t => flushing[u] = {} /\ all'[u] = <<>>
    BY <1>0, <1>1, <2>0, OneFlush, EmptyElems
  <2>2. x \in flushing[t]
    BY <1>3, <2>0
  <2>3. OneHas(pooled, [flushing EXCEPT ![t] = {}], want, conn, owned \ flushing[t], sound \ {x}, host)
    BY <1>0, <2>0, <2>1, <2>2, VectorLost DEF OwnInv
  <2>4. flushing' = [flushing EXCEPT ![t] = {}]
    <3>1. \A u \in Threads : all'[u] = <<>>
      BY <1>0, <1>1, <2>1
    <3> QED
      BY <2>0, <2>1, <3>1, EmptyElems DEF flushing
  <2>5. owned' = owned \ flushing[t]
    BY <1>1, <1>3, <2>0 DEF owned
  <2>6. sound' = sound \ {x}
    BY <1>4 DEF sound
  <2>7. pooled' = pooled /\ \A u \in Threads : Distinct(all'[u])
    BY <1>0, <1>1, <2>1, EmptyElems DEF pooled
  <2>8. \A c \in leaked' : status'[c] = "live"
    <3>1. \A c \in Elems(all[t]) : c \in owned
      BY <1>0, <2>0 DEF OwnInv, OneHas
    <3> QED
      BY <1>0, <1>1, <1>3, <3>1 DEF OwnInv, owned
  <2> QED
    BY <1>0, <1>1, <2>3, <2>4, <2>5, <2>6, <2>7, <2>8 DEF OwnInv
<1> QED
  BY <1>5, <1>6, <1>7, <1>8 DEF IInv

LEMMA UseFailsInv == ASSUME IInv, NEW t \in Threads, UseFails(t) PROVE IInv'
<1>0. /\ PoolTypeOK /\ PcInv /\ OwnInv /\ JobInv /\ FdInv /\ SockInv /\ PeerInv
      /\ conn \in [Threads -> 0..MaxConn] /\ failed \in [Conns -> BOOLEAN]
  BY DEF IInv, PoolTypeOK
<1>1. /\ pc[t] = "using" /\ failed' = [failed EXCEPT ![conn[t]] = TRUE]
      /\ UNCHANGED portVars
      /\ UNCHANGED <<pool, when, status, host, fd, mutex, pc, conn, want, all, unflushed, leaked, now>>
      /\ UNCHANGED <<fg, far, state, sock, bg, bgFd, bgSock, fdTable, nextSock, peer, trying>>
  BY DEF UseFails, portVars, callVars, jobVars, kernelVars, thrVars
<1>2. conn[t] \in Conns
  BY <1>0, <1>1, PoolAssumption DEF PcInv, PcOf, Conns
<1>3. \A c \in Conns : ~failed'[c] <=> ~failed[c] /\ c # conn[t]
  BY <1>0, <1>1, <1>2
<1>4. JobInv' /\ FdInv' /\ SockInv' /\ PeerInv' /\ PcInv'
  BY <1>0, <1>1, <1>3, JobFrame, FdFrame, SockFrame, PeerFrame, PcFrame
<1>5. PoolTypeOK'
  <2>1. failed' \in [Conns -> BOOLEAN]
    <3>1. TRUE \in BOOLEAN
      BY Zenon
    <3> QED
      BY <1>0, <1>1, <3>1
  <2>2. PortTypeOK'
    BY <1>0, <1>1, PortTypes DEF PoolTypeOK
  <2> QED
    BY <1>0, <1>1, <2>1, <2>2 DEF PoolTypeOK
<1>6. OwnInv'
  <2>1. pooled' = pooled /\ flushing' = flushing /\ owned' = owned
    BY <1>1 DEF pooled, flushing, owned
  <2>2. \A d \in Conns : d # conn[t] => (d \in sound' <=> d \in sound)
    BY <1>3 DEF sound
  <2>3. OneHas(pooled, flushing, want, conn, owned, sound', host)
    BY <1>0, <2>2, SetTypes, FlagSet DEF OwnInv
  <2> QED
    BY <1>0, <1>1, <2>1, <2>3 DEF OwnInv
<1> QED
  BY <1>4, <1>5, <1>6 DEF IInv

-----------------------------------------------------------------------------
(* Deleting connections closes their sockets and nobody else's.            *)

LEMMA DeleteInv ==
  ASSUME IInv, NEW cs \in SUBSET Conns, \A c \in cs : status[c] = "live", Delete(cs)
  PROVE  PortTypeOK' /\ JobInv' /\ FdInv' /\ SockInv' /\ PeerInv'
<1>0. /\ PoolTypeOK /\ JobInv /\ FdInv /\ SockInv /\ PeerInv /\ PortTypeOK
      /\ status \in [Conns -> {"unused", "live", "deleted"}] /\ fd \in [Conns -> Fds \cup {0}]
      /\ fdTable \in [Fds -> 0..MaxSock] /\ sock \in [Threads -> Fds \cup {0}] /\ nextSock \in 0..MaxSock
  BY DEF IInv, PoolTypeOK, PortTypeOK
<1>1. /\ status' = [c \in Conns |-> IF c \in cs THEN "deleted" ELSE status[c]]
      /\ fdTable' = [f \in Fds |-> IF f \in {fd[c] : c \in cs} THEN 0 ELSE fdTable[f]]
      /\ UNCHANGED <<peer, trying, nextSock, fg, sock, far, state, bg, bgFd, bgSock, res, stray>>
      /\ UNCHANGED <<host, fd, failed>>
  BY DEF Delete, Closed, callVars, jobVars
<1>2. 0 \notin Fds /\ MaxSock \in Nat
  BY ConnectAssumption
<1>3. /\ \A c \in Conns : status'[c] = "live" <=> status[c] = "live" /\ c \notin cs
      /\ \A c \in Conns : status'[c] = "unused" => status[c] = "unused"
      /\ \A f \in Fds : fdTable'[f] = IF \E c \in cs : fd[c] = f THEN 0 ELSE fdTable[f]
  BY <1>1
<1>4. \A f \in Fds : (\E c \in cs : fd[c] = f) =>
          /\ \A c \in Conns : status'[c] = "live" => fd[c] # f
          /\ \A t \in Threads : sock[t] # f
  BY <1>0, <1>2, <1>3 DEF FdInv
<1>5. PortTypeOK'
  <2>1. fdTable' \in [Fds -> 0..MaxSock]
    BY <1>0, <1>1, <1>2
  <2> QED
    BY <1>0, <1>1, <2>1 DEF PortTypeOK
<1>6. JobInv'
  BY <1>0, <1>1, JobFrame
<1>7. FdInv'
  <2>1. \A f \in Fds : fdTable'[f] # 0 <=> \/ \E c \in Conns : status'[c] = "live" /\ fd[c] = f
                                           \/ \E t \in Threads : sock[t] = f
    <3> SUFFICES ASSUME NEW f \in Fds
                 PROVE  fdTable'[f] # 0 <=> \/ \E c \in Conns : status'[c] = "live" /\ fd[c] = f
                                            \/ \E t \in Threads : sock[t] = f
      OBVIOUS
    <3>1. fdTable[f] # 0 <=> \/ \E c \in Conns : status[c] = "live" /\ fd[c] = f
                             \/ \E t \in Threads : sock[t] = f
      BY <1>0 DEF FdInv
    <3>2. CASE \E c \in cs : fd[c] = f
      BY <1>3, <1>4, <3>2
    <3>3. CASE ~ \E c \in cs : fd[c] = f
      BY <1>3, <3>1, <3>3
    <3> QED
      BY <3>2, <3>3
  <2> QED
    BY <1>0, <1>1, <1>3, <2>1 DEF FdInv
<1>8. SockInv'
  BY <1>0, <1>1, <1>2, <1>3 DEF SockInv
<1>9. PeerInv'
  <2> SUFFICES ASSUME ~stray PROVE (\A t \in Threads : JobSocket(t)') /\ RightPeer'
    BY <1>1 DEF PeerInv
  <2>1. ASSUME NEW t \in Threads PROVE JobSocket(t)'
    <3>1. JobSocket(t)
      BY <1>0 DEF PeerInv
    <3>2. fg[t] = "wait" => sock[t] \in Fds /\ fdTable'[sock[t]] = fdTable[sock[t]]
      BY <1>0, <1>3, <1>4 DEF JobInv
    <3>3. \A f \in Fds : fdTable'[f] = fdTable[f] \/ fdTable'[f] = 0
      BY <1>3
    <3>4. bg[t] = "connect" => bgSock[t] # 0
      BY <1>0, <1>2 DEF SockInv
    <3> QED
      BY <1>1, <3>1, <3>2, <3>3, <3>4 DEF JobSocket
  <2>2. RightPeer'
    <3>1. \A c \in Conns : status'[c] = "live" /\ fd[c] # 0 => fdTable'[fd[c]] = fdTable[fd[c]]
      BY <1>0, <1>3, <1>4
    <3>2. RightPeer
      BY <1>0 DEF PeerInv
    <3> QED
      BY <1>1, <1>3, <3>1, <3>2 DEF RightPeer
  <2> QED
    BY <2>1, <2>2
<1> QED
  BY <1>5, <1>6, <1>7, <1>8, <1>9

(* kill(), and done() with a failed connection.                            *)
LEMMA DropInv ==
  ASSUME IInv, NEW t \in Threads, pc[t] = "using", Delete({conn[t]}),
         conn' = [conn EXCEPT ![t] = 0], pc' = [pc EXCEPT ![t] = "idle"],
         UNCHANGED <<pool, when, mutex, want, all, unflushed, leaked, now>>
  PROVE  IInv'
<1>0. /\ PoolTypeOK /\ PcInv /\ OwnInv
      /\ conn \in [Threads -> 0..MaxConn] /\ status \in [Conns -> {"unused", "live", "deleted"}]
      /\ pc \in [Threads -> {"idle", "connect", "connecting", "created", "using",
                             "reconnecting", "flush", "ping"}]
  BY DEF IInv, PoolTypeOK
<1>1. /\ status' = [c \in Conns |-> IF c \in {conn[t]} THEN "deleted" ELSE status[c]]
      /\ UNCHANGED <<fg, far, host, fd, failed>>
  BY DEF Delete, callVars
<1>2. conn[t] # 0 /\ conn[t] \in owned /\ conn[t] \in Conns /\ status[conn[t]] = "live"
  <2>1. conn[t] # 0
    BY <1>0 DEF PcInv, PcOf
  <2>2. conn[t] \in owned
    BY <1>0, <2>1 DEF OwnInv, OneHas
  <2> QED
    BY <2>1, <2>2 DEF owned
<1>3. PortTypeOK' /\ JobInv' /\ FdInv' /\ SockInv' /\ PeerInv'
  <2>1. {conn[t]} \in SUBSET Conns /\ \A c \in {conn[t]} : status[c] = "live"
    BY <1>2
  <2> QED
    BY <2>1, DeleteInv
<1>4. PoolTypeOK'
  <2>1. status' \in [Conns -> {"unused", "live", "deleted"}] /\ conn' \in [Threads -> 0..MaxConn]
    BY <1>0, <1>1, PoolAssumption
  <2> QED
    BY <1>0, <1>1, <1>3, <2>1 DEF PoolTypeOK
<1>5. PcInv'
  <2>1. ASSUME NEW u \in Threads PROVE PcOf(u)'
    <3>1. PcOf(u) /\ PcOf(t)
      BY <1>0 DEF PcInv
    <3> QED
      BY <1>0, <1>1, <3>1 DEF PcOf
  <2> QED
    BY <2>1 DEF PcInv
<1>6. OwnInv'
  <2>1. pooled' = pooled /\ flushing' = flushing /\ sound' = sound
    BY <1>1 DEF pooled, flushing, sound
  <2>2. owned' = owned \ {conn[t]}
    BY <1>1, <1>2 DEF owned
  <2>3. OneHas(pooled, flushing, want, [conn EXCEPT ![t] = 0], owned \ {conn[t]}, sound, host)
    BY <1>0, <1>2, SetTypes, Dropped DEF OwnInv
  <2>4. \A c \in leaked' : status'[c] = "live"
    <3>1. \A c \in leaked : c \in Conns /\ c # conn[t] /\ status[c] = "live"
      BY <1>0, <1>2 DEF OwnInv, owned, PoolTypeOK
    <3> QED
      BY <1>1, <3>1
  <2> QED
    BY <1>0, <1>1, <2>1, <2>2, <2>3, <2>4 DEF OwnInv
<1> QED
  BY <1>3, <1>4, <1>5, <1>6 DEF IInv

LEMMA DoneInv == ASSUME IInv, NEW t \in Threads, Done(t) PROVE IInv'
<1>1. CASE Delete({conn[t]}) /\ UNCHANGED <<pool, when>>
  BY <1>1, DropInv DEF Done
<1>2. CASE /\ ~failed[conn[t]] /\ mutex = Nobody
           /\ pool' = [pool EXCEPT ![host[conn[t]]] = <<conn[t]>> \o pool[host[conn[t]]]]
           /\ when' = [when EXCEPT ![conn[t]] = now]
           /\ UNCHANGED <<portVars, connVars>>
  <2> DEFINE c == conn[t]
             h == host[c]
             r == <<c>> \o pool[h]
  <2>0. /\ PoolTypeOK /\ PcInv /\ OwnInv
        /\ conn \in [Threads -> 0..MaxConn] /\ host \in [Conns -> Hosts]
        /\ pool \in [Hosts -> Seq(Conns)] /\ when \in [Conns -> 0..MaxTime] /\ now \in 0..MaxTime
        /\ pc \in [Threads -> {"idle", "connect", "connecting", "created", "using",
                               "reconnecting", "flush", "ping"}]
    BY DEF IInv, PoolTypeOK
  <2>1. /\ pc[t] = "using" /\ conn' = [conn EXCEPT ![t] = 0] /\ pc' = [pc EXCEPT ![t] = "idle"]
        /\ UNCHANGED <<mutex, want, all, unflushed, leaked, now>>
        /\ UNCHANGED <<fg, far, host, fd, status, failed>>
    BY <1>2 DEF Done, connVars, portVars, callVars
  <2>2. c # 0 /\ c \in owned /\ c \in Conns /\ c \in sound /\ h \in Hosts
    <3>1. c # 0
      BY <2>0, <2>1 DEF PcInv, PcOf
    <3>2. c \in owned
      BY <2>0, <3>1 DEF OwnInv, OneHas
    <3>3. c \in Conns
      BY <3>2 DEF owned
    <3> QED
      BY <1>2, <2>0, <3>1, <3>2, <3>3 DEF sound
  <2>3. c \notin Elems(pool[h]) /\ pool[h] \in Seq(Conns) /\ Distinct(pool[h])
    BY <2>0, <2>2, SetTypes DEF OwnInv, OneHas
  <2>4. r \in Seq(Conns) /\ Elems(r) = {c} \cup Elems(pool[h]) /\ Distinct(r)
    BY <2>2, <2>3, PushElems
  <2>5. pool' = [pool EXCEPT ![h] = r] /\ when' = [when EXCEPT ![c] = now]
    BY <1>2
  <2> HIDE DEF r
  <2>6. PortTypeOK' /\ JobInv' /\ FdInv' /\ SockInv' /\ PeerInv'
    BY <1>2, PoolFrames
  <2>7. PoolTypeOK'
    <3>1. pool' \in [Hosts -> Seq(Conns)] /\ when' \in [Conns -> 0..MaxTime]
      BY <2>0, <2>2, <2>4, <2>5
    <3>2. conn' \in [Threads -> 0..MaxConn]
      BY <2>0, <2>1, PoolAssumption
    <3> QED
      BY <2>0, <2>1, <2>6, <3>1, <3>2 DEF PoolTypeOK
  <2>8. PcInv'
    <3>1. ASSUME NEW u \in Threads PROVE PcOf(u)'
      <4>1. PcOf(u) /\ PcOf(t)
        BY <2>0 DEF PcInv
      <4> QED
        BY <2>0, <2>1, <4>1 DEF PcOf
    <3> QED
      BY <3>1 DEF PcInv
  <2>9. OwnInv'
    <3>0. pooled \in [Hosts -> SUBSET Conns] /\ \A k \in Hosts : pooled[k] = Elems(pool[k])
      BY <2>0, SetTypes
    <3>1. flushing' = flushing /\ sound' = sound /\ owned' = owned
      BY <2>1 DEF flushing, sound, owned
    <3>2. OneHas([pooled EXCEPT ![host[conn[t]]] = pooled[host[conn[t]]] \cup {conn[t]}],
                 flushing, want, [conn EXCEPT ![t] = 0], owned, sound, host)
      BY <2>0, <2>2, SetTypes, GiveBack DEF OwnInv
    <3>3. pooled' = [pooled EXCEPT ![h] = pooled[h] \cup {c}]
      <4>1. /\ Elems(pool'[h]) = pooled[h] \cup {c}
            /\ \A k \in Hosts : k # h => Elems(pool'[k]) = pooled[k]
        BY <2>0, <2>2, <2>4, <2>5, <3>0
      <4> QED
        BY <3>0, <4>1 DEF pooled
    <3>4. \A k \in Hosts : Distinct(pool'[k])
      BY <2>0, <2>2, <2>4, <2>5 DEF OwnInv
    <3> QED
      BY <2>0, <2>1, <3>1, <3>2, <3>3, <3>4 DEF OwnInv
  <2> QED
    BY <2>6, <2>7, <2>8, <2>9 DEF IInv
<1> QED
  BY <1>1, <1>2 DEF Done

LEMMA KillInv == ASSUME IInv, NEW t \in Threads, Kill(t) PROVE IInv'
BY DropInv DEF Kill

(* What a get leaves: the deleted D, the rest r of the stack and the       *)
(* connection x, 0 if there is none to take.                               *)
LEMMA TakeInv ==
  ASSUME IInv, NEW t \in Threads, NEW h \in Hosts, NEW D, NEW r \in Seq(Conns), NEW x \in Conns \cup {0},
         pc[t] = "idle", Delete(D), Distinct(r),
         x # 0 => x \notin D \cup Elems(r),
         Elems(pool[h]) = Elems(r) \cup D \cup (IF x = 0 THEN {} ELSE {x}), D \cap Elems(r) = {},
         pool' = [pool EXCEPT ![h] = r], want' = [want EXCEPT ![t] = h],
         conn' = [conn EXCEPT ![t] = x],
         pc' = [pc EXCEPT ![t] = IF x = 0 THEN "connect" ELSE "using"],
         UNCHANGED <<when, mutex, all, unflushed, leaked, now>>
  PROVE  IInv'
<1>0. /\ PoolTypeOK /\ PcInv /\ OwnInv
      /\ conn \in [Threads -> 0..MaxConn] /\ status \in [Conns -> {"unused", "live", "deleted"}]
      /\ pool \in [Hosts -> Seq(Conns)] /\ want \in [Threads -> Hosts]
      /\ pc \in [Threads -> {"idle", "connect", "connecting", "created", "using",
                             "reconnecting", "flush", "ping"}]
  BY DEF IInv, PoolTypeOK
<1>1. /\ status' = [c \in Conns |-> IF c \in D THEN "deleted" ELSE status[c]]
      /\ UNCHANGED <<fg, far, host, fd, failed>>
  BY DEF Delete, callVars
<1>2. PcOf(t) /\ conn[t] = 0 /\ all[t] = <<>> /\ fg[t] = "out"
  BY <1>0 DEF PcInv, PcOf
<1>3. \A c \in D : c \in Conns /\ status[c] = "live"
  <2>1. \A c \in D : c \in owned
    BY <1>0, SetTypes DEF OwnInv, OneHas
  <2> QED
    BY <2>1 DEF owned
<1>4. PortTypeOK' /\ JobInv' /\ FdInv' /\ SockInv' /\ PeerInv'
  <2>1. D \in SUBSET Conns
    BY <1>3
  <2> QED
    BY <1>3, <2>1, DeleteInv
<1>5. PoolTypeOK'
  <2>1. status' \in [Conns -> {"unused", "live", "deleted"}]
    BY <1>0, <1>1
  <2>2. conn' \in [Threads -> 0..MaxConn]
    BY <1>0, PoolAssumption DEF Conns
  <2>3. pool' \in [Hosts -> Seq(Conns)] /\ want' \in [Threads -> Hosts]
    BY <1>0
  <2>4. pc' \in [Threads -> {"idle", "connect", "connecting", "created", "using",
                             "reconnecting", "flush", "ping"}]
    BY <1>0
  <2> QED
    BY <1>0, <1>1, <1>4, <2>1, <2>2, <2>3, <2>4 DEF PoolTypeOK
<1>6. PcInv'
  <2>1. ASSUME NEW u \in Threads, u # t PROVE PcOf(u)'
    <3>1. PcOf(u) /\ pc'[u] = pc[u] /\ conn'[u] = conn[u] /\ want'[u] = want[u]
      BY <1>0, <2>1 DEF PcInv
    <3> QED
      BY <1>1, <3>1 DEF PcOf
  <2>2. PcOf(t)'
    <3>1. pc'[t] = (IF x = 0 THEN "connect" ELSE "using") /\ conn'[t] = x
      BY <1>0
    <3> QED
      BY <1>1, <1>2, <3>1 DEF PcOf
  <2> QED
    BY <2>1, <2>2 DEF PcInv
<1>7. OwnInv'
  <2>0. /\ pooled \in [Hosts -> SUBSET Conns] /\ flushing \in [Threads -> SUBSET Conns]
        /\ owned \in SUBSET Conns
        /\ \A k \in Hosts : pooled[k] = Elems(pool[k])
        /\ flushing[t] = {}
    BY <1>0, <1>2, SetTypes, EmptyElems
  <2>1. flushing' = flushing /\ sound' = sound
    BY <1>1 DEF flushing, sound
  <2>2. owned' = owned \ D
    BY <1>1 DEF owned
  <2>3. pooled[h] = Elems(r) \cup D \cup (IF x = 0 THEN {} ELSE {x})
    BY <2>0
  <2>4. OneHas([pooled EXCEPT ![h] = Elems(r)], flushing, [want EXCEPT ![t] = h],
               [conn EXCEPT ![t] = x], owned \ D, sound, host)
    BY <1>0, <1>2, <2>0, <2>3, TakeOff DEF OwnInv
  <2>5. pooled' = [pooled EXCEPT ![h] = Elems(r)]
    <3>1. Elems(pool'[h]) = Elems(r) /\ \A k \in Hosts : k # h => Elems(pool'[k]) = pooled[k]
      BY <1>0, <2>0
    <3> QED
      BY <2>0, <3>1 DEF pooled
  <2>6. \A k \in Hosts : Distinct(pool'[k])
    BY <1>0 DEF OwnInv
  <2>7. \A c \in leaked' : status'[c] = "live"
    <3>1. \A c \in leaked : c \in Conns /\ c \notin D /\ status[c] = "live"
      <4>1. \A c \in D : c \in owned
        BY <1>0, <2>0, <2>3 DEF OwnInv, OneHas
      <4> QED
        BY <1>0, <4>1 DEF OwnInv, owned, PoolTypeOK
    <3> QED
      BY <1>1, <3>1
  <2> QED
    BY <1>0, <1>1, <2>1, <2>2, <2>4, <2>5, <2>6, <2>7 DEF OwnInv
<1> QED
  BY <1>4, <1>5, <1>6, <1>7 DEF IInv

LEMMA GetInv == ASSUME IInv, NEW t \in Threads, NEW h \in Hosts, Get(t, h) PROVE IInv'
<1> DEFINE s == pool[h]
<1>0. /\ PoolTypeOK /\ PcInv /\ s \in Seq(Conns) /\ Distinct(s) /\ Len(s) \in Nat
      /\ conn \in [Threads -> 0..MaxConn]
  BY LenProperties DEF IInv, PoolTypeOK, OwnInv
<1>1. PICK n \in 0..Len(s) :
          /\ Delete({s[i] : i \in 1..n})
          /\ \/ /\ n < Len(s)
                /\ conn' = [conn EXCEPT ![t] = s[n + 1]]
                /\ pool' = [pool EXCEPT ![h] = SubSeq(s, n + 2, Len(s))]
                /\ pc' = [pc EXCEPT ![t] = "using"]
             \/ /\ n = Len(s)
                /\ pool' = [pool EXCEPT ![h] = <<>>]
                /\ pc' = [pc EXCEPT ![t] = "connect"]
                /\ UNCHANGED conn
  BY DEF Get
<1>2. /\ pc[t] = "idle" /\ want' = [want EXCEPT ![t] = h]
      /\ UNCHANGED <<when, mutex, all, unflushed, leaked, now>>
  BY DEF Get
<1> DEFINE D == {s[i] : i \in 1..n}
<1> HIDE DEF s
<1>3. CASE /\ n < Len(s)
           /\ conn' = [conn EXCEPT ![t] = s[n + 1]]
           /\ pool' = [pool EXCEPT ![h] = SubSeq(s, n + 2, Len(s))]
           /\ pc' = [pc EXCEPT ![t] = "using"]
  <2> DEFINE x == s[n + 1]
             r == SubSeq(s, n + 2, Len(s))
  <2>1. n + 1 \in 0..Len(s) /\ (n + 1) + 1 = n + 2 /\ n + 1 \in 1..Len(s) /\ n \in Nat
    BY <1>0, <1>3
  <2>2. x \in Conns /\ x # 0
    BY <1>0, <2>1, ElementOfSeq, PoolAssumption DEF Conns
  <2>3. /\ SubSeq(s, (n + 1) + 1, Len(s)) \in Seq(Conns) /\ Distinct(SubSeq(s, (n + 1) + 1, Len(s)))
        /\ Elems(s) = Elems(SubSeq(s, (n + 1) + 1, Len(s))) \cup {s[i] : i \in 1..(n + 1)}
        /\ Elems(SubSeq(s, (n + 1) + 1, Len(s))) \cap {s[i] : i \in 1..(n + 1)} = {}
    BY <1>0, <2>1, DropElems
  <2>4. {s[i] : i \in 1..(n + 1)} = D \cup {x}
    <3>1. \A i \in 1..(n + 1) : i \in 1..n \/ i = n + 1
      BY <2>1
    <3>2. \A i \in 1..n : i \in 1..(n + 1)
      BY <2>1
    <3> QED
      BY <2>1, <3>1, <3>2
  <2>5. x \notin D
    <3>1. \A i \in 1..n : i \in 1..Len(s) /\ i # n + 1
      BY <1>0, <2>1
    <3> QED
      BY <1>0, <2>1, <3>1 DEF Distinct
  <2>6. r \in Seq(Conns) /\ Distinct(r) /\ Elems(s) = Elems(r) \cup (D \cup {x}) /\ Elems(r) \cap (D \cup {x}) = {}
    BY <2>1, <2>3, <2>4
  <2> HIDE DEF x, r
  <2>7. /\ x \notin D \cup Elems(r) /\ D \cap Elems(r) = {}
        /\ Elems(s) = Elems(r) \cup D \cup (IF x = 0 THEN {} ELSE {x})
    BY <2>2, <2>5, <2>6
  <2>8. /\ Delete(D) /\ x \in Conns \cup {0}
        /\ Elems(pool[h]) = Elems(r) \cup D \cup (IF x = 0 THEN {} ELSE {x})
        /\ pool' = [pool EXCEPT ![h] = r] /\ conn' = [conn EXCEPT ![t] = x]
        /\ pc' = [pc EXCEPT ![t] = IF x = 0 THEN "connect" ELSE "using"]
    BY <1>1, <1>3, <2>2, <2>7 DEF x, r, s
  <2> HIDE DEF D
  <2> QED
    BY <1>2, <2>6, <2>7, <2>8, TakeInv
<1>4. CASE /\ n = Len(s)
           /\ pool' = [pool EXCEPT ![h] = <<>>]
           /\ pc' = [pc EXCEPT ![t] = "connect"]
           /\ UNCHANGED conn
  <2>1. D = Elems(s)
    BY <1>4 DEF Elems
  <2>2. conn[t] = 0
    BY <1>0, <1>2 DEF PcInv, PcOf
  <2>3. conn' = [conn EXCEPT ![t] = 0]
    BY <1>0, <1>4, <2>2
  <2> DEFINE r == <<>>
  <2>4. /\ Delete(D) /\ r \in Seq(Conns) /\ Distinct(r) /\ Elems(r) = {}
        /\ pool' = [pool EXCEPT ![h] = r]
        /\ Elems(pool[h]) = Elems(r) \cup D \cup (IF 0 = 0 THEN {} ELSE {0}) /\ D \cap Elems(r) = {}
        /\ pc' = [pc EXCEPT ![t] = IF 0 = 0 THEN "connect" ELSE "using"]
    <3>1. r \in Seq(Conns) /\ Distinct(r) /\ Elems(r) = {}
      BY EmptyElems
    <3>2. Delete(D) /\ pool' = [pool EXCEPT ![h] = r] /\ Elems(pool[h]) = D
      BY <1>1, <1>4, <2>1 DEF s
    <3> QED
      BY <1>4, <3>1, <3>2
  <2> HIDE DEF D, r
  <2>5. 0 # 0 => 0 \notin D \cup Elems(r)
    OBVIOUS
  <2>6. 0 \in Conns \cup {0}
    OBVIOUS
  <2> QED
    BY <1>2, <2>3, <2>4, <2>5, <2>6, TakeInv
<1> QED
  BY <1>1, <1>3, <1>4

-----------------------------------------------------------------------------
(* socket() and the start of a job, after the descriptors of table are all *)
(* that is left open.                                                      *)

LEMMA OpenInv ==
  ASSUME IInv, NEW t \in Threads, NEW h \in Hosts, NEW table \in [Fds -> 0..MaxSock],
         PortConnect(t, h, table),
         \A f \in Fds : table[f] = fdTable[f] \/ table[f] = 0,
         \A u \in Threads : sock[u] # 0 => table[sock[u]] = fdTable[sock[u]],
         \A c \in Conns : status'[c] = "live" /\ fd'[c] # 0 =>
             /\ status[c] = "live" /\ fd[c] = fd'[c] /\ host'[c] = host[c]
             /\ fd[c] \in Fds /\ table[fd[c]] = fdTable[fd[c]],
         \A c \in Conns : status'[c] = "unused" => fd'[c] = 0,
         \A f \in Fds : table[f] # 0 => \/ \E c \in Conns : status'[c] = "live" /\ fd'[c] = f
                                        \/ \E u \in Threads : sock[u] = f,
         failed' = failed
  PROVE  PortTypeOK' /\ JobInv' /\ FdInv' /\ SockInv' /\ PeerInv'
<1>0. /\ JobInv /\ FdInv /\ SockInv /\ PeerInv
      /\ fdTable \in [Fds -> 0..MaxSock] /\ nextSock \in 0..MaxSock
      /\ sock \in [Threads -> Fds \cup {0}] /\ bgFd \in [Threads -> Fds \cup {0}]
      /\ 0 \notin Fds /\ MaxSock \in Nat
  BY ConnectAssumption DEF IInv, PoolTypeOK, PortTypeOK
<1>t. /\ peer \in [Sockets -> Hosts \cup {NoHost}] /\ trying \in [Sockets -> Hosts \cup {NoHost}]
      /\ fg \in [Threads -> {"out", "wait", "late"}] /\ far \in [Threads -> Hosts \cup {NoHost}]
      /\ state \in [Threads -> {"none", "NotStarted", "Running", "Done"}]
      /\ bg \in [Threads -> {"none", "start", "run", "connect", "end"}]
      /\ bgSock \in [Threads -> 0..MaxSock] /\ res \in [Threads -> {"unset", "ok", "error"}]
  BY DEF IInv, PoolTypeOK, PortTypeOK
<1>b. stray \in BOOLEAN
  BY DEF IInv, PoolTypeOK, PortTypeOK
<1>1. PICK f \in Fds : /\ table[f] = 0
                       /\ fdTable' = [table EXCEPT ![f] = nextSock']
                       /\ sock' = [sock EXCEPT ![t] = f]
                       /\ bgFd' = [bgFd EXCEPT ![t] = f]
  BY DEF PortConnect, Free
<1>2. /\ fg[t] = "out" /\ nextSock < MaxSock /\ nextSock' = nextSock + 1
      /\ far' = [far EXCEPT ![t] = h] /\ fg' = [fg EXCEPT ![t] = "wait"]
      /\ state' = [state EXCEPT ![t] = "NotStarted"] /\ bg' = [bg EXCEPT ![t] = "start"]
      /\ res' = [res EXCEPT ![t] = "unset"]
      /\ UNCHANGED <<peer, trying, bgSock, stray>>
  BY DEF PortConnect
<1>3. /\ nextSock' \in 0..MaxSock /\ nextSock' # 0
      /\ fdTable'[f] = nextSock + 1 /\ \A g \in Fds : g # f => fdTable'[g] = table[g]
      /\ sock[t] = 0 /\ sock'[t] = f /\ \A u \in Threads : u # t => sock'[u] = sock[u]
      /\ f # 0
  BY <1>0, <1>1, <1>2 DEF JobInv
<1>4. /\ \A u \in Threads : sock[u] # f
      /\ \A c \in Conns : status'[c] = "live" => fd'[c] # f
  BY <1>0, <1>1 DEF FdInv
<1>5. PortTypeOK'
  <2>1. fdTable' \in [Fds -> 0..MaxSock] /\ sock' \in [Threads -> Fds \cup {0}]
        /\ bgFd' \in [Threads -> Fds \cup {0}]
    BY <1>0, <1>1, <1>3
  <2>2. /\ fg' \in [Threads -> {"out", "wait", "late"}] /\ far' \in [Threads -> Hosts \cup {NoHost}]
        /\ state' \in [Threads -> {"none", "NotStarted", "Running", "Done"}]
        /\ bg' \in [Threads -> {"none", "start", "run", "connect", "end"}]
        /\ res' \in [Threads -> {"unset", "ok", "error"}]
    BY <1>2, <1>t
  <2> QED
    BY <1>2, <1>3, <1>b, <1>t, <2>1, <2>2 DEF PortTypeOK
<1>6. JobInv'
  BY <1>0, <1>1, <1>2, <1>3, <1>t DEF JobInv
<1>7. FdInv'
  <2>1. \A c, d \in Conns :
            status'[c] = "live" /\ status'[d] = "live" /\ fd'[c] = fd'[d] /\ fd'[c] # 0 => c = d
    BY <1>0 DEF FdInv
  <2>2. \A u, v \in Threads : sock'[u] = sock'[v] /\ sock'[u] # 0 => u = v
    BY <1>0, <1>3, <1>4 DEF FdInv
  <2>3. \A c \in Conns, u \in Threads : status'[c] = "live" /\ fd'[c] # 0 => fd'[c] # sock'[u]
    BY <1>0, <1>3, <1>4 DEF FdInv
  <2>4. ASSUME NEW g \in Fds
        PROVE  fdTable'[g] # 0 <=> \/ \E c \in Conns : status'[c] = "live" /\ fd'[c] = g
                                   \/ \E u \in Threads : sock'[u] = g
    <3>1. CASE g = f
      BY <1>0, <1>3, <3>1
    <3>2. CASE g # f
      <4>1. fdTable'[g] = table[g] /\ g # 0
        BY <1>0, <1>3, <3>2
      <4>2. \A u \in Threads : sock'[u] = g <=> sock[u] = g
        BY <1>3, <3>2, <4>1
      <4>3. ASSUME NEW c \in Conns, status'[c] = "live", fd'[c] = g PROVE table[g] # 0
        BY <1>0, <4>1, <4>3 DEF FdInv
      <4>4. ASSUME NEW u \in Threads, sock[u] = g PROVE table[g] # 0
        BY <1>0, <4>1, <4>4 DEF FdInv
      <4> QED
        BY <4>1, <4>2, <4>3, <4>4
    <3> QED
      BY <3>1, <3>2
  <2> QED
    BY <2>1, <2>2, <2>3, <2>4 DEF FdInv
<1>8. SockInv'
  <2>1. \A g \in Fds : fdTable[g] \in 0..nextSock /\ fdTable'[g] \in 0..nextSock'
    BY <1>0, <1>2, <1>3 DEF SockInv
  <2>2. \A g, k \in Fds : fdTable'[g] = fdTable'[k] /\ fdTable'[g] # 0 => g = k
    BY <1>0, <1>2, <1>3, <2>1 DEF SockInv
  <2>3. \A s \in Sockets : s > nextSock' => s > nextSock
    BY <1>0, <1>2 DEF Sockets
  <2>4. \A u \in Threads : bg'[u] = "connect" => bgSock[u] \in 1..nextSock'
    BY <1>0, <1>2, <1>t DEF SockInv
  <2> QED
    BY <1>0, <1>2, <2>1, <2>2, <2>3, <2>4 DEF SockInv
<1>9. PeerInv'
  <2> SUFFICES ASSUME ~stray PROVE (\A u \in Threads : JobSocket(u)') /\ RightPeer'
    BY <1>2 DEF PeerInv
  <2>1. JobSocket(t)'
    <3>1. fg'[t] = "wait" /\ bg'[t] = "start" /\ res'[t] = "unset" /\ fdTable'[sock'[t]] = nextSock + 1
      BY <1>2, <1>3, <1>t
    <3>2. peer[nextSock + 1] = NoHost /\ trying[nextSock + 1] = NoHost
      <4>1. nextSock + 1 \in Sockets /\ nextSock + 1 > nextSock
        BY <1>0, <1>2 DEF Sockets
      <4> QED
        BY <1>0, <4>1 DEF SockInv
    <3> QED
      BY <1>2, <3>1, <3>2 DEF JobSocket
  <2>2. ASSUME NEW u \in Threads, u # t PROVE JobSocket(u)'
    <3>1. /\ JobSocket(u)
          /\ fg'[u] = fg[u] /\ bg'[u] = bg[u] /\ res'[u] = res[u] /\ far'[u] = far[u] /\ sock'[u] = sock[u]
      BY <1>0, <1>2, <1>3, <1>t, <2>2 DEF PeerInv
    <3>2. fg[u] = "wait" => fdTable'[sock[u]] = fdTable[sock[u]]
      BY <1>0, <1>3, <1>4 DEF JobInv
    <3>3. bg[u] = "connect" => bgSock[u] \in 1..nextSock
      BY <1>0 DEF SockInv
    <3>4. \A g \in Fds : fdTable'[g] \in {fdTable[g], 0, nextSock + 1}
      BY <1>3
    <3>5. bg[u] = "connect" => bgSock[u] # 0 /\ bgSock[u] # nextSock + 1
      BY <1>0, <3>3
    <3> QED
      BY <1>2, <3>1, <3>2, <3>4, <3>5 DEF JobSocket
  <2>3. RightPeer'
    <3>1. RightPeer
      BY <1>0 DEF PeerInv
    <3>2. \A c \in Conns : status'[c] = "live" /\ fd'[c] # 0 => fdTable'[fd'[c]] = fdTable[fd[c]]
      BY <1>3, <1>4
    <3> QED
      BY <1>2, <3>1, <3>2 DEF RightPeer
  <2> QED
    BY <2>1, <2>2, <2>3
<1> QED
  BY <1>5, <1>6, <1>7, <1>8, <1>9

LEMMA ConnectInv == ASSUME IInv, NEW t \in Threads, Connect(t) PROVE IInv'
<1>0. /\ PoolTypeOK /\ PcInv /\ OwnInv /\ FdInv
      /\ conn \in [Threads -> 0..MaxConn] /\ status \in [Conns -> {"unused", "live", "deleted"}]
      /\ host \in [Conns -> Hosts] /\ want \in [Threads -> Hosts] /\ fd \in [Conns -> Fds \cup {0}]
      /\ pc \in [Threads -> {"idle", "connect", "connecting", "created", "using",
                             "reconnecting", "flush", "ping"}]
      /\ MaxConn \in Nat
  BY PoolAssumption DEF IInv, PoolTypeOK
<1>1. PICK c \in Conns : /\ status[c] = "unused"
                         /\ status' = [status EXCEPT ![c] = "live"]
                         /\ host' = [host EXCEPT ![c] = want[t]]
                         /\ conn' = [conn EXCEPT ![t] = c]
  BY DEF Connect
<1>2. /\ pc[t] = "connect" /\ PortConnect(t, want[t], fdTable) /\ pc' = [pc EXCEPT ![t] = "connecting"]
      /\ UNCHANGED <<pool, when, fd, failed, mutex, want, all, unflushed, leaked, now>>
  BY DEF Connect
<1>3. c \notin owned /\ fd[c] = 0 /\ want[t] \in Hosts /\ c # 0
  BY <1>0, <1>1 DEF FdInv, owned, Conns
<1>4. PortTypeOK' /\ JobInv' /\ FdInv' /\ SockInv' /\ PeerInv'
  <2>1. fdTable \in [Fds -> 0..MaxSock]
    BY <1>0 DEF PoolTypeOK, PortTypeOK
  <2>2. \A d \in Conns : status'[d] = "live" /\ fd'[d] # 0 =>
             /\ status[d] = "live" /\ fd[d] = fd'[d] /\ host'[d] = host[d] /\ fd[d] \in Fds
    BY <1>0, <1>1, <1>2, <1>3
  <2>3. \A d \in Conns : status'[d] = "unused" => fd'[d] = 0
    BY <1>0, <1>1, <1>2 DEF FdInv
  <2>4. \A f \in Fds : fdTable[f] # 0 => \/ \E d \in Conns : status'[d] = "live" /\ fd'[d] = f
                                         \/ \E u \in Threads : sock[u] = f
    BY <1>0, <1>1, <1>2 DEF FdInv
  <2> QED
    BY <1>2, <1>3, <2>1, <2>2, <2>3, <2>4, OpenInv
<1>5. PoolTypeOK'
  <2>1. /\ status' \in [Conns -> {"unused", "live", "deleted"}] /\ host' \in [Conns -> Hosts]
        /\ conn' \in [Threads -> 0..MaxConn]
    BY <1>0, <1>1, <1>3 DEF Conns
  <2>2. pc' \in [Threads -> {"idle", "connect", "connecting", "created", "using",
                             "reconnecting", "flush", "ping"}]
    BY <1>0, <1>2
  <2> QED
    BY <1>0, <1>2, <1>4, <2>1, <2>2 DEF PoolTypeOK
<1>6. PcInv'
  <2>0. /\ fg' = [fg EXCEPT ![t] = "wait"] /\ far' = [far EXCEPT ![t] = want[t]]
        /\ fg \in [Threads -> {"out", "wait", "late"}] /\ far \in [Threads -> Hosts \cup {NoHost}]
    BY <1>0, <1>2 DEF PortConnect, PoolTypeOK, PortTypeOK
  <2>1. ASSUME NEW u \in Threads, u # t PROVE PcOf(u)'
    <3>1. PcOf(u) /\ pc'[u] = pc[u] /\ conn'[u] = conn[u] /\ fg'[u] = fg[u] /\ far'[u] = far[u]
      BY <1>0, <1>1, <1>2, <2>0, <2>1 DEF PcInv
    <3>2. conn[u] # 0 => conn[u] \in Conns /\ conn[u] # c /\ host'[conn[u]] = host[conn[u]]
      <4>1. conn[u] # 0 => conn[u] \in owned
        BY <1>0 DEF OwnInv, OneHas
      <4>2. conn[u] # 0 => conn[u] \in Conns
        BY <4>1 DEF owned
      <4> QED
        BY <1>0, <1>1, <1>3, <4>1, <4>2
    <3> QED
      BY <1>2, <3>1, <3>2 DEF PcOf
  <2>2. PcOf(t)'
    <3>1. /\ PcOf(t) /\ pc'[t] = "connecting" /\ conn'[t] = c /\ fg'[t] = "wait" /\ far'[t] = want[t]
          /\ host'[c] = want[t] /\ fd'[c] = 0
      BY <1>0, <1>1, <1>2, <1>3, <2>0 DEF PcInv
    <3> QED
      BY <1>2, <1>3, <3>1 DEF PcOf
  <2> QED
    BY <2>1, <2>2 DEF PcInv
<1>7. OwnInv'
  <2>1. pooled' = pooled /\ flushing' = flushing /\ sound' = sound
    BY <1>2 DEF pooled, flushing, sound
  <2>2. owned' = owned \cup {c}
    <3>1. c \notin leaked
      BY <1>0, <1>1 DEF OwnInv
    <3> QED
      BY <1>0, <1>1, <1>2, <3>1 DEF owned
  <2>3. conn[t] = 0
    BY <1>0, <1>2 DEF PcInv, PcOf
  <2>4. OneHas(pooled, flushing, want, [conn EXCEPT ![t] = c], owned \cup {c}, sound,
               [host EXCEPT ![c] = want[t]])
    BY <1>0, <1>3, <2>3, SetTypes, MadeNew DEF OwnInv
  <2> QED
    BY <1>0, <1>1, <1>2, <2>1, <2>2, <2>4 DEF OwnInv
<1> QED
  BY <1>4, <1>5, <1>6, <1>7 DEF IInv

LEMMA ReconnectInv == ASSUME IInv, NEW t \in Threads, Reconnect(t) PROVE IInv'
<1> DEFINE c == conn[t]
           table == Closed(fdTable, {fd[c]})
<1>0. /\ PoolTypeOK /\ PcInv /\ OwnInv /\ FdInv
      /\ host \in [Conns -> Hosts] /\ fd \in [Conns -> Fds \cup {0}]
      /\ fdTable \in [Fds -> 0..MaxSock] /\ sock \in [Threads -> Fds \cup {0}]
      /\ fg \in [Threads -> {"out", "wait", "late"}] /\ far \in [Threads -> Hosts \cup {NoHost}]
      /\ pc \in [Threads -> {"idle", "connect", "connecting", "created", "using",
                             "reconnecting", "flush", "ping"}]
      /\ MaxSock \in Nat /\ 0 \notin Fds
  BY ConnectAssumption DEF IInv, PoolTypeOK, PortTypeOK
<1>1. /\ pc[t] = "using" /\ PortConnect(t, host[c], table)
      /\ fd' = [fd EXCEPT ![c] = 0] /\ pc' = [pc EXCEPT ![t] = "reconnecting"]
      /\ UNCHANGED <<pool, when, status, host, failed, mutex, conn, want, all, unflushed, leaked, now>>
  BY DEF Reconnect
<1>2. c # 0 /\ c \in Conns /\ status[c] = "live" /\ host[c] \in Hosts
  <2>1. c # 0
    BY <1>0, <1>1 DEF PcInv, PcOf
  <2>2. c \in owned
    BY <1>0, <2>1 DEF OwnInv, OneHas
  <2> QED
    BY <1>0, <2>1, <2>2 DEF owned
<1>3. \A f \in Fds : table[f] = IF f = fd[c] THEN 0 ELSE fdTable[f]
  BY DEF Closed
<1>4. table \in [Fds -> 0..MaxSock]
  BY <1>0 DEF Closed
<1>5. \A d \in Conns : fd'[d] = IF d = c THEN 0 ELSE fd[d]
  BY <1>0, <1>1, <1>2
<1> HIDE DEF table, c
<1>6. PortTypeOK' /\ JobInv' /\ FdInv' /\ SockInv' /\ PeerInv'
  <2>1. \A f \in Fds : table[f] = fdTable[f] \/ table[f] = 0
    BY <1>3
  <2>2. \A u \in Threads : sock[u] # 0 => table[sock[u]] = fdTable[sock[u]]
    BY <1>0, <1>2, <1>3 DEF FdInv
  <2>3. \A d \in Conns : status'[d] = "live" /\ fd'[d] # 0 =>
             /\ status[d] = "live" /\ fd[d] = fd'[d] /\ host'[d] = host[d]
             /\ fd[d] \in Fds /\ table[fd[d]] = fdTable[fd[d]]
    BY <1>0, <1>1, <1>2, <1>3, <1>5 DEF FdInv
  <2>4. \A d \in Conns : status'[d] = "unused" => fd'[d] = 0
    BY <1>0, <1>1, <1>5 DEF FdInv
  <2>5. \A f \in Fds : table[f] # 0 => \/ \E d \in Conns : status'[d] = "live" /\ fd'[d] = f
                                       \/ \E u \in Threads : sock[u] = f
    <3> SUFFICES ASSUME NEW f \in Fds, table[f] # 0
                 PROVE  \/ \E d \in Conns : status'[d] = "live" /\ fd'[d] = f
                        \/ \E u \in Threads : sock[u] = f
      OBVIOUS
    <3>1. f # fd[c] /\ fdTable[f] # 0
      BY <1>3
    <3> QED
      BY <1>0, <1>1, <1>5, <3>1 DEF FdInv
  <2> QED
    BY <1>1, <1>2, <1>4, <2>1, <2>2, <2>3, <2>4, <2>5, OpenInv
<1>7. PoolTypeOK'
  <2>1. fd' \in [Conns -> Fds \cup {0}]
    BY <1>0, <1>1
  <2>2. pc' \in [Threads -> {"idle", "connect", "connecting", "created", "using",
                             "reconnecting", "flush", "ping"}]
    BY <1>0, <1>1
  <2> QED
    BY <1>0, <1>1, <1>6, <2>1, <2>2 DEF PoolTypeOK
<1>8. PcInv'
  <2>0. fg' = [fg EXCEPT ![t] = "wait"] /\ far' = [far EXCEPT ![t] = host[c]]
    BY <1>1 DEF PortConnect
  <2>1. ASSUME NEW u \in Threads, u # t PROVE PcOf(u)'
    <3>1. PcOf(u) /\ pc'[u] = pc[u] /\ conn'[u] = conn[u] /\ fg'[u] = fg[u] /\ far'[u] = far[u]
      BY <1>0, <1>1, <2>0, <2>1 DEF PcInv
    <3>2. conn[u] # 0 => conn[u] \in Conns
      <4>1. conn[u] # 0 => conn[u] \in owned
        BY <1>0 DEF OwnInv, OneHas
      <4> QED
        BY <4>1 DEF owned
    <3> QED
      BY <1>1, <1>5, <3>1, <3>2 DEF PcOf
  <2>2. PcOf(t)'
    <3>1. /\ PcOf(t) /\ pc'[t] = "reconnecting" /\ fg'[t] = "wait" /\ far'[t] = host[c] /\ fd'[c] = 0
          /\ conn[t] = c /\ conn[t] # 0
      BY <1>0, <1>1, <1>2, <1>5, <2>0 DEF PcInv, c
    <3> QED
      BY <1>1, <3>1 DEF PcOf
  <2> QED
    BY <2>1, <2>2 DEF PcInv
<1>9. OwnInv'
  BY <1>0, <1>1, OwnFrame
<1> QED
  BY <1>6, <1>7, <1>8, <1>9 DEF IInv

-----------------------------------------------------------------------------
(* MessagingPort::connect returns, or gives up waiting.                    *)

LEMMA ConnectedInv == ASSUME IInv, NEW t \in Threads, Connected(t) PROVE IInv'
<1> DEFINE c == conn[t]
           f == sock[t]
<1>0. /\ PoolTypeOK /\ PcInv /\ OwnInv /\ FdInv /\ JobInv /\ SockInv /\ PeerInv /\ PortTypeOK
      /\ fd \in [Conns -> Fds \cup {0}] /\ failed \in [Conns -> BOOLEAN]
      /\ sock \in [Threads -> Fds \cup {0}]
      /\ fg \in [Threads -> {"out", "wait", "late"}] /\ far \in [Threads -> Hosts \cup {NoHost}]
      /\ pc \in [Threads -> {"idle", "connect", "connecting", "created", "using",
                             "reconnecting", "flush", "ping"}]
      /\ 0 \notin Fds
  BY ConnectAssumption DEF IInv, PoolTypeOK, PortTypeOK
<1>t. /\ state \in [Threads -> {"none", "NotStarted", "Running", "Done"}]
      /\ bg \in [Threads -> {"none", "start", "run", "connect", "end"}]
      /\ bgFd \in [Threads -> Fds \cup {0}] /\ res \in [Threads -> {"unset", "ok", "error"}]
  BY <1>0 DEF PortTypeOK
<1>1. /\ pc[t] \in {"connecting", "reconnecting"}
      /\ fg[t] = "wait" /\ state[t] = "Done" /\ res[t] = "ok"
      /\ fd' = [fd EXCEPT ![c] = f] /\ failed' = [failed EXCEPT ![c] = FALSE]
      /\ pc' = [pc EXCEPT ![t] = IF pc[t] = "connecting" THEN "created" ELSE "using"]
      /\ UNCHANGED <<pool, when, status, host, mutex, conn, want, all, unflushed, leaked, now>>
  BY DEF Connected, ConnectWorks
<1>2. /\ fg' = [fg EXCEPT ![t] = "out"] /\ sock' = [sock EXCEPT ![t] = 0]
      /\ state' = [state EXCEPT ![t] = "none"] /\ bgFd' = [bgFd EXCEPT ![t] = 0]
      /\ res' = [res EXCEPT ![t] = "unset"] /\ far' = [far EXCEPT ![t] = NoHost]
      /\ UNCHANGED <<fdTable, peer, trying, nextSock, bg, bgSock, stray>>
  BY DEF Connected, ConnectWorks, Leave, kernelVars
<1>3. c # 0 /\ c \in Conns /\ status[c] = "live" /\ fd[c] = 0 /\ far[t] = host[c]
  <2>1. c # 0 /\ fd[c] = 0 /\ far[t] = host[c]
    BY <1>0, <1>1 DEF PcInv, PcOf
  <2>2. c \in owned
    BY <1>0, <2>1 DEF OwnInv, OneHas
  <2> QED
    BY <2>1, <2>2 DEF owned
<1>4. f # 0 /\ f \in Fds /\ bg[t] = "none"
  BY <1>0, <1>1 DEF JobInv
<1>5. /\ \A d \in Conns : fd'[d] = IF d = c THEN f ELSE fd[d]
      /\ \A d \in Conns : d # c => failed'[d] = failed[d]
      /\ \A u \in Threads : sock'[u] = IF u = t THEN 0 ELSE sock[u]
  BY <1>0, <1>1, <1>2, <1>3
<1>c. c = conn[t] /\ f = sock[t]
  OBVIOUS
<1> HIDE DEF c, f
<1>6. JobInv'
  BY <1>0, <1>2, <1>4, <1>t DEF JobInv
<1>7. FdInv'
  <2>1. \A d \in Conns : status[d] = "unused" => fd'[d] = 0
    BY <1>0, <1>3, <1>5 DEF FdInv
  <2>2. \A d, e \in Conns :
          status[d] = "live" /\ status[e] = "live" /\ fd'[d] = fd'[e] /\ fd'[d] # 0 => d = e
    BY <1>0, <1>4, <1>5, <1>c DEF FdInv
  <2>3. \A u, v \in Threads : sock'[u] = sock'[v] /\ sock'[u] # 0 => u = v
    BY <1>0, <1>5 DEF FdInv
  <2>4. \A d \in Conns, u \in Threads : status[d] = "live" /\ fd'[d] # 0 => fd'[d] # sock'[u]
    BY <1>0, <1>4, <1>5, <1>c DEF FdInv
  <2>5. ASSUME NEW g \in Fds
        PROVE  fdTable[g] # 0 <=> \/ \E d \in Conns : status[d] = "live" /\ fd'[d] = g
                                  \/ \E u \in Threads : sock'[u] = g
    <3>1. fdTable[g] # 0 <=> \/ \E d \in Conns : status[d] = "live" /\ fd[d] = g
                             \/ \E u \in Threads : sock[u] = g
      BY <1>0 DEF FdInv
    <3>2. CASE g = f
      BY <1>3, <1>5, <1>c, <3>1, <3>2
    <3>3. CASE g # f
      <4>1. g # 0
        BY <1>0
      <4>2. \A d \in Conns : fd'[d] = g <=> fd[d] = g
        BY <1>3, <1>5, <3>3, <4>1
      <4>3. \A u \in Threads : sock'[u] = g <=> sock[u] = g
        BY <1>5, <1>c, <3>3, <4>1
      <4> QED
        BY <3>1, <4>2, <4>3
    <3> QED
      BY <3>2, <3>3
  <2> QED
    BY <1>1, <1>2, <2>1, <2>2, <2>3, <2>4, <2>5 DEF FdInv
<1>8. SockInv'
  BY <1>0, <1>2, SockFrame
<1>9. PeerInv'
  <2> SUFFICES ASSUME ~stray PROVE (\A u \in Threads : JobSocket(u)') /\ RightPeer'
    BY <1>2 DEF PeerInv
  <2>1. JobSocket(t)'
    BY <1>0, <1>2 DEF JobSocket
  <2>2. ASSUME NEW u \in Threads, u # t PROVE JobSocket(u)'
    <3>1. /\ JobSocket(u)
          /\ fg'[u] = fg[u] /\ res'[u] = res[u] /\ far'[u] = far[u] /\ sock'[u] = sock[u]
      BY <1>0, <1>2, <1>5, <1>t, <2>2 DEF PeerInv
    <3> QED
      BY <1>2, <3>1 DEF JobSocket
  <2>3. RightPeer'
    <3>1. RightPeer /\ JobSocket(t)
      BY <1>0 DEF PeerInv
    <3>2. peer[fdTable[f]] = host[c]
      BY <1>1, <1>3, <1>c, <3>1 DEF JobSocket
    <3> QED
      BY <1>1, <1>2, <1>5, <3>1, <3>2 DEF RightPeer
  <2> QED
    BY <2>1, <2>2, <2>3
<1>10. PoolTypeOK'
  <2>1. fd' \in [Conns -> Fds \cup {0}]
    BY <1>0, <1>1, <1>4
  <2>2. failed' \in [Conns -> BOOLEAN]
    <3>1. FALSE \in BOOLEAN
      BY Zenon
    <3> QED
      BY <1>0, <1>1, <3>1
  <2>3. pc' \in [Threads -> {"idle", "connect", "connecting", "created", "using",
                             "reconnecting", "flush", "ping"}]
    BY <1>0, <1>1
  <2>4. /\ fg' \in [Threads -> {"out", "wait", "late"}] /\ sock' \in [Threads -> Fds \cup {0}]
        /\ state' \in [Threads -> {"none", "NotStarted", "Running", "Done"}]
        /\ bgFd' \in [Threads -> Fds \cup {0}] /\ res' \in [Threads -> {"unset", "ok", "error"}]
        /\ far' \in [Threads -> Hosts \cup {NoHost}]
    BY <1>0, <1>2, <1>t
  <2>5. PortTypeOK'
    BY <1>0, <1>2, <2>4 DEF PortTypeOK
  <2> QED
    BY <1>0, <1>1, <2>1, <2>2, <2>3, <2>5 DEF PoolTypeOK
<1>11. PcInv'
  <2>1. ASSUME NEW u \in Threads, u # t PROVE PcOf(u)'
    <3>1. PcOf(u) /\ pc'[u] = pc[u] /\ fg'[u] = fg[u] /\ far'[u] = far[u]
      BY <1>0, <1>1, <1>2, <2>1 DEF PcInv
    <3>2. conn[u] # 0 => conn[u] \in Conns /\ conn[u] # c
      <4>1. conn[u] # 0 => conn[u] \in owned /\ conn[u] # c
        BY <1>0, <1>c, <2>1 DEF OwnInv, OneHas
      <4> QED
        BY <4>1 DEF owned
    <3> QED
      BY <1>1, <1>5, <3>1, <3>2 DEF PcOf
  <2>2. PcOf(t)'
    <3>1. PcOf(t) /\ pc'[t] \in {"created", "using"} /\ fg'[t] = "out" /\ conn[t] # 0
      BY <1>0, <1>1, <1>2, <1>3, <1>c DEF PcInv
    <3> QED
      BY <1>1, <3>1 DEF PcOf
  <2> QED
    BY <2>1, <2>2 DEF PcInv
<1>12. OwnInv'
  <2>1. pooled' = pooled /\ flushing' = flushing /\ owned' = owned
    BY <1>1 DEF pooled, flushing, owned
  <2>2. \A d \in Conns : d # conn[t] => (d \in sound' <=> d \in sound)
    BY <1>5, <1>c DEF sound
  <2>3. OneHas(pooled, flushing, want, conn, owned, sound', host)
    BY <1>0, <2>2, SetTypes, FlagSet DEF OwnInv
  <2> QED
    BY <1>0, <1>1, <2>1, <2>3 DEF OwnInv
<1> QED
  BY <1>6, <1>7, <1>8, <1>9, <1>10, <1>11, <1>12 DEF IInv

(* The socket of a connect() is closed, if it is still open: connect()     *)
(* returns or begins its second wait, and may lose its connection.         *)
Closing(t) ==
    /\ fg[t] # "out" /\ fg'[t] \in {"out", "late"} /\ (fg'[t] = "late" => fg[t] = "wait")
    /\ fdTable' = [f \in Fds |-> IF f = sock[t] THEN 0 ELSE fdTable[f]]
    /\ sock' = [sock EXCEPT ![t] = 0]
    /\ UNCHANGED <<peer, trying, nextSock, bg, bgSock, stray, fd, host, failed>>
    /\ \A c \in Conns : c # conn[t] => status'[c] = status[c]
    /\ status'[conn[t]] \in {"live", "deleted"}
    /\ \A u \in Threads : u # t => fg'[u] = fg[u] /\ far'[u] = far[u] /\ res'[u] = res[u]

LEMMA CloseInv ==
  ASSUME IInv, NEW t \in Threads, Closing(t)
  PROVE  FdInv' /\ SockInv' /\ PeerInv' /\ fdTable' \in [Fds -> 0..MaxSock]
<1> DEFINE c == conn[t]
           f == sock[t]
<1>0. /\ PcInv /\ OwnInv /\ FdInv /\ JobInv /\ SockInv /\ PeerInv
      /\ fd \in [Conns -> Fds \cup {0}] /\ sock \in [Threads -> Fds \cup {0}]
      /\ fdTable \in [Fds -> 0..MaxSock] /\ nextSock \in 0..MaxSock
      /\ 0 \notin Fds /\ MaxSock \in Nat
  BY ConnectAssumption DEF IInv, PoolTypeOK, PortTypeOK
<1>1. c # 0 /\ c \in Conns /\ status[c] = "live" /\ fd[c] = 0
  <2>1. c # 0 /\ fd[c] = 0
    BY <1>0 DEF PcInv, PcOf, Closing
  <2>2. c \in owned
    BY <1>0, <2>1 DEF OwnInv, OneHas
  <2> QED
    BY <2>1, <2>2 DEF owned
<1>2. /\ \A g \in Fds : fdTable'[g] = IF g = f THEN 0 ELSE fdTable[g]
      /\ \A u \in Threads : sock'[u] = IF u = t THEN 0 ELSE sock[u]
      /\ fdTable' \in [Fds -> 0..MaxSock]
  BY <1>0 DEF Closing
<1>3. /\ \A d \in Conns : status[d] = "live" /\ fd[d] # 0 <=> status'[d] = "live" /\ fd[d] # 0
      /\ \A d \in Conns : status'[d] = "unused" => status[d] = "unused"
  BY <1>1 DEF Closing
<1>c. c = conn[t] /\ f = sock[t]
  OBVIOUS
<1> HIDE DEF c, f
<1>u. UNCHANGED <<peer, trying, nextSock, bg, bgSock, stray, fd, host, failed>>
  BY DEF Closing
<1>v. /\ fg'[t] \in {"out", "late"} /\ (fg'[t] = "late" => fg[t] = "wait")
      /\ \A u \in Threads : u # t => fg'[u] = fg[u] /\ far'[u] = far[u] /\ res'[u] = res[u]
  BY DEF Closing
<1>d. \A d \in Conns : status[d] = "live" /\ fd[d] # 0 => fd[d] \in Fds /\ fd[d] # f
  BY <1>0, <1>c DEF FdInv
<1>4. FdInv'
  <2>1. \A u, v \in Threads : sock'[u] = sock'[v] /\ sock'[u] # 0 => u = v
    BY <1>0, <1>2 DEF FdInv
  <2>2. \A d \in Conns, u \in Threads : status'[d] = "live" /\ fd[d] # 0 => fd[d] # sock'[u]
    BY <1>0, <1>2, <1>3 DEF FdInv
  <2>3. ASSUME NEW g \in Fds
        PROVE  fdTable'[g] # 0 <=> \/ \E d \in Conns : status'[d] = "live" /\ fd[d] = g
                                   \/ \E u \in Threads : sock'[u] = g
    <3>0. g # 0
      BY <1>0
    <3>1. fdTable[g] # 0 <=> \/ \E d \in Conns : status[d] = "live" /\ fd[d] = g
                             \/ \E u \in Threads : sock[u] = g
      BY <1>0 DEF FdInv
    <3>2. CASE g = f
      <4>1. \A d \in Conns : status'[d] = "live" => fd[d] # g
        BY <1>0, <1>3, <1>c, <3>0, <3>2 DEF FdInv
      <4>2. \A u \in Threads : sock'[u] # g
        BY <1>0, <1>2, <1>c, <3>0, <3>2 DEF FdInv
      <4> QED
        BY <1>2, <3>2, <4>1, <4>2
    <3>3. CASE g # f
      <4>1. fdTable'[g] = fdTable[g]
        BY <1>2, <3>3
      <4>2. \A d \in Conns : status'[d] = "live" /\ fd[d] = g <=> status[d] = "live" /\ fd[d] = g
        BY <1>3, <3>0
      <4>3. \A u \in Threads : sock'[u] = g <=> sock[u] = g
        BY <1>2, <1>c, <3>0, <3>3
      <4> QED
        BY <3>1, <4>1, <4>2, <4>3
    <3> QED
      BY <3>2, <3>3
  <2> QED
    BY <1>0, <1>3, <1>u, <2>1, <2>2, <2>3 DEF FdInv
<1>5. SockInv'
  <2>1. \A g \in Fds : fdTable'[g] = fdTable[g] \/ fdTable'[g] = 0
    BY <1>2
  <2>2. \A g \in Fds : fdTable'[g] <= nextSock
    BY <1>0, <2>1 DEF SockInv
  <2>3. \A g, k \in Fds : fdTable'[g] = fdTable'[k] /\ fdTable'[g] # 0 => g = k
    BY <1>0, <2>1 DEF SockInv
  <2> QED
    BY <1>0, <1>u, <2>2, <2>3 DEF SockInv
<1>6. PeerInv'
  <2> SUFFICES ASSUME ~stray PROVE (\A u \in Threads : JobSocket(u)') /\ RightPeer'
    BY <1>u DEF PeerInv
  <2>0. \A g \in Fds : fdTable'[g] = fdTable[g] \/ fdTable'[g] = 0
    BY <1>2
  <2>1. ASSUME NEW u \in Threads, u # t PROVE JobSocket(u)'
    <3>1. /\ JobSocket(u) /\ sock'[u] = sock[u]
          /\ fg'[u] = fg[u] /\ far'[u] = far[u] /\ res'[u] = res[u]
      BY <1>0, <1>2, <1>v, <2>1 DEF PeerInv
    <3>2. fg[u] = "wait" => fdTable'[sock[u]] = fdTable[sock[u]]
      BY <1>0, <1>2, <1>c, <2>1 DEF JobInv, FdInv
    <3>3. bg[u] = "connect" => bgSock[u] # 0
      BY <1>0 DEF SockInv
    <3> QED
      BY <1>u, <2>0, <3>1, <3>2, <3>3 DEF JobSocket
  <2>2. JobSocket(t)'
    <3>1. ASSUME fg'[t] = "late", bg[t] = "connect", NEW g \in Fds PROVE fdTable'[g] # bgSock[t]
      <4>1. JobSocket(t) /\ fg[t] = "wait" /\ f \in Fds
        BY <1>0, <1>c, <1>v, <3>1 DEF PeerInv, JobInv
      <4>2. bgSock[t] = fdTable[f] /\ bgSock[t] # 0
        BY <1>0, <1>c, <3>1, <4>1 DEF JobSocket, SockInv
      <4>3. g # f => fdTable[g] # fdTable[f]
        BY <1>0, <4>1, <4>2 DEF SockInv
      <4> QED
        BY <1>2, <4>2, <4>3
    <3> QED
      BY <1>u, <1>v, <3>1 DEF JobSocket
  <2>3. RightPeer'
    <3>1. RightPeer
      BY <1>0 DEF PeerInv
    <3>2. \A d \in Conns : status[d] = "live" /\ fd[d] # 0 => fdTable'[fd[d]] = fdTable[fd[d]]
      BY <1>2, <1>d
    <3> QED
      BY <1>3, <1>u, <3>1, <3>2 DEF RightPeer
  <2> QED
    BY <2>1, <2>2, <2>3
<1> QED
  BY <1>2, <1>4, <1>5, <1>6

LEMMA GiveUpInv == ASSUME IInv, NEW t \in Threads, GiveUp(t) PROVE IInv'
<1>0. /\ PoolTypeOK /\ PcInv /\ OwnInv /\ FdInv /\ JobInv /\ PortTypeOK
      /\ sock \in [Threads -> Fds \cup {0}] /\ fg \in [Threads -> {"out", "wait", "late"}]
  BY DEF IInv, PoolTypeOK, PortTypeOK
<1>1. /\ fg[t] = "wait" /\ fdTable' = [f \in Fds |-> IF f = sock[t] THEN 0 ELSE fdTable[f]]
      /\ sock' = [sock EXCEPT ![t] = 0] /\ fg' = [fg EXCEPT ![t] = "late"]
      /\ UNCHANGED <<peer, trying, nextSock, far, state, bg, bgFd, bgSock, res, stray>>
  BY DEF GiveUp, ConnectTimesOut, Closed, jobVars
<1>2. /\ UNCHANGED <<pool, when, status, host, fd, failed, mutex, pc, conn, want>>
      /\ UNCHANGED <<all, unflushed, leaked, now>>
  BY DEF GiveUp, poolVars, connVars, thrVars
<1>3. FdInv' /\ SockInv' /\ PeerInv' /\ fdTable' \in [Fds -> 0..MaxSock]
  <2>1. conn[t] # 0 /\ conn[t] \in Conns /\ status[conn[t]] = "live"
    <3>1. conn[t] # 0
      BY <1>0, <1>1 DEF PcInv, PcOf
    <3>2. conn[t] \in owned
      BY <1>0, <3>1 DEF OwnInv, OneHas
    <3> QED
      BY <3>1, <3>2 DEF owned
  <2>2. Closing(t)
    BY <1>0, <1>1, <1>2, <2>1 DEF Closing
  <2> QED
    BY <2>2, CloseInv
<1>4. PoolTypeOK'
  <2>1. sock' \in [Threads -> Fds \cup {0}] /\ fg' \in [Threads -> {"out", "wait", "late"}]
    BY <1>0, <1>1
  <2>2. PortTypeOK'
    BY <1>0, <1>1, <1>3, <2>1 DEF PortTypeOK
  <2> QED
    BY <1>0, <1>2, <2>2 DEF PoolTypeOK
<1>5. JobInv'
  BY <1>0, <1>1 DEF JobInv
<1>6. PcInv'
  <2>1. \A u \in Threads : (fg'[u] # "out" <=> fg[u] # "out")
    BY <1>0, <1>1
  <2> QED
    BY <1>0, <1>1, <1>2, <2>1 DEF PcInv, PcOf
<1>7. OwnInv'
  BY <1>0, <1>2, OwnFrame
<1> QED
  BY <1>3, <1>4, <1>5, <1>6, <1>7 DEF IInv

LEMMA NotConnectedInv == ASSUME IInv, NEW t \in Threads, NotConnected(t) PROVE IInv'
<1> DEFINE c == conn[t]
<1>0. /\ PoolTypeOK /\ PcInv /\ OwnInv /\ FdInv /\ JobInv /\ PortTypeOK
      /\ conn \in [Threads -> 0..MaxConn] /\ status \in [Conns -> {"unused", "live", "deleted"}]
      /\ fdTable \in [Fds -> 0..MaxSock]
      /\ sock \in [Threads -> Fds \cup {0}] /\ fg \in [Threads -> {"out", "wait", "late"}]
      /\ far \in [Threads -> Hosts \cup {NoHost}]
      /\ pc \in [Threads -> {"idle", "connect", "connecting", "created", "using",
                             "reconnecting", "flush", "ping"}]
      /\ 0 \notin Fds
  BY ConnectAssumption DEF IInv, PoolTypeOK, PortTypeOK
<1>t. /\ state \in [Threads -> {"none", "NotStarted", "Running", "Done"}]
      /\ bg \in [Threads -> {"none", "start", "run", "connect", "end"}]
      /\ bgFd \in [Threads -> Fds \cup {0}] /\ res \in [Threads -> {"unset", "ok", "error"}]
  BY <1>0 DEF PortTypeOK
<1>1. /\ fg[t] # "out" /\ state[t] = "Done"
      /\ fg' = [fg EXCEPT ![t] = "out"] /\ sock' = [sock EXCEPT ![t] = 0]
      /\ state' = [state EXCEPT ![t] = "none"] /\ bgFd' = [bgFd EXCEPT ![t] = 0]
      /\ res' = [res EXCEPT ![t] = "unset"] /\ far' = [far EXCEPT ![t] = NoHost]
      /\ UNCHANGED <<peer, trying, nextSock, bg, bgSock, stray>>
  BY DEF NotConnected, ConnectRefused, LateEnds, Leave, kernelVars
<1>2. fdTable' = [f \in Fds |-> IF f = sock[t] THEN 0 ELSE fdTable[f]]
  <2>1. CASE ConnectRefused(t)
    BY <2>1 DEF ConnectRefused, Closed
  <2>2. CASE LateEnds(t)
    <3>1. sock[t] = 0 /\ fdTable' = fdTable
      BY <1>0, <2>2 DEF JobInv, LateEnds, kernelVars
    <3> QED
      BY <1>0, <3>1
  <2> QED
    BY <2>1, <2>2 DEF NotConnected
<1>3. /\ \/ /\ pc[t] = "connecting"
            /\ status' = [status EXCEPT ![c] = "deleted"] /\ conn' = [conn EXCEPT ![t] = 0]
            /\ pc' = [pc EXCEPT ![t] = "idle"]
         \/ /\ pc[t] = "reconnecting" /\ pc' = [pc EXCEPT ![t] = "using"]
            /\ UNCHANGED <<status, conn>>
      /\ UNCHANGED <<pool, when, host, fd, failed, mutex, want, all, unflushed, leaked, now>>
  BY DEF NotConnected
<1>4. c # 0 /\ c \in owned /\ c \in Conns /\ status[c] = "live" /\ c \notin leaked
  <2>1. c # 0
    BY <1>0, <1>3 DEF PcInv, PcOf
  <2>2. c \in owned
    BY <1>0, <2>1 DEF OwnInv, OneHas
  <2> QED
    BY <2>1, <2>2 DEF owned
<1>5. FdInv' /\ SockInv' /\ PeerInv' /\ fdTable' \in [Fds -> 0..MaxSock]
  <2>1. Closing(t)
    BY <1>0, <1>1, <1>2, <1>3, <1>4 DEF Closing
  <2> QED
    BY <2>1, CloseInv
<1>6. PoolTypeOK'
  <2>1. /\ fg' \in [Threads -> {"out", "wait", "late"}] /\ sock' \in [Threads -> Fds \cup {0}]
        /\ state' \in [Threads -> {"none", "NotStarted", "Running", "Done"}]
        /\ bgFd' \in [Threads -> Fds \cup {0}] /\ res' \in [Threads -> {"unset", "ok", "error"}]
        /\ far' \in [Threads -> Hosts \cup {NoHost}]
    BY <1>0, <1>1, <1>t
  <2>2. PortTypeOK'
    BY <1>0, <1>1, <1>5, <2>1 DEF PortTypeOK
  <2>3. conn' \in [Threads -> 0..MaxConn] /\ status' \in [Conns -> {"unused", "live", "deleted"}]
    BY <1>0, <1>3, PoolAssumption
  <2>4. pc' \in [Threads -> {"idle", "connect", "connecting", "created", "using",
                             "reconnecting", "flush", "ping"}]
    BY <1>0, <1>3
  <2> QED
    BY <1>0, <1>3, <2>2, <2>3, <2>4 DEF PoolTypeOK
<1>7. JobInv'
  <2>1. bg[t] = "none"
    BY <1>0, <1>1 DEF JobInv
  <2> QED
    BY <1>0, <1>1, <1>t, <2>1 DEF JobInv
<1>8. PcInv'
  <2>1. ASSUME NEW u \in Threads, u # t PROVE PcOf(u)'
    <3>1. PcOf(u) /\ pc'[u] = pc[u] /\ conn'[u] = conn[u] /\ fg'[u] = fg[u] /\ far'[u] = far[u]
      BY <1>0, <1>1, <1>3, <2>1 DEF PcInv
    <3> QED
      BY <1>3, <3>1 DEF PcOf
  <2>2. PcOf(t)'
    <3>1. PcOf(t) /\ fg'[t] = "out"
      BY <1>0, <1>1 DEF PcInv
    <3> QED
      BY <1>0, <1>3, <1>4, <3>1 DEF PcOf
  <2> QED
    BY <2>1, <2>2 DEF PcInv
<1>9. OwnInv'
  <2>1. CASE UNCHANGED <<status, conn>>
    BY <1>0, <1>3, <2>1, OwnFrame
  <2>2. CASE status' = [status EXCEPT ![c] = "deleted"] /\ conn' = [conn EXCEPT ![t] = 0]
    <3>1. pooled' = pooled /\ flushing' = flushing /\ sound' = sound
      BY <1>3 DEF pooled, flushing, sound
    <3>2. owned' = owned \ {conn[t]}
      BY <1>0, <1>3, <1>4, <2>2 DEF owned
    <3>3. OneHas(pooled, flushing, want, [conn EXCEPT ![t] = 0], owned \ {conn[t]}, sound, host)
      BY <1>0, <1>4, SetTypes, Dropped DEF OwnInv
    <3>4. \A d \in leaked' : status'[d] = "live"
      BY <1>0, <1>3, <1>4, <2>2 DEF OwnInv, PoolTypeOK
    <3> QED
      BY <1>0, <1>3, <2>2, <3>1, <3>2, <3>3, <3>4 DEF OwnInv
  <2> QED
    BY <1>3, <2>1, <2>2
<1> QED
  BY <1>5, <1>6, <1>7, <1>8, <1>9 DEF IInv

-----------------------------------------------------------------------------
(* The thread of a job.  It leaves the pool and the descriptors alone.     *)

LEMMA JobFrames ==
  ASSUME IInv, UNCHANGED poolVars, UNCHANGED <<fdTable, nextSock, fg, sock, far>>, PortTypeOK'
  PROVE  PoolTypeOK' /\ PcInv' /\ OwnInv' /\ FdInv'
<1>1. /\ UNCHANGED <<pool, when, status, host, fd, failed, mutex, pc, conn, want>>
      /\ UNCHANGED <<all, unflushed, leaked, now>>
  BY DEF poolVars, connVars, thrVars
<1>2. PoolTypeOK /\ PcInv /\ OwnInv /\ FdInv
  BY DEF IInv
<1>3. PoolTypeOK'
  BY <1>1, <1>2 DEF PoolTypeOK
<1> QED
  BY <1>1, <1>2, <1>3, PcFrame, OwnFrame, FdFrame

LEMMA JobMovesInv ==
  ASSUME IInv, NEW t \in Threads, JobStarts(t) \/ JobEnds(t), UNCHANGED poolVars PROVE IInv'
<1>0. /\ JobInv /\ SockInv /\ PeerInv /\ PortTypeOK
      /\ state \in [Threads -> {"none", "NotStarted", "Running", "Done"}]
      /\ bg \in [Threads -> {"none", "start", "run", "connect", "end"}]
  BY DEF IInv, PoolTypeOK, PortTypeOK
<1>1. /\ \/ /\ bg[t] = "start" /\ bg' = [bg EXCEPT ![t] = "run"]
            /\ state' = [state EXCEPT ![t] = "Running"]
         \/ /\ bg[t] = "end" /\ bg' = [bg EXCEPT ![t] = "none"]
            /\ state' = [state EXCEPT ![t] = "Done"]
      /\ UNCHANGED <<fdTable, peer, trying, nextSock, fg, sock, far, bgFd, bgSock, res, stray>>
  BY DEF JobStarts, JobEnds, kernelVars, callVars
<1>2. UNCHANGED <<status, host, fd, failed>>
  BY DEF poolVars, connVars
<1>3. PortTypeOK'
  <2>1. /\ state' \in [Threads -> {"none", "NotStarted", "Running", "Done"}]
        /\ bg' \in [Threads -> {"none", "start", "run", "connect", "end"}]
    BY <1>0, <1>1
  <2> QED
    BY <1>0, <1>1, <2>1 DEF PortTypeOK
<1>4. JobInv'
  BY <1>0, <1>1 DEF JobInv
<1>5. SockInv'
  <2>1. \A u \in Threads : bg'[u] = "connect" => bg[u] = "connect"
    BY <1>0, <1>1
  <2> QED
    BY <1>0, <1>1, <2>1 DEF SockInv
<1>6. PeerInv'
  <2>1. ASSUME NEW u \in Threads, JobSocket(u) PROVE JobSocket(u)'
    <3>1. /\ bg'[u] = "connect" => bg[u] = "connect"
          /\ bg'[u] \in {"start", "run"} => bg[u] \in {"start", "run"}
      BY <1>0, <1>1
    <3> QED
      BY <1>1, <2>1, <3>1 DEF JobSocket
  <2> QED
    BY <1>0, <1>1, <1>2, <2>1 DEF PeerInv, RightPeer
<1>7. PoolTypeOK' /\ PcInv' /\ OwnInv' /\ FdInv'
  BY <1>1, <1>3, JobFrames
<1> QED
  BY <1>4, <1>5, <1>6, <1>7 DEF IInv

(* Whose socket it is: nobody else has a descriptor for the socket of a    *)
(* thread that waits.                                                      *)
LEMMA OwnSocket ==
  ASSUME IInv, NEW t \in Threads, fg[t] = "wait"
  PROVE  /\ sock[t] \in Fds /\ fdTable[sock[t]] \in 1..nextSock
         /\ \A u \in Threads : u # t /\ fg[u] = "wait" => fdTable[sock[u]] # fdTable[sock[t]]
         /\ \A c \in Conns : status[c] = "live" /\ fd[c] # 0 => fdTable[fd[c]] # fdTable[sock[t]]
<1>0. /\ JobInv /\ FdInv /\ SockInv
      /\ fdTable \in [Fds -> 0..MaxSock] /\ nextSock \in 0..MaxSock
      /\ sock \in [Threads -> Fds \cup {0}] /\ fd \in [Conns -> Fds \cup {0}]
      /\ MaxSock \in Nat
  BY ConnectAssumption DEF IInv, PoolTypeOK, PortTypeOK
<1>1. sock[t] \in Fds /\ sock[t] # 0
  BY <1>0 DEF JobInv
<1>2. fdTable[sock[t]] # 0 /\ fdTable[sock[t]] <= nextSock
  BY <1>0, <1>1 DEF FdInv, SockInv
<1>3. fdTable[sock[t]] \in 1..nextSock
  BY <1>0, <1>1, <1>2
<1>4. ASSUME NEW u \in Threads, u # t, fg[u] = "wait" PROVE fdTable[sock[u]] # fdTable[sock[t]]
  <2>1. sock[u] \in Fds /\ sock[u] # sock[t]
    BY <1>0, <1>1, <1>4 DEF JobInv, FdInv
  <2> QED
    BY <1>0, <1>1, <1>2, <2>1 DEF SockInv
<1>5. ASSUME NEW c \in Conns, status[c] = "live", fd[c] # 0 PROVE fdTable[fd[c]] # fdTable[sock[t]]
  <2>1. fd[c] \in Fds /\ fd[c] # sock[t]
    BY <1>0, <1>5 DEF FdInv
  <2> QED
    BY <1>0, <1>1, <1>2, <2>1 DEF SockInv
<1> QED
  BY <1>1, <1>3, <1>4, <1>5

LEMMA JobCallsInv == ASSUME IInv, NEW t \in Threads, JobCalls(t), UNCHANGED poolVars PROVE IInv'
<1> DEFINE s == fdTable[bgFd[t]]
<1>0. /\ JobInv /\ SockInv /\ PeerInv /\ PortTypeOK
      /\ fdTable \in [Fds -> 0..MaxSock] /\ nextSock \in 0..MaxSock
      /\ trying \in [Sockets -> Hosts \cup {NoHost}] /\ far \in [Threads -> Hosts \cup {NoHost}]
      /\ bg \in [Threads -> {"none", "start", "run", "connect", "end"}]
      /\ bgFd \in [Threads -> Fds \cup {0}] /\ bgSock \in [Threads -> 0..MaxSock]
      /\ res \in [Threads -> {"unset", "ok", "error"}]
      /\ MaxSock \in Nat
  BY ConnectAssumption DEF IInv, PoolTypeOK, PortTypeOK
<1>1. /\ bg[t] = "run" /\ UNCHANGED <<fdTable, peer, nextSock, fg, sock, far, state, bgFd>>
  BY DEF JobCalls, callVars
<1>2. bgFd[t] \in Fds /\ s \in 0..nextSock /\ fg[t] # "out"
  BY <1>0, <1>1 DEF JobInv, SockInv
<1>3. UNCHANGED <<status, host, fd, failed>>
  BY DEF poolVars, connVars
<1>4. CASE /\ s # 0 /\ peer[s] = NoHost /\ bg' = [bg EXCEPT ![t] = "connect"]
           /\ bgSock' = [bgSock EXCEPT ![t] = s]
           /\ trying' = [trying EXCEPT ![s] = IF trying[s] = NoHost THEN far[t] ELSE trying[s]]
           /\ stray' = (stray \/ fg[t] # "wait")
           /\ UNCHANGED res
  <2>s. s = fdTable[bgFd[t]]
    OBVIOUS
  <2> HIDE DEF s
  <2>0. s \in 1..nextSock /\ s \in Sockets
    BY <1>0, <1>2, <1>4 DEF Sockets
  <2>1. PortTypeOK'
    <3>1. stray' \in BOOLEAN
      BY <1>4
    <3>2. trying' \in [Sockets -> Hosts \cup {NoHost}]
      BY <1>0, <1>4
    <3>3. bg' \in [Threads -> {"none", "start", "run", "connect", "end"}]
      BY <1>0, <1>4
    <3>4. bgSock' \in [Threads -> 0..MaxSock]
      BY <1>0, <1>2, <1>4
    <3> QED
      BY <1>0, <1>1, <1>4, <3>1, <3>2, <3>3, <3>4 DEF PortTypeOK
  <2>2. JobInv'
    BY <1>0, <1>1, <1>4 DEF JobInv
  <2>3. SockInv'
    <3>1. \A u \in Threads : bg'[u] = "connect" => bgSock'[u] \in 1..nextSock
      BY <1>0, <1>4, <2>0 DEF SockInv
    <3>2. \A k \in Sockets : k > nextSock => trying'[k] = NoHost
      <4>1. \A k \in Sockets : k > nextSock => k # s
        BY <1>0, <2>0 DEF Sockets
      <4> QED
        BY <1>0, <1>4, <4>1 DEF SockInv
    <3> QED
      BY <1>0, <1>1, <3>1, <3>2 DEF SockInv
  <2>4. PeerInv'
    <3> SUFFICES ASSUME ~stray' PROVE (\A u \in Threads : JobSocket(u)') /\ RightPeer'
      BY DEF PeerInv
    <3>1. ~stray /\ fg[t] = "wait"
      BY <1>4
    <3>2. (\A u \in Threads : JobSocket(u)) /\ RightPeer
      BY <1>0, <3>1 DEF PeerInv
    <3>3. s = fdTable[sock[t]]
      BY <1>0, <2>s, <3>1 DEF JobInv
    <3>4. trying[s] = NoHost /\ trying'[s] = far[t]
      <4>1. trying[s] = NoHost
        BY <1>1, <3>1, <3>2, <3>3 DEF JobSocket
      <4> QED
        BY <1>0, <1>4, <2>0, <4>1
    <3>5. JobSocket(t)'
      <4>1. bg'[t] = "connect" /\ bgSock'[t] = s
        BY <1>0, <1>4
      <4>2. res[t] = "ok" => peer[s] = far[t]
        BY <3>1, <3>2, <3>3 DEF JobSocket
      <4> QED
        BY <1>1, <1>4, <3>1, <3>3, <3>4, <4>1, <4>2 DEF JobSocket
    <3>6. ASSUME NEW u \in Threads, u # t PROVE JobSocket(u)'
      <4>1. JobSocket(u) /\ bg'[u] = bg[u] /\ bgSock'[u] = bgSock[u]
        BY <1>0, <1>4, <3>2, <3>6
      <4>2. fg[u] = "wait" => fdTable[sock[u]] # s /\ fdTable[sock[u]] \in Sockets
        BY <1>0, <3>1, <3>3, <3>6, OwnSocket DEF Sockets
      <4>3. fg[u] = "wait" => trying'[fdTable[sock[u]]] = trying[fdTable[sock[u]]]
        BY <1>0, <1>4, <4>2
      <4> QED
        BY <1>1, <1>4, <4>1, <4>3 DEF JobSocket
    <3>7. RightPeer'
      BY <1>1, <1>3, <3>1, <3>2 DEF RightPeer
    <3> QED
      BY <3>5, <3>6, <3>7
  <2>5. PoolTypeOK' /\ PcInv' /\ OwnInv' /\ FdInv'
    BY <1>1, <2>1, JobFrames
  <2> QED
    BY <2>2, <2>3, <2>4, <2>5 DEF IInv
<1>5. CASE /\ bg' = [bg EXCEPT ![t] = "end"] /\ res' = [res EXCEPT ![t] = "error"]
           /\ UNCHANGED <<trying, bgSock, stray>>
  <2> HIDE DEF s
  <2>1. PortTypeOK'
    <3>1. /\ bg' \in [Threads -> {"none", "start", "run", "connect", "end"}]
          /\ res' \in [Threads -> {"unset", "ok", "error"}]
      BY <1>0, <1>5
    <3> QED
      BY <1>0, <1>1, <1>5, <3>1 DEF PortTypeOK
  <2>2. JobInv'
    BY <1>0, <1>1, <1>5 DEF JobInv
  <2>3. SockInv'
    <3>1. \A u \in Threads : bg'[u] = "connect" => bg[u] = "connect"
      BY <1>0, <1>5
    <3> QED
      BY <1>0, <1>1, <1>5, <3>1 DEF SockInv
  <2>4. PeerInv'
    <3>1. ASSUME NEW u \in Threads, JobSocket(u) PROVE JobSocket(u)'
      <4>1. /\ bg'[u] = "connect" => bg[u] = "connect"
            /\ bg'[u] \in {"start", "run"} => bg[u] \in {"start", "run"}
            /\ res'[u] = "ok" => res[u] = "ok"
        BY <1>0, <1>5
      <4> QED
        BY <1>1, <1>5, <3>1, <4>1 DEF JobSocket
    <3> QED
      BY <1>0, <1>1, <1>3, <1>5, <3>1 DEF PeerInv, RightPeer
  <2>5. PoolTypeOK' /\ PcInv' /\ OwnInv' /\ FdInv'
    BY <1>1, <2>1, JobFrames
  <2> QED
    BY <2>2, <2>3, <2>4, <2>5 DEF IInv
<1> QED
  BY <1>4, <1>5 DEF JobCalls

LEMMA JobReturnsInv == ASSUME IInv, NEW t \in Threads, JobReturns(t), UNCHANGED poolVars PROVE IInv'
<1> DEFINE s == bgSock[t]
<1>0. /\ JobInv /\ SockInv /\ PeerInv /\ PortTypeOK
      /\ nextSock \in 0..MaxSock
      /\ peer \in [Sockets -> Hosts \cup {NoHost}] /\ trying \in [Sockets -> Hosts \cup {NoHost}]
      /\ bg \in [Threads -> {"none", "start", "run", "connect", "end"}]
      /\ bgSock \in [Threads -> 0..MaxSock] /\ res \in [Threads -> {"unset", "ok", "error"}]
      /\ MaxSock \in Nat
  BY ConnectAssumption DEF IInv, PoolTypeOK, PortTypeOK
<1>1. /\ bg[t] = "connect" /\ UNCHANGED <<fdTable, nextSock, fg, sock, far, state, bgFd, stray>>
      /\ bg' = [bg EXCEPT ![t] = "end"] /\ bgSock' = [bgSock EXCEPT ![t] = 0]
      /\ trying' = [trying EXCEPT ![s] = NoHost]
      /\ res' = [res EXCEPT ![t] = IF peer'[s] = NoHost THEN "error" ELSE "ok"]
      /\ \/ trying[s] # NoHost /\ peer' = [peer EXCEPT ![s] = trying[s]]
         \/ peer' = peer
  BY DEF JobReturns, callVars
<1>s. s = bgSock[t]
  OBVIOUS
<1>2. s \in 1..nextSock /\ s \in Sockets
  BY <1>0, <1>1 DEF SockInv, Sockets
<1> HIDE DEF s
<1>3. UNCHANGED <<status, host, fd, failed>>
  BY DEF poolVars, connVars
<1>4. /\ trying'[s] = NoHost /\ \A k \in Sockets : k # s => trying'[k] = trying[k] /\ peer'[k] = peer[k]
      /\ peer'[s] \in {peer[s], trying[s]} /\ (peer'[s] = peer[s] \/ trying[s] # NoHost)
  BY <1>0, <1>1, <1>2
<1>5. PortTypeOK'
  <2>1. peer' \in [Sockets -> Hosts \cup {NoHost}] /\ trying' \in [Sockets -> Hosts \cup {NoHost}]
    BY <1>0, <1>1, <1>2
  <2>2. /\ bg' \in [Threads -> {"none", "start", "run", "connect", "end"}]
        /\ bgSock' \in [Threads -> 0..MaxSock]
    BY <1>0, <1>1
  <2>3. res' \in [Threads -> {"unset", "ok", "error"}]
    BY <1>0, <1>1
  <2> QED
    BY <1>0, <1>1, <2>1, <2>2, <2>3 DEF PortTypeOK
<1>6. JobInv'
  BY <1>0, <1>1 DEF JobInv
<1>7. SockInv'
  <2>1. \A u \in Threads : bg'[u] = "connect" => bg[u] = "connect" /\ bgSock'[u] = bgSock[u]
    BY <1>0, <1>1
  <2>2. \A k \in Sockets : k > nextSock => k # s
    BY <1>0, <1>2 DEF Sockets
  <2>3. \A k \in Sockets : k > nextSock => peer'[k] = NoHost /\ trying'[k] = NoHost
    BY <1>0, <1>4, <2>2 DEF SockInv
  <2> QED
    BY <1>0, <1>1, <2>1, <2>3 DEF SockInv
<1>8. PeerInv'
  <2> SUFFICES ASSUME ~stray PROVE (\A u \in Threads : JobSocket(u)') /\ RightPeer'
    BY <1>1 DEF PeerInv
  <2>1. (\A u \in Threads : JobSocket(u)) /\ RightPeer
    BY <1>0 DEF PeerInv
  <2>2. fg[t] = "wait" => s = fdTable[sock[t]] /\ peer[s] = NoHost /\ trying[s] \in {far[t], NoHost}
    BY <1>1, <1>s, <2>1 DEF JobSocket
  <2>3. fg[t] # "wait" => \A f \in Fds : fdTable[f] # s
    <3>1. fg[t] # "wait" => fg[t] = "late"
      BY <1>0, <1>1 DEF JobInv, PortTypeOK
    <3> QED
      BY <1>1, <1>s, <2>1, <3>1 DEF JobSocket
  <2>4. ASSUME NEW u \in Threads, u # t, fg[u] = "wait" PROVE fdTable[sock[u]] # s
    <3>1. sock[u] \in Fds
      BY <2>4, OwnSocket
    <3>2. CASE fg[t] = "wait"
      BY <2>2, <2>4, <3>2, OwnSocket
    <3>3. CASE fg[t] # "wait"
      BY <2>3, <3>1, <3>3
    <3> QED
      BY <3>2, <3>3
  <2>5. ASSUME NEW c \in Conns, status[c] = "live", fd[c] # 0 PROVE fdTable[fd[c]] # s
    <3>1. fd[c] \in Fds
      BY <2>5 DEF IInv, PoolTypeOK
    <3>2. CASE fg[t] = "wait"
      BY <2>2, <2>5, <3>2, OwnSocket
    <3>3. CASE fg[t] # "wait"
      BY <2>3, <3>1, <3>3
    <3> QED
      BY <3>2, <3>3
  <2>6. ASSUME NEW u \in Threads, u # t PROVE JobSocket(u)'
    <3>1. JobSocket(u) /\ bg'[u] = bg[u] /\ bgSock'[u] = bgSock[u] /\ res'[u] = res[u]
      BY <1>0, <1>1, <2>1, <2>6
    <3>2. fg[u] = "wait" => fdTable[sock[u]] \in Sockets
      BY <1>0, OwnSocket DEF Sockets
    <3>3. fg[u] = "wait" => /\ peer'[fdTable[sock[u]]] = peer[fdTable[sock[u]]]
                            /\ trying'[fdTable[sock[u]]] = trying[fdTable[sock[u]]]
      BY <1>4, <2>4, <2>6, <3>2
    <3> QED
      BY <1>1, <3>1, <3>3 DEF JobSocket
  <2>7. JobSocket(t)'
    <3>1. bg'[t] = "end" /\ res'[t] = IF peer'[s] = NoHost THEN "error" ELSE "ok"
      BY <1>0, <1>1
    <3>2. fg[t] = "wait" /\ res'[t] = "ok" => peer'[s] = far[t] /\ s = fdTable[sock[t]]
      BY <1>4, <2>2, <3>1
    <3> QED
      BY <1>1, <3>1, <3>2 DEF JobSocket
  <2>8. RightPeer'
    <3>1. ASSUME NEW c \in Conns, status[c] = "live", ~failed[c], fd[c] # 0
          PROVE  peer'[fdTable[fd[c]]] = host[c]
      <4>1. peer[fdTable[fd[c]]] = host[c] /\ fdTable[fd[c]] # s
        BY <2>1, <2>5, <3>1 DEF RightPeer
      <4>2. fdTable[fd[c]] \in Sockets
        <5>1. fd[c] \in Fds /\ FdInv /\ fdTable \in [Fds -> 0..MaxSock]
          BY <3>1 DEF IInv, PoolTypeOK, PortTypeOK
        <5>2. fdTable[fd[c]] # 0
          BY <3>1, <5>1 DEF FdInv
        <5> QED
          BY <1>0, <5>1, <5>2 DEF Sockets
      <4> QED
        BY <1>4, <4>1, <4>2
    <3> QED
      BY <1>1, <1>3, <3>1 DEF RightPeer
  <2> QED
    BY <2>6, <2>7, <2>8
<1>9. PoolTypeOK' /\ PcInv' /\ OwnInv' /\ FdInv'
  BY <1>1, <1>5, JobFrames
<1> QED
  BY <1>6, <1>7, <1>8, <1>9 DEF IInv

-----------------------------------------------------------------------------
(* The invariant is inductive.                                             *)

LEMMA NextInv == IInv /\ [Next]_vars => IInv'
<1> SUFFICES ASSUME IInv, [Next]_vars PROVE IInv'
  OBVIOUS
<1>1. ASSUME NEW t \in Threads, Scoped(t) PROVE IInv'
  <2>1. CASE \E h \in Hosts : Get(t, h)
    BY <2>1, GetInv
  <2>2. CASE NoSocket(t) \/ FinishCreate(t)
    BY <2>2, MoveInv
  <2>3. CASE Connect(t) \/ Reconnect(t)
    BY <2>3, ConnectInv, ReconnectInv
  <2>4. CASE UseFails(t) \/ Kill(t) \/ Done(t)
    BY <2>4, UseFailsInv, KillInv, DoneInv
  <2> QED
    BY <1>1, <2>1, <2>2, <2>3, <2>4 DEF Scoped
<1>2. ASSUME NEW t \in Threads, Waits(t) PROVE IInv'
  BY <1>2, ConnectedInv, GiveUpInv, NotConnectedInv DEF Waits
<1>3. ASSUME NEW t \in Threads, Flush(t) PROVE IInv'
  <2>1. CASE FlushBegins(t) \/ FlushPinged(t) \/ FlushEnds(t)
    BY <2>1, MoveInv
  <2>2. CASE FlushThrows(t)
    BY <2>2, FlushThrowsInv
  <2>3. CASE \E h \in Hosts : FlushPops(t, h) \/ FlushHost(t, h)
    BY <2>3, FlushPopsInv, FlushHostInv
  <2> QED
    BY <1>3, <2>1, <2>2, <2>3 DEF Flush
<1>4. ASSUME NEW t \in Threads, JobStep(t) PROVE IInv'
  BY <1>4, JobMovesInv, JobCallsInv, JobReturnsInv DEF JobStep, Job
<1>5. CASE Tick \/ UNCHANGED vars
  BY <1>5, QuietInv
<1> QED
  BY <1>1, <1>2, <1>3, <1>4, <1>5 DEF Next

LEMMA Invariance == Spec => []IInv
BY InitInv, NextInv, PTL DEF Spec

-----------------------------------------------------------------------------
(* Owners are counted as sets with one element, or none.                   *)

LEMMA CountOne ==
  ASSUME NEW S, NEW x \in S, \A y \in S : y = x PROVE Cardinality(S) = 1
<1>1. S = {x}
  OBVIOUS
<1> QED
  BY <1>1, FS_Singleton

LEMMA PlacesOf ==
  ASSUME NEW c
  PROVE  \A x : x \in Places(c) <=>
            \/ \E h \in Hosts : \E i \in 1..Len(pool[h]) : pool[h][i] = c /\ x = <<"pool", h, i>>
            \/ \E t \in Threads : conn[t] = c /\ x = <<"thread", t, 0>>
            \/ \E t \in Threads : \E i \in 1..Len(all[t]) : all[t][i] = c /\ x = <<"flush", t, i>>
<1> DEFINE inPool(h)  == {<<"pool", h, i>> : i \in {j \in 1..Len(pool[h]) : pool[h][j] = c}}
           inHands    == {<<"thread", t, 0>> : t \in {u \in Threads : conn[u] = c}}
           inFlush(t) == {<<"flush", t, i>> : i \in {j \in 1..Len(all[t]) : all[t][j] = c}}
<1> SUFFICES ASSUME NEW x
             PROVE  x \in Places(c) <=>
               \/ \E h \in Hosts : \E i \in 1..Len(pool[h]) : pool[h][i] = c /\ x = <<"pool", h, i>>
               \/ \E t \in Threads : conn[t] = c /\ x = <<"thread", t, 0>>
               \/ \E t \in Threads : \E i \in 1..Len(all[t]) : all[t][i] = c /\ x = <<"flush", t, i>>
  OBVIOUS
<1>1. /\ \A h : x \in inPool(h) <=> \E i \in 1..Len(pool[h]) : pool[h][i] = c /\ x = <<"pool", h, i>>
      /\ x \in inHands <=> \E t \in Threads : conn[t] = c /\ x = <<"thread", t, 0>>
      /\ \A t : x \in inFlush(t) <=> \E i \in 1..Len(all[t]) : all[t][i] = c /\ x = <<"flush", t, i>>
  BY Zenon
<1>2. Places(c) = (UNION {inPool(h) : h \in Hosts}) \cup inHands \cup (UNION {inFlush(t) : t \in Threads})
  BY DEF Places
<1> HIDE DEF inPool, inHands, inFlush
<1>3. x \in Places(c) <=> \/ \E h \in Hosts : x \in inPool(h)
                          \/ x \in inHands
                          \/ \E t \in Threads : x \in inFlush(t)
  <2>1. x \in UNION {inPool(h) : h \in Hosts} <=> \E h \in Hosts : x \in inPool(h)
    OBVIOUS
  <2>2. x \in UNION {inFlush(t) : t \in Threads} <=> \E t \in Threads : x \in inFlush(t)
    OBVIOUS
  <2> QED
    BY <1>2, <2>1, <2>2
<1> QED
  BY <1>1, <1>3, Zenon

LEMMA OwnerCount == IInv => OneOwner
<1> SUFFICES ASSUME IInv, NEW c \in Conns
             PROVE  Cardinality(Places(c)) = IF status[c] = "live" /\ c \notin leaked THEN 1 ELSE 0
  BY DEF OneOwner
<1>0. /\ PoolTypeOK /\ PcInv /\ OwnInv
      /\ OneHas(pooled, flushing, want, conn, owned, sound, host)
      /\ \A h \in Hosts : pooled[h] = Elems(pool[h]) /\ Distinct(pool[h])
      /\ \A t \in Threads : flushing[t] = Elems(all[t]) /\ Distinct(all[t])
      /\ c # 0
  BY SetTypes DEF IInv, OwnInv
<1>1. /\ \A h \in Hosts : \A i \in 1..Len(pool[h]) : pool[h][i] \in pooled[h]
      /\ \A t \in Threads : \A i \in 1..Len(all[t]) : all[t][i] \in flushing[t]
  BY <1>0 DEF Elems
<1>2. /\ \A h \in Hosts : c \in pooled[h] => \E i \in 1..Len(pool[h]) : pool[h][i] = c
      /\ \A t \in Threads : c \in flushing[t] => \E i \in 1..Len(all[t]) : all[t][i] = c
  BY <1>0 DEF Elems
<1>3. \A t, u \in Threads : c \in flushing[t] /\ c \in flushing[u] => t = u
  <2>1. \A t \in Threads : c \in flushing[t] => all[t] # <<>>
    BY <1>0, EmptyElems
  <2> QED
    BY <1>0, <2>1 DEF PcInv, PcOf
<1>4. CASE c \in owned
  <2>1. CASE \E h \in Hosts : c \in pooled[h]
    <3>1. PICK h \in Hosts : c \in pooled[h]
      BY <2>1
    <3>2. PICK i \in 1..Len(pool[h]) : pool[h][i] = c
      BY <1>2, <3>1
    <3>3. <<"pool", h, i>> \in Places(c)
      BY <3>2, PlacesOf
    <3>4. \A k \in Hosts : c \in pooled[k] => k = h
      BY <1>0, <3>1 DEF OneHas
    <3>5. ASSUME NEW t \in Threads PROVE conn[t] # c /\ c \notin flushing[t]
      <4>1. \A d \in pooled[h] : d \notin flushing[t] /\ d # conn[t]
        BY <1>0 DEF OneHas
      <4> QED
        BY <3>1, <4>1
    <3>6. \A j \in 1..Len(pool[h]) : pool[h][j] = c => j = i
      BY <1>0, <3>2 DEF Distinct
    <3>7. ASSUME NEW x \in Places(c) PROVE x = <<"pool", h, i>>
      <4>1. CASE \E k \in Hosts : \E j \in 1..Len(pool[k]) : pool[k][j] = c /\ x = <<"pool", k, j>>
        BY <1>1, <3>4, <3>6, <4>1
      <4>2. ~ \E t \in Threads : conn[t] = c /\ x = <<"thread", t, 0>>
        BY <3>5
      <4>3. ~ \E t \in Threads : \E j \in 1..Len(all[t]) : all[t][j] = c /\ x = <<"flush", t, j>>
        BY <1>1, <3>5
      <4> QED
        BY <4>1, <4>2, <4>3, PlacesOf
    <3>8. Cardinality(Places(c)) = 1
      BY <3>3, <3>7, CountOne
    <3> QED
      BY <1>4, <3>8 DEF owned
  <2>2. CASE \E t \in Threads : conn[t] = c
    <3>1. PICK t \in Threads : conn[t] = c
      BY <2>2
    <3>2. <<"thread", t, 0>> \in Places(c)
      BY <3>1, PlacesOf
    <3>3. \A u \in Threads : conn[u] = c => u = t
      BY <1>0, <3>1 DEF OneHas
    <3>4. (\A h \in Hosts : c \notin pooled[h]) /\ (\A u \in Threads : c \notin flushing[u])
      BY <1>0, <3>1 DEF OneHas
    <3>5. ASSUME NEW x \in Places(c) PROVE x = <<"thread", t, 0>>
      <4>1. ~ \E k \in Hosts : \E j \in 1..Len(pool[k]) : pool[k][j] = c /\ x = <<"pool", k, j>>
        BY <1>1, <3>4
      <4>2. ~ \E u \in Threads : \E j \in 1..Len(all[u]) : all[u][j] = c /\ x = <<"flush", u, j>>
        BY <1>1, <3>4
      <4> QED
        BY <3>3, <4>1, <4>2, PlacesOf
    <3>6. Cardinality(Places(c)) = 1
      BY <3>2, <3>5, CountOne
    <3> QED
      BY <1>4, <3>6 DEF owned
  <2>3. CASE \E t \in Threads : c \in flushing[t]
    <3>1. PICK t \in Threads : c \in flushing[t]
      BY <2>3
    <3>2. PICK i \in 1..Len(all[t]) : all[t][i] = c
      BY <1>2, <3>1
    <3>3. <<"flush", t, i>> \in Places(c)
      BY <3>2, PlacesOf
    <3>4. \A u \in Threads : conn[u] # c
      BY <1>0, <3>1 DEF OneHas
    <3>5. \A h \in Hosts : c \notin pooled[h]
      BY <1>0, <3>1 DEF OneHas
    <3>6. \A j \in 1..Len(all[t]) : all[t][j] = c => j = i
      BY <1>0, <3>2 DEF Distinct
    <3>7. ASSUME NEW x \in Places(c) PROVE x = <<"flush", t, i>>
      <4>1. ~ \E k \in Hosts : \E j \in 1..Len(pool[k]) : pool[k][j] = c /\ x = <<"pool", k, j>>
        BY <1>1, <3>5
      <4>2. ~ \E u \in Threads : conn[u] = c /\ x = <<"thread", u, 0>>
        BY <3>4
      <4>3. CASE \E u \in Threads : \E j \in 1..Len(all[u]) : all[u][j] = c /\ x = <<"flush", u, j>>
        <5>1. PICK u \in Threads : \E j \in 1..Len(all[u]) : all[u][j] = c /\ x = <<"flush", u, j>>
          BY <4>3
        <5>2. u = t
          BY <1>1, <1>3, <3>1, <5>1
        <5> QED
          BY <3>6, <5>1, <5>2
      <4> QED
        BY <4>1, <4>2, <4>3, PlacesOf
    <3>8. Cardinality(Places(c)) = 1
      BY <3>3, <3>7, CountOne
    <3> QED
      BY <1>4, <3>8 DEF owned
  <2> QED
    BY <1>0, <1>4, <2>1, <2>2, <2>3 DEF OneHas
<1>5. CASE c \notin owned
  <2>1. /\ \A h \in Hosts : c \notin pooled[h]
        /\ \A t \in Threads : c \notin flushing[t] /\ conn[t] # c
    BY <1>0, <1>5 DEF OneHas
  <2>2. \A x : x \notin Places(c)
    BY <1>1, <2>1, PlacesOf
  <2>3. Places(c) = {}
    BY <2>2
  <2>4. Cardinality(Places(c)) = 0
    BY <2>3, FS_EmptySet
  <2> QED
    BY <1>5, <2>4 DEF owned
<1> QED
  BY <1>4, <1>5

LEMMA SocketCount == IInv => SocketOwned
<1> DEFINE By(f) == {<<"conn", c>> : c \in {d \in Conns : status[d] = "live" /\ fd[d] = f}}
                    \cup {<<"thread", t>> : t \in {u \in Threads : sock[u] = f}}
<1> SUFFICES ASSUME IInv, NEW f \in Fds, fdTable[f] # 0 PROVE Cardinality(By(f)) = 1
  BY DEF SocketOwned
<1>0. FdInv /\ f # 0
  BY ConnectAssumption DEF IInv
<1>1. \A x : x \in By(f) <=> \/ \E c \in Conns : status[c] = "live" /\ fd[c] = f /\ x = <<"conn", c>>
                             \/ \E t \in Threads : sock[t] = f /\ x = <<"thread", t>>
  OBVIOUS
<1> HIDE DEF By
<1>2. CASE \E c \in Conns : status[c] = "live" /\ fd[c] = f
  <2>1. PICK c \in Conns : status[c] = "live" /\ fd[c] = f
    BY <1>2
  <2>2. /\ \A d \in Conns : status[d] = "live" /\ fd[d] = f => d = c
        /\ \A t \in Threads : sock[t] # f
    BY <1>0, <2>1 DEF FdInv
  <2>3. <<"conn", c>> \in By(f) /\ \A x \in By(f) : x = <<"conn", c>>
    BY <1>1, <2>1, <2>2
  <2> QED
    BY <2>3, CountOne
<1>3. CASE \E t \in Threads : sock[t] = f
  <2>1. PICK t \in Threads : sock[t] = f
    BY <1>3
  <2>2. /\ \A d \in Conns : ~(status[d] = "live" /\ fd[d] = f)
        /\ \A u \in Threads : sock[u] = f => u = t
    BY <1>0, <2>1 DEF FdInv
  <2>3. <<"thread", t>> \in By(f) /\ \A x \in By(f) : x = <<"thread", t>>
    BY <1>1, <2>1, <2>2
  <2> QED
    BY <2>3, CountOne
<1> QED
  BY <1>0, <1>2, <1>3 DEF FdInv

-----------------------------------------------------------------------------

(* Whatever the threads, the flush and the jobs do, a connection that is   *)
(* alive has one owner (connpool.cpp:39-71, connpool.h:213-235), but for   *)
(* those a flush dropped.                                                  *)
THEOREM OneOwnerEach == Spec => []PoolInv
<1>1. IInv => PoolInv
  BY OwnerCount DEF IInv, PoolInv
<1> QED
  BY <1>1, Invariance, PTL

(* get never hands out a failed connection, nor one to another host        *)
(* (connpool.h:134-141).                                                   *)
THEOREM PoolHoldsUsable == Spec => []PooledUsable
<1>1. ASSUME IInv PROVE PooledUsable
  <2> SUFFICES ASSUME NEW h \in Hosts, NEW c \in Range(pool[h]) PROVE host[c] = h /\ ~failed[c]
    BY DEF PooledUsable
  <2>1. PoolTypeOK /\ OwnInv /\ pool[h] \in Seq(Conns)
    BY <1>1 DEF IInv, PoolTypeOK
  <2>2. c \in Elems(pool[h])
    BY <2>1, LenProperties DEF Range, Elems
  <2>3. c \in pooled[h]
    BY <2>1, <2>2, SetTypes
  <2>4. c \in sound /\ host[c] = h
    BY <2>1, <2>3 DEF OwnInv, OneHas
  <2> QED
    BY <2>4 DEF sound
<1> QED
  BY <1>1, Invariance, PTL

(* No descriptor is closed under its owner or forgotten, and unless a late *)
(* job strays a connection that is not failed talks to its own host        *)
(* (message.cpp:361, :384-399).                                            *)
THEOREM DescriptorsKept == Spec => []DescriptorInv
<1>1. IInv => DescriptorInv
  BY SocketCount DEF IInv, PeerInv, RightPeer, DescriptorInv
<1> QED
  BY <1>1, Invariance, PTL

(* The ConnectBG object is not left while its thread runs                  *)
(* (message.cpp:397).                                                      *)
THEOREM JobInScope == Spec => []InScope
<1>1. IInv => InScope
  BY DEF IInv, JobInv, InScope
<1> QED
  BY <1>1, Invariance, PTL

=============================================================================
