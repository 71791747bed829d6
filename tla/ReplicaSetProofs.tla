-------------------------- MODULE ReplicaSetProofs --------------------------
(***************************************************************************)
(* The node list that the watcher and the clients share, for any number of *)
(* clients, members and seeds: every index a thread keeps is within the    *)
(* list, and a host that was found twice at the same time is listed once.  *)
(***************************************************************************)
EXTENDS ReplicaSet, SequenceTheorems, TLAPS

-----------------------------------------------------------------------------
(* The inductive invariant.                                                *)

Places ==
    {"idle", "seed", "first", "index", "current", "scan", "hosts", "set", "get", "assert",
     "read", "notify", "connect", "lost", "slost", "sget"}

(* The types, where SetTypeOK is silent or says less than is known: the    *)
(* places at which a thread has an index, and those that are the           *)
(* constructor's and the watcher's only.                                   *)
MoreTypes ==
    /\ Len(ok) = Len(nodes) /\ ok \in Seq(BOOLEAN)
    /\ todo \in Seq(Range(Seeds))
    /\ changes \in Nat
    /\ back \in [Threads -> {"idle", "first", "current", "scan"}]
    /\ idx \in [Threads -> Nat] /\ retry \in [Threads -> {0, 1}]
    /\ adding \in [Threads -> SUBSET Members]

PlaceInv(t) ==
    /\ pc[t] \in {"first", "current", "scan", "hosts", "set"} => idx[t] \in 1..Len(nodes)
    /\ pc[t] \in {"slost", "sget"} => nodes # <<>>
    /\ t # Watcher => pc[t] \notin {"seed", "first", "index", "current"} /\ back[t] # "first"
    /\ pc[t] = "hosts" <=> checkLock = t
    /\ pc[t] = "hosts" <=> back[t] # "idle"

(* What the holder of _checkConnectionLock has still to add is not listed. *)
AddInv(t) ==
    /\ pc[t] # "hosts" => adding[t] = {}
    /\ adding[t] \cap Range(nodes) = {}

(* Nobody has the monitor while it is being made.                          *)
BuiltInv == ~Built => \A c \in Clients : pc[c] = "idle"

IInv ==
    /\ SetTypeOK /\ MoreTypes /\ ListedOnce /\ BuiltInv
    /\ \A t \in Threads : PlaceInv(t) /\ AddInv(t)

-----------------------------------------------------------------------------
(* A step of thread t, seen from the others.                               *)

Local(t, l, b, i, r, a, d) ==
    /\ pc' = [pc EXCEPT ![t] = l] /\ back' = [back EXCEPT ![t] = b]
    /\ idx' = [idx EXCEPT ![t] = i] /\ retry' = [retry EXCEPT ![t] = r]
    /\ answer' = [answer EXCEPT ![t] = a] /\ adding' = [adding EXCEPT ![t] = d]

LEMMA Same ==
  ASSUME SetTypeOK, MoreTypes, NEW t \in Threads
  PROVE  /\ pc = [pc EXCEPT ![t] = pc[t]] /\ back = [back EXCEPT ![t] = back[t]]
         /\ idx = [idx EXCEPT ![t] = idx[t]] /\ retry = [retry EXCEPT ![t] = retry[t]]
         /\ answer = [answer EXCEPT ![t] = answer[t]] /\ adding = [adding EXCEPT ![t] = adding[t]]
  BY DEF SetTypeOK, MoreTypes

LEMMA TypeFact ==
  ASSUME IInv, NEW t \in Threads
  PROVE  /\ SetTypeOK /\ MoreTypes /\ PlaceInv(t) /\ AddInv(t)
         /\ pc[t] \in Places /\ back[t] \in {"idle", "first", "current", "scan"}
         /\ idx[t] \in Nat /\ retry[t] \in {0, 1} /\ answer[t] \in BOOLEAN /\ adding[t] \in SUBSET Members
         /\ nodes \in Seq(Members) /\ Len(nodes) \in Nat /\ master \in 0..Len(nodes)
<1>1. SetTypeOK /\ MoreTypes /\ PlaceInv(t) /\ AddInv(t)
  BY DEF IInv
<1>2. pc[t] \in Places /\ answer[t] \in BOOLEAN /\ nodes \in Seq(Members) /\ master \in 0..Len(nodes)
  BY <1>1 DEF SetTypeOK, Places
<1>3. /\ back[t] \in {"idle", "first", "current", "scan"}
      /\ idx[t] \in Nat /\ retry[t] \in {0, 1} /\ adding[t] \in SUBSET Members
  BY <1>1 DEF MoreTypes
<1>4. Len(nodes) \in Nat
  BY <1>2
<1> QED
  BY <1>1, <1>2, <1>3, <1>4

LEMMA LocalFact ==
  ASSUME IInv, NEW t \in Threads, NEW l \in Places, NEW b \in {"idle", "first", "current", "scan"},
         NEW i \in Nat, NEW r \in {0, 1}, NEW a \in BOOLEAN, NEW d \in SUBSET Members,
         Local(t, l, b, i, r, a, d)
  PROVE  /\ pc' \in [Threads -> Places] /\ back' \in [Threads -> {"idle", "first", "current", "scan"}]
         /\ idx' \in [Threads -> Nat] /\ retry' \in [Threads -> {0, 1}]
         /\ answer' \in [Threads -> BOOLEAN] /\ adding' \in [Threads -> SUBSET Members]
         /\ pc'[t] = l /\ back'[t] = b /\ idx'[t] = i /\ adding'[t] = d
         /\ \A u \in Threads \ {t} : /\ pc'[u] = pc[u] /\ back'[u] = back[u]
                                     /\ idx'[u] = idx[u] /\ adding'[u] = adding[u]
<1>0. /\ pc \in [Threads -> Places] /\ back \in [Threads -> {"idle", "first", "current", "scan"}]
      /\ idx \in [Threads -> Nat] /\ retry \in [Threads -> {0, 1}]
      /\ answer \in [Threads -> BOOLEAN] /\ adding \in [Threads -> SUBSET Members]
  BY DEF IInv, SetTypeOK, MoreTypes, Places
<1>1. pc' \in [Threads -> Places] /\ pc'[t] = l /\ \A u \in Threads \ {t} : pc'[u] = pc[u]
  BY <1>0 DEF Local
<1>2. /\ back' \in [Threads -> {"idle", "first", "current", "scan"}] /\ back'[t] = b
      /\ \A u \in Threads \ {t} : back'[u] = back[u]
  BY <1>0 DEF Local
<1>3. idx' \in [Threads -> Nat] /\ idx'[t] = i /\ \A u \in Threads \ {t} : idx'[u] = idx[u]
  BY <1>0 DEF Local
<1>4. retry' \in [Threads -> {0, 1}] /\ answer' \in [Threads -> BOOLEAN]
  BY <1>0 DEF Local
<1>5. adding' \in [Threads -> SUBSET Members] /\ adding'[t] = d /\ \A u \in Threads \ {t} : adding'[u] = adding[u]
  BY <1>0 DEF Local
<1> QED
  BY <1>1, <1>2, <1>3, <1>4, <1>5

(* The list grows at its end, by hosts no other thread is about to add.    *)
MonStep(t) ==
    /\ nodes' \in Seq(Members) /\ Len(nodes) <= Len(nodes')
    /\ \A u \in Threads \ {t} : adding[u] \cap Range(nodes') = {}
    /\ ok' \in Seq(BOOLEAN) /\ Len(ok') = Len(nodes')
    /\ master' \in 0..Len(nodes')
    /\ todo' \in Seq(Range(Seeds))
    /\ ListedOnce'

LockStep(t) ==
    /\ checkLock' \in Threads \cup {NoHost}
    /\ \A u \in Threads \ {t} : checkLock' = u <=> checkLock = u

(* Where t may be after its step, and with what in its hands.              *)
Fits(t, l, b, i, d) ==
    /\ l \in {"first", "current", "scan", "hosts", "set"} => i \in 1..Len(nodes')
    /\ l \in {"slost", "sget"} => nodes' # <<>>
    /\ t # Watcher => l \notin {"seed", "first", "index", "current"} /\ b # "first"
    /\ l = "hosts" <=> checkLock' = t
    /\ l = "hosts" <=> b # "idle"
    /\ l # "hosts" => d = {}
    /\ d \cap Range(nodes') = {}
    /\ t = Watcher /\ Built => l \notin {"seed", "first"} /\ b # "first"
    /\ t # Watcher => Built \/ l = "idle"

LEMMA StepInv ==
  ASSUME IInv, NEW t \in Threads, NEW l \in Places, NEW b \in {"idle", "first", "current", "scan"},
         NEW i \in Nat, NEW r \in {0, 1}, NEW a \in BOOLEAN, NEW d \in SUBSET Members,
         Local(t, l, b, i, r, a, d), UNCHANGED setVars, MonStep(t), LockStep(t), Fits(t, l, b, i, d),
         mconn' \in [Clients -> Conn], sconn' \in [Clients -> Conn]
  PROVE  IInv'
<1>0. /\ SetTypeOK /\ MoreTypes /\ ListedOnce /\ BuiltInv /\ nodes \in Seq(Members)
      /\ Len(nodes) \in Nat /\ Len(nodes') \in Nat /\ Len(nodes) <= Len(nodes')
      /\ Watcher \in Threads /\ Watcher \notin Clients /\ Clients \subseteq Threads
  BY TypeFact, SetAssumption DEF IInv, MonStep, Threads
<1>1. /\ pc' \in [Threads -> Places] /\ back' \in [Threads -> {"idle", "first", "current", "scan"}]
      /\ idx' \in [Threads -> Nat] /\ retry' \in [Threads -> {0, 1}]
      /\ answer' \in [Threads -> BOOLEAN] /\ adding' \in [Threads -> SUBSET Members]
      /\ pc'[t] = l /\ back'[t] = b /\ idx'[t] = i /\ adding'[t] = d
      /\ \A u \in Threads \ {t} : /\ pc'[u] = pc[u] /\ back'[u] = back[u]
                                  /\ idx'[u] = idx[u] /\ adding'[u] = adding[u]
  BY LocalFact
<1>2. nodes # <<>> => nodes' # <<>>
  <2>1. nodes # <<>> => Len(nodes) > 0
    BY <1>0, EmptySeq
  <2>2. nodes' = <<>> => Len(nodes') = 0
    OBVIOUS
  <2> QED
    BY <1>0, <2>1, <2>2
<1>3. PlaceInv(t)' /\ AddInv(t)'
  BY <1>1 DEF PlaceInv, AddInv, Fits
<1>4. ASSUME NEW u \in Threads, u # t PROVE PlaceInv(u)' /\ AddInv(u)'
  <2>1. PlaceInv(u) /\ AddInv(u) /\ pc'[u] = pc[u] /\ back'[u] = back[u]
        /\ idx'[u] = idx[u] /\ adding'[u] = adding[u]
    BY <1>1, <1>4, TypeFact
  <2>2. checkLock' = u <=> checkLock = u
    BY <1>4 DEF LockStep
  <2>3. idx[u] \in 1..Len(nodes) => idx[u] \in 1..Len(nodes')
    BY <1>0
  <2>4. PlaceInv(u)'
    BY <1>2, <2>1, <2>2, <2>3 DEF PlaceInv
  <2>5. AddInv(u)'
    BY <1>4, <2>1 DEF AddInv, MonStep
  <2> QED
    BY <2>4, <2>5
<1>5. BuiltInv'
  <2>1. CASE t = Watcher
    <3>1. Built => Built'
      BY <1>1, <2>1 DEF Built, Fits
    <3>2. \A c \in Clients : pc'[c] = pc[c]
      BY <1>0, <1>1, <2>1
    <3> QED
      BY <1>0, <3>1, <3>2 DEF BuiltInv
  <2>2. CASE t # Watcher
    <3>1. Built => Built'
      BY <1>0, <1>1, <2>2 DEF Built
    <3>2. CASE Built
      BY <3>1, <3>2 DEF BuiltInv
    <3>3. CASE ~Built
      <4>1. \A c \in Clients : pc'[c] = "idle"
        BY <1>0, <1>1, <2>2, <3>3 DEF BuiltInv, Fits
      <4> QED
        BY <4>1 DEF BuiltInv
    <3> QED
      BY <3>2, <3>3
  <2> QED
    BY <2>1, <2>2
<1>6. MoreTypes'
  BY <1>0, <1>1 DEF MoreTypes, MonStep, setVars
<1>7. SetTypeOK'
  <2>1. ok' \in [1..Len(nodes') -> BOOLEAN]
    BY DEF MonStep
  <2>2. primary' \in up' \cup {NoHost} /\ up' \subseteq Members
    BY <1>0 DEF SetTypeOK, setVars
  <2>3. \A u \in Threads : pc'[u] \in {"hosts", "set", "current"} => idx'[u] \in 1..Len(nodes')
    BY <1>3, <1>4 DEF PlaceInv
  <2> QED
    BY <1>1, <2>1, <2>2, <2>3 DEF SetTypeOK, MonStep, LockStep, Places
<1> QED
  BY <1>3, <1>4, <1>5, <1>6, <1>7 DEF IInv, MonStep

-----------------------------------------------------------------------------
(* Steps that leave the list and the lock alone.                           *)

LEMMA MonKeep ==
  ASSUME IInv, NEW t \in Threads, nodes' = nodes, ok' \in Seq(BOOLEAN), Len(ok') = Len(nodes),
         master' \in 0..Len(nodes), todo' \in Seq(Range(Seeds))
  PROVE  MonStep(t)
<1>1. ListedOnce /\ nodes \in Seq(Members) /\ Len(nodes) \in Nat
  BY TypeFact DEF IInv
<1>2. \A u \in Threads : adding[u] \cap Range(nodes) = {}
  BY TypeFact DEF AddInv
<1>3. ListedOnce'
  BY <1>1 DEF ListedOnce
<1>4. Len(nodes) <= Len(nodes') /\ nodes' \in Seq(Members)
  BY <1>1
<1>5. \A u \in Threads \ {t} : adding[u] \cap Range(nodes') = {}
  BY <1>2
<1> QED
  BY <1>3, <1>4, <1>5 DEF MonStep

LEMMA MonSame ==
  ASSUME IInv, NEW t \in Threads, UNCHANGED monVars
  PROVE  MonStep(t)
<1>1. MoreTypes /\ master \in 0..Len(nodes)
  BY TypeFact
<1>2. nodes' = nodes /\ ok' = ok /\ master' = master /\ todo' = todo
  BY DEF monVars
<1>3. ok' \in Seq(BOOLEAN) /\ Len(ok') = Len(nodes) /\ todo' \in Seq(Range(Seeds))
  BY <1>1, <1>2 DEF MoreTypes
<1> QED
  BY <1>1, <1>2, <1>3, MonKeep

LEMMA LockSame ==
  ASSUME IInv, NEW t \in Threads, checkLock' = checkLock
  PROVE  LockStep(t)
<1>1. checkLock \in Threads \cup {NoHost}
  BY DEF IInv, SetTypeOK
<1> QED
  BY <1>1 DEF LockStep

(* A step between two places outside _checkConnection.                     *)
LEMMA PlainStep ==
  ASSUME IInv, NEW t \in Threads, NEW l \in Places \ {"hosts"}, NEW i \in Nat, NEW r \in {0, 1},
         pc[t] # "hosts",
         pc' = [pc EXCEPT ![t] = l], idx' = [idx EXCEPT ![t] = i], retry' = [retry EXCEPT ![t] = r],
         UNCHANGED <<back, answer, adding, checkLock, nodes, setVars>>, MonStep(t),
         l \in {"first", "current", "scan", "set"} => i \in 1..Len(nodes),
         l \in {"slost", "sget"} => nodes # <<>>,
         t # Watcher => l \notin {"seed", "first", "index", "current"} /\ Built,
         t = Watcher => l \notin {"seed", "first"},
         mconn' \in [Clients -> Conn], sconn' \in [Clients -> Conn]
  PROVE  IInv'
<1>1. /\ SetTypeOK /\ MoreTypes /\ PlaceInv(t) /\ AddInv(t)
      /\ back[t] \in {"idle", "first", "current", "scan"}
      /\ answer[t] \in BOOLEAN /\ adding[t] \in SUBSET Members
  BY TypeFact
<1>2. back[t] = "idle" /\ adding[t] = {} /\ checkLock # t
  BY <1>1 DEF PlaceInv, AddInv
<1>3. Local(t, l, "idle", i, r, answer[t], {})
  BY <1>1, <1>2, Same DEF Local
<1>4. Fits(t, l, "idle", i, {})
  BY <1>2 DEF Fits
<1>5. UNCHANGED setVars /\ LockStep(t)
  BY LockSame
<1>6. l \in Places /\ "idle" \in {"idle", "first", "current", "scan"} /\ {} \in SUBSET Members
  OBVIOUS
<1> QED
  BY <1>1, <1>3, <1>4, <1>5, <1>6, StepInv

(* The same with i and retry as they were.                                 *)
LEMMA MoveStep ==
  ASSUME IInv, NEW t \in Threads, NEW l \in Places \ {"hosts"}, pc[t] # "hosts",
         pc' = [pc EXCEPT ![t] = l],
         UNCHANGED <<back, idx, retry, answer, adding, checkLock, nodes, setVars>>, MonStep(t),
         l \notin {"first", "current", "scan", "set"},
         l \in {"slost", "sget"} => nodes # <<>>,
         t # Watcher => l \notin {"seed", "index"} /\ Built,
         t = Watcher => l # "seed",
         mconn' \in [Clients -> Conn], sconn' \in [Clients -> Conn]
  PROVE  IInv'
<1>1. SetTypeOK /\ MoreTypes /\ idx[t] \in Nat /\ retry[t] \in {0, 1}
  BY TypeFact
<1>2. idx' = [idx EXCEPT ![t] = idx[t]] /\ retry' = [retry EXCEPT ![t] = retry[t]]
  BY <1>1, Same
<1> QED
  BY <1>1, <1>2, PlainStep

LEMMA ConnKeep ==
  ASSUME IInv
  PROVE  mconn \in [Clients -> Conn] /\ sconn \in [Clients -> Conn]
BY DEF IInv, SetTypeOK

LEMMA ThreadFact ==
  /\ Watcher \in Threads /\ Watcher \notin Clients /\ NoHost \notin Threads /\ NoHost \notin Members
  /\ \A c \in Clients : c \in Threads /\ c # Watcher
BY SetAssumption DEF Threads

(* A client that is in a call has a monitor that is made.                  *)
LEMMA CallBuilt ==
  ASSUME IInv, NEW c \in Clients, pc[c] # "idle"
  PROVE  Built
BY DEF IInv, BuiltInv

LEMMA ScanFact ==
  ASSUME IInv, NEW t \in Threads, Scan(t)
  PROVE  \E l \in {Out(t), "scan"} :
            /\ pc' = [pc EXCEPT ![t] = l]
            /\ idx' = [idx EXCEPT ![t] = 1] /\ retry' = [retry EXCEPT ![t] = 0]
            /\ l = "scan" => 1 \in 1..Len(nodes)
<1>1. nodes \in Seq(Members) /\ Len(nodes) \in Nat
  BY TypeFact
<1>2. nodes # <<>> => 1 \in 1..Len(nodes)
  BY <1>1, EmptySeq
<1> QED
  BY <1>2 DEF Scan, Goto, Out

LEMMA OutFact ==
  ASSUME NEW t \in Threads
  PROVE  /\ Out(t) \in {"idle", "assert"}
         /\ Out(t) \in Places \ {"hosts"}
BY DEF Out, Places

LEMMA ScanStep ==
  ASSUME IInv, NEW t \in Threads, pc[t] # "hosts", Scan(t), t # Watcher => Built,
         UNCHANGED <<back, answer, adding, checkLock, monVars, connVars, setVars>>
  PROVE  IInv'
<1>1. PICK l \in {Out(t), "scan"} :
         /\ pc' = [pc EXCEPT ![t] = l]
         /\ idx' = [idx EXCEPT ![t] = 1] /\ retry' = [retry EXCEPT ![t] = 0]
         /\ l = "scan" => 1 \in 1..Len(nodes)
  BY ScanFact
<1>2. l \in Places \ {"hosts"} /\ l \in {"idle", "assert", "scan"}
  BY OutFact DEF Places
<1>3. MonStep(t)
  BY MonSame
<1>4. mconn' \in [Clients -> Conn] /\ sconn' \in [Clients -> Conn]
  BY ConnKeep DEF connVars
<1>5. UNCHANGED <<back, answer, adding, checkLock, nodes, setVars>>
  BY DEF monVars
<1> QED
  BY <1>1, <1>2, <1>3, <1>4, <1>5, PlainStep

-----------------------------------------------------------------------------
(* The watcher and the constructor.                                        *)

LEMMA SeededInv ==
  ASSUME IInv, Seeded
  PROVE  IInv'
<1>1. /\ pc[Watcher] # "hosts" /\ pc' = [pc EXCEPT ![Watcher] = "idle"]
      /\ UNCHANGED <<back, idx, retry, answer, adding, checkLock, nodes, setVars>>
      /\ UNCHANGED monVars /\ mconn' = mconn /\ sconn' = sconn
  BY DEF Seeded, Goto, checkVars, monVars, connVars
<1>2. "idle" \in Places \ {"hosts"}
  BY DEF Places
<1> QED
  BY <1>1, <1>2, MonSame, ConnKeep, ThreadFact, MoveStep

LEMMA CheckInv ==
  ASSUME IInv, Check
  PROVE  IInv'
<1>1. /\ pc[Watcher] # "hosts" /\ UNCHANGED <<back, answer, adding, checkLock, monVars, connVars, setVars>>
      /\ UNCHANGED <<back, answer, adding, checkLock, nodes, setVars>>
      /\ UNCHANGED monVars /\ mconn' = mconn /\ sconn' = sconn
  BY DEF Check, monVars, connVars
<1>2. CASE Scan(Watcher)
  BY <1>1, <1>2, ThreadFact, ScanStep
<1>3. CASE Goto(Watcher, "index") /\ UNCHANGED <<idx, retry>>
  <2>1. "index" \in Places \ {"hosts"}
    BY DEF Places
  <2>2. UNCHANGED <<back, idx, retry, answer, adding, checkLock, nodes, setVars>>
    BY <1>1, <1>3
  <2> QED
    BY <1>1, <1>3, <2>1, <2>2, MonSame, ConnKeep, ThreadFact, MoveStep DEF Goto
<1> QED
  BY <1>2, <1>3 DEF Check

LEMMA CheckMasterInv ==
  ASSUME IInv, CheckMaster
  PROVE  IInv'
<1>0. /\ pc[Watcher] = "index" /\ UNCHANGED <<back, answer, adding, checkLock, nodes, setVars>>
      /\ UNCHANGED monVars /\ mconn' = mconn /\ sconn' = sconn /\ retry' = retry
  BY DEF CheckMaster, monVars, connVars
<1>1. /\ Watcher \in Threads /\ MonStep(Watcher) /\ SetTypeOK /\ MoreTypes /\ retry[Watcher] \in {0, 1}
      /\ master \in 0..Len(nodes) /\ Len(nodes) \in Nat /\ idx[Watcher] \in Nat
      /\ mconn' \in [Clients -> Conn] /\ sconn' \in [Clients -> Conn]
  BY <1>0, ThreadFact, TypeFact, MonSame, ConnKeep
<1>2. retry' = [retry EXCEPT ![Watcher] = retry[Watcher]]
  BY <1>0, <1>1, Same
<1>3. "current" \in Places \ {"hosts"} /\ "index" \in Places \ {"hosts"}
  BY DEF Places
<1>4. CASE master > 0
  <2>1. idx' = [idx EXCEPT ![Watcher] = master] /\ pc' = [pc EXCEPT ![Watcher] = "current"]
    BY <1>4 DEF CheckMaster, Goto
  <2>2. master \in 1..Len(nodes) /\ master \in Nat
    BY <1>1, <1>4
  <2> QED
    BY <1>0, <1>1, <1>2, <1>3, <2>1, <2>2, PlainStep
<1>5. CASE ~(master > 0)
  <2>1. idx' = idx /\ pc' = pc
    BY <1>5 DEF CheckMaster
  <2>2. pc' = [pc EXCEPT ![Watcher] = "index"]
    BY <1>0, <1>1, <2>1, Same
  <2>3. UNCHANGED <<back, idx, retry, answer, adding, checkLock, nodes, setVars>>
    BY <1>0, <2>1
  <2> QED
    BY <1>0, <1>1, <1>3, <2>2, <2>3, MoveStep
<1> QED
  BY <1>4, <1>5

-----------------------------------------------------------------------------
(* The clients.                                                            *)

LEMMA BeginMasterInv ==
  ASSUME IInv, NEW c \in Clients, BeginMaster(c)
  PROVE  IInv'
<1>1. /\ pc[c] # "hosts" /\ Built /\ pc' = [pc EXCEPT ![c] = "get"]
      /\ UNCHANGED <<back, idx, retry, answer, adding, checkLock, nodes, setVars>>
      /\ UNCHANGED monVars /\ mconn' = mconn /\ sconn' = sconn
  BY DEF BeginMaster, Goto, checkVars, monVars
<1>2. "get" \in Places \ {"hosts"}
  BY DEF Places
<1> QED
  BY <1>1, <1>2, MonSame, ConnKeep, ThreadFact, MoveStep

LEMMA GetMasterInv ==
  ASSUME IInv, NEW c \in Clients, GetMaster(c)
  PROVE  IInv'
<1>1. /\ pc[c] # "hosts" /\ UNCHANGED <<back, answer, adding, checkLock, monVars, connVars, setVars>>
      /\ UNCHANGED <<back, answer, adding, checkLock, nodes, setVars>>
      /\ UNCHANGED monVars /\ mconn' = mconn /\ sconn' = sconn
  BY DEF GetMaster, monVars, connVars
<1>2. Built
  BY CallBuilt DEF GetMaster
<1>3. CASE Scan(c)
  BY <1>1, <1>2, <1>3, ThreadFact, ScanStep
<1>4. CASE Goto(c, "assert") /\ UNCHANGED <<idx, retry>>
  <2>1. "assert" \in Places \ {"hosts"}
    BY DEF Places
  <2>2. UNCHANGED <<back, idx, retry, answer, adding, checkLock, nodes, setVars>>
    BY <1>1, <1>4
  <2> QED
    BY <1>1, <1>2, <1>4, <2>1, <2>2, MonSame, ConnKeep, ThreadFact, MoveStep DEF Goto
<1> QED
  BY <1>3, <1>4 DEF GetMaster

LEMMA AssertMasterInv ==
  ASSUME IInv, NEW c \in Clients, AssertMaster(c)
  PROVE  IInv'
<1>1. /\ pc[c] # "hosts" /\ UNCHANGED <<back, idx, retry, answer, adding, checkLock, nodes, setVars>>
      /\ UNCHANGED monVars /\ mconn' = mconn /\ sconn' = sconn
  BY DEF AssertMaster, checkVars, monVars, connVars
<1>2. Built
  BY CallBuilt DEF AssertMaster
<1>3. PICK l \in {"read", "idle"} : pc' = [pc EXCEPT ![c] = l]
  BY DEF AssertMaster, Goto
<1>4. l \in Places \ {"hosts"}
  BY DEF Places
<1> QED
  BY <1>1, <1>2, <1>3, <1>4, MonSame, ConnKeep, ThreadFact, MoveStep

(* A connection to a member of the set, and one that is found broken.      *)
LEMMA ConnType ==
  /\ \A h \in Members, f \in BOOLEAN : [host |-> h, failed |-> f] \in Conn
  /\ \A k \in Conn, f \in BOOLEAN : [k EXCEPT !.failed = f] \in Conn
BY DEF Conn

LEMMA MasterHost ==
  ASSUME IInv, master # 0
  PROVE  nodes[master] \in Members
<1>1. nodes \in Seq(Members) /\ Len(nodes) \in Nat /\ master \in 0..Len(nodes)
  BY TypeFact, ThreadFact
<1>2. master \in 1..Len(nodes)
  BY <1>1
<1> QED
  BY <1>1, <1>2

LEMMA ReadMasterInv ==
  ASSUME IInv, NEW c \in Clients, ReadMaster(c)
  PROVE  IInv'
<1>1. /\ pc[c] = "read" /\ UNCHANGED <<back, idx, retry, answer, adding, checkLock, nodes, setVars>>
      /\ UNCHANGED monVars /\ sconn' = sconn
  BY DEF ReadMaster, checkVars, monVars
<1>2. /\ Built /\ c \in Threads /\ c # Watcher /\ MonStep(c) /\ SetTypeOK /\ MoreTypes
      /\ mconn \in [Clients -> Conn] /\ sconn' \in [Clients -> Conn]
  BY <1>1, CallBuilt, ThreadFact, MonSame, ConnKeep, TypeFact
<1>3. CASE master = 0
  <2>1. pc' = pc /\ mconn' = mconn
    BY <1>3 DEF ReadMaster
  <2>2. pc' = [pc EXCEPT ![c] = "read"]
    BY <1>1, <1>2, <2>1, Same
  <2>3. "read" \in Places \ {"hosts"}
    BY DEF Places
  <2> QED
    BY <1>1, <1>2, <2>1, <2>2, <2>3, MoveStep
<1>4. CASE master # 0
  <2>1. nodes[master] \in Members
    BY <1>4, MasterHost
  <2>2. PICK l \in {"connect", "get", "notify", "idle"} :
          /\ pc' = [pc EXCEPT ![c] = l]
          /\ \/ mconn' = mconn
             \/ mconn' = [mconn EXCEPT ![c] = [host |-> nodes[master], failed |-> FALSE]]
    BY <1>4 DEF ReadMaster, Goto
  <2>3. mconn' \in [Clients -> Conn]
    BY <1>2, <2>1, <2>2, ConnType
  <2>4. l \in Places \ {"hosts"}
    BY DEF Places
  <2> QED
    BY <1>1, <1>2, <2>2, <2>3, <2>4, MoveStep
<1> QED
  BY <1>3, <1>4

LEMMA ConnectInv ==
  ASSUME IInv, NEW c \in Clients, Connect(c)
  PROVE  IInv'
<1>1. /\ pc[c] = "connect" /\ UNCHANGED <<back, idx, retry, answer, adding, checkLock, nodes, setVars>>
      /\ UNCHANGED monVars /\ sconn' = sconn
  BY DEF Connect, checkVars, monVars
<1>2. /\ Built /\ c \in Threads /\ c # Watcher /\ MonStep(c)
      /\ mconn \in [Clients -> Conn] /\ sconn' \in [Clients -> Conn]
  BY <1>1, CallBuilt, ThreadFact, MonSame, ConnKeep
<1>3. PICK l \in {"idle", "lost"} : pc' = [pc EXCEPT ![c] = l]
  BY DEF Connect, Goto
<1>4. l \in Places \ {"hosts"}
  BY DEF Places
<1>5. mconn' \in [Clients -> Conn]
  <2>1. mconn' = [mconn EXCEPT ![c] = [mconn[c] EXCEPT !.failed = mconn[c].host \notin up]]
    BY DEF Connect
  <2>2. (mconn[c].host \notin up) \in BOOLEAN /\ mconn[c] \in Conn
    BY <1>2
  <2> QED
    BY <1>2, <2>1, <2>2, ConnType
<1> QED
  BY <1>1, <1>2, <1>3, <1>4, <1>5, MoveStep

LEMMA NotifyFailureInv ==
  ASSUME IInv, NEW c \in Clients, NotifyFailure(c)
  PROVE  IInv'
<1>1. /\ pc[c] \in {"notify", "lost"} /\ UNCHANGED <<back, idx, retry, answer, adding, checkLock, nodes, setVars>>
      /\ nodes' = nodes /\ ok' = ok /\ todo' = todo /\ mconn' = mconn /\ sconn' = sconn
  BY DEF NotifyFailure, checkVars, connVars
<1>2. /\ Built /\ c \in Threads /\ c # Watcher /\ MoreTypes /\ master \in 0..Len(nodes) /\ Len(nodes) \in Nat
      /\ mconn' \in [Clients -> Conn] /\ sconn' \in [Clients -> Conn]
  BY <1>1, CallBuilt, ThreadFact, TypeFact, ConnKeep
<1>3. PICK l \in {"idle", "get"} : pc' = [pc EXCEPT ![c] = l]
  BY DEF NotifyFailure, Goto
<1>4. l \in Places \ {"hosts"}
  BY DEF Places
<1>5. master' \in 0..Len(nodes)
  <2>1. master' = 0 \/ master' = master
    BY DEF NotifyFailure
  <2> QED
    BY <1>2, <2>1
<1>6. ok' \in Seq(BOOLEAN) /\ Len(ok') = Len(nodes) /\ todo' \in Seq(Range(Seeds))
  BY <1>1, <1>2 DEF MoreTypes
<1>7. MonStep(c)
  BY <1>1, <1>2, <1>5, <1>6, MonKeep
<1> QED
  BY <1>1, <1>2, <1>3, <1>4, <1>7, MoveStep

LEMMA NoNode ==
  Range(<<>>) = {}
BY DEF Range

LEMMA CheckSlaveInv ==
  ASSUME IInv, NEW c \in Clients, CheckSlave(c)
  PROVE  IInv'
<1>1. /\ pc[c] = "idle" /\ Built /\ UNCHANGED <<back, idx, retry, answer, adding, checkLock, nodes, setVars>>
      /\ UNCHANGED monVars /\ mconn' = mconn /\ sconn' = sconn
  BY DEF CheckSlave, checkVars, monVars, connVars
<1>2. /\ c \in Threads /\ c # Watcher /\ MonStep(c) /\ SetTypeOK /\ MoreTypes
      /\ mconn' \in [Clients -> Conn] /\ sconn' \in [Clients -> Conn]
  BY <1>1, ThreadFact, MonSame, ConnKeep, TypeFact
<1>3. PICK h \in IF sconn[c].host \in Range(nodes) /\ ok[Find(sconn[c].host)] THEN {sconn[c].host}
                 ELSE IF nodes = <<>> THEN {NoHost} ELSE Slaves :
         \/ h = NoHost /\ pc' = pc
         \/ h # NoHost /\ pc' = [pc EXCEPT ![c] = "sget"]
         \/ h # NoHost /\ pc' = [pc EXCEPT ![c] = "slost"]
  BY DEF CheckSlave, Goto
<1>4. h # NoHost => nodes # <<>>
  BY <1>3, NoNode
<1>5. pc' = pc => pc' = [pc EXCEPT ![c] = "idle"]
  BY <1>1, <1>2, Same
<1>6. PICK l \in {"idle", "sget", "slost"} :
         pc' = [pc EXCEPT ![c] = l] /\ (l # "idle" => nodes # <<>>)
  BY <1>3, <1>4, <1>5
<1>7. l \in Places \ {"hosts"}
  BY DEF Places
<1> QED
  BY <1>1, <1>2, <1>6, <1>7, MoveStep

LEMMA FlagSeq ==
  ASSUME NEW n \in Nat, NEW f \in [1..n -> BOOLEAN]
  PROVE  f \in Seq(BOOLEAN) /\ Len(f) = n
OBVIOUS

LEMMA NotifySlaveFailureInv ==
  ASSUME IInv, NEW c \in Clients, NotifySlaveFailure(c)
  PROVE  IInv'
<1>1. /\ pc[c] = "slost" /\ UNCHANGED <<back, idx, retry, answer, adding, checkLock, nodes, setVars>>
      /\ nodes' = nodes /\ master' = master /\ todo' = todo /\ mconn' = mconn /\ sconn' = sconn
      /\ pc' = [pc EXCEPT ![c] = "sget"]
  BY DEF NotifySlaveFailure, checkVars, connVars, Goto
<1>2. /\ Built /\ c \in Threads /\ c # Watcher /\ MoreTypes /\ PlaceInv(c) /\ master' \in 0..Len(nodes)
      /\ mconn' \in [Clients -> Conn] /\ sconn' \in [Clients -> Conn]
  BY <1>1, CallBuilt, ThreadFact, TypeFact, ConnKeep
<1>3. nodes # <<>>
  BY <1>1, <1>2 DEF PlaceInv
<1>4. ok' \in Seq(BOOLEAN) /\ Len(ok') = Len(nodes)
  <2>1. ok \in Seq(BOOLEAN) /\ Len(ok) = Len(nodes)
    BY <1>2 DEF MoreTypes
  <2>2. PICK k : ok' = [ok EXCEPT ![k] = FALSE]
    BY DEF NotifySlaveFailure
  <2>3. Len(nodes) \in Nat /\ ok \in [1..Len(nodes) -> BOOLEAN]
    BY <2>1
  <2>4. ok' \in [1..Len(nodes) -> BOOLEAN]
    BY <2>2, <2>3
  <2> QED
    BY <2>3, <2>4, FlagSeq
<1>5. todo' \in Seq(Range(Seeds)) /\ "sget" \in Places \ {"hosts"}
  BY <1>1, <1>2 DEF MoreTypes, Places
<1>6. MonStep(c)
  BY <1>1, <1>2, <1>4, <1>5, MonKeep
<1> QED
  BY <1>1, <1>2, <1>3, <1>5, <1>6, MoveStep

LEMMA GetSlaveInv ==
  ASSUME IInv, NEW c \in Clients, GetSlave(c)
  PROVE  IInv'
<1>1. /\ pc[c] = "sget" /\ UNCHANGED <<back, idx, retry, answer, adding, checkLock, nodes, setVars>>
      /\ UNCHANGED monVars /\ mconn' = mconn /\ pc' = [pc EXCEPT ![c] = "idle"]
  BY DEF GetSlave, checkVars, monVars, Goto
<1>2. /\ Built /\ c \in Threads /\ c # Watcher /\ MonStep(c) /\ PlaceInv(c)
      /\ nodes \in Seq(Members) /\ Len(nodes) \in Nat
      /\ mconn' \in [Clients -> Conn] /\ sconn \in [Clients -> Conn]
  BY <1>1, CallBuilt, ThreadFact, MonSame, ConnKeep, TypeFact
<1>3. nodes # <<>>
  BY <1>1, <1>2 DEF PlaceInv
<1>4. Slaves \subseteq Members
  <2>1. 1 \in 1..Len(nodes)
    BY <1>2, <1>3, EmptySeq
  <2>2. \A i \in 1..Len(nodes) : nodes[i] \in Members
    BY <1>2
  <2> QED
    BY <2>1, <2>2 DEF Slaves
<1>5. PICK h \in Members : sconn' = [sconn EXCEPT ![c] = [host |-> h, failed |-> h \notin up]]
  BY <1>4 DEF GetSlave
<1>6. sconn' \in [Clients -> Conn]
  <2>1. (h \notin up) \in BOOLEAN
    OBVIOUS
  <2> QED
    BY <1>2, <1>5, <2>1, ConnType
<1>7. "idle" \in Places \ {"hosts"}
  BY DEF Places
<1> QED
  BY <1>1, <1>2, <1>6, <1>7, MoveStep

-----------------------------------------------------------------------------
(* The world, and connections that are found broken.                       *)

LEMMA OutsideStep ==
  ASSUME IInv, UNCHANGED <<monVars, checkLock, pc, checkVars>>, changes' \in Nat,
         up' \subseteq Members, primary' \in up' \cup {NoHost},
         mconn' \in [Clients -> Conn], sconn' \in [Clients -> Conn]
  PROVE  IInv'
<1>1. /\ nodes' = nodes /\ ok' = ok /\ master' = master /\ todo' = todo /\ checkLock' = checkLock
      /\ pc' = pc /\ back' = back /\ idx' = idx /\ retry' = retry /\ answer' = answer /\ adding' = adding
  BY DEF monVars, checkVars
<1>2. SetTypeOK'
  BY <1>1 DEF IInv, SetTypeOK
<1>3. MoreTypes'
  BY <1>1 DEF IInv, MoreTypes
<1>4. ListedOnce' /\ BuiltInv'
  BY <1>1 DEF IInv, ListedOnce, BuiltInv, Built
<1>5. ASSUME NEW t \in Threads PROVE PlaceInv(t)' /\ AddInv(t)'
  <2>1. PlaceInv(t) /\ AddInv(t)
    BY TypeFact
  <2> QED
    BY <1>1, <2>1 DEF PlaceInv, AddInv
<1> QED
  BY <1>2, <1>3, <1>4, <1>5 DEF IInv

LEMMA ChangeFact ==
  ASSUME IInv
  PROVE  /\ changes \in Nat /\ Change => changes' \in Nat
         /\ up \subseteq Members /\ primary \in up \cup {NoHost}
BY DEF IInv, MoreTypes, SetTypeOK, Change

LEMMA WorldInv ==
  ASSUME IInv, World
  PROVE  IInv'
<1>1. changes' \in Nat /\ up \subseteq Members /\ primary \in up \cup {NoHost}
  BY ChangeFact DEF World, IInv, MoreTypes, Change
<1>2. up' \subseteq Members /\ primary' \in up' \cup {NoHost}
  BY <1>1 DEF World
<1>3. UNCHANGED <<monVars, checkLock, pc, checkVars>> /\ mconn' = mconn /\ sconn' = sconn
  BY DEF World, connVars
<1> QED
  BY <1>1, <1>2, <1>3, ConnKeep, OutsideStep

LEMMA BreaksInv ==
  ASSUME IInv, NEW c \in Clients, Breaks(c)
  PROVE  IInv'
<1>1. mconn \in [Clients -> Conn] /\ sconn \in [Clients -> Conn]
  BY ConnKeep
<1>2. changes' \in Nat
  <2>1. Change \/ changes' = changes
    BY DEF Breaks
  <2>2. changes \in Nat
    BY DEF IInv, MoreTypes
  <2> QED
    BY <2>1, <2>2 DEF Change
<1>3. mconn' \in [Clients -> Conn] /\ sconn' \in [Clients -> Conn]
  <2>1. /\ mconn' = mconn \/ mconn' = [mconn EXCEPT ![c] = [mconn[c] EXCEPT !.failed = TRUE]]
        /\ sconn' = sconn \/ sconn' = [sconn EXCEPT ![c] = [sconn[c] EXCEPT !.failed = TRUE]]
    BY DEF Breaks
  <2>2. [mconn[c] EXCEPT !.failed = TRUE] \in Conn /\ [sconn[c] EXCEPT !.failed = TRUE] \in Conn
    BY <1>1, ConnType
  <2> QED
    BY <1>1, <2>1, <2>2
<1>4. /\ UNCHANGED <<monVars, checkLock, pc, checkVars>>
      /\ up' \subseteq Members /\ primary' \in up' \cup {NoHost}
  BY ChangeFact DEF Breaks
<1> QED
  BY <1>2, <1>3, <1>4, OutsideStep

-----------------------------------------------------------------------------
(* The list grows.                                                         *)

LEMMA AppendFact ==
  ASSUME NEW S, NEW s \in Seq(S), NEW e \in S
  PROVE  /\ Append(s, e) \in Seq(S) /\ Append(s, e) # <<>>
         /\ Len(Append(s, e)) = Len(s) + 1 /\ Len(s) \in Nat
         /\ Append(s, e)[Len(s) + 1] = e
         /\ \A i \in 1..Len(s) : Append(s, e)[i] = s[i]
         /\ Range(Append(s, e)) \subseteq Range(s) \cup {e}
         /\ \A i \in 1..Len(s) : s[i] \in Range(s)
<1>1. /\ Append(s, e) \in Seq(S) /\ Len(Append(s, e)) = Len(s) + 1 /\ Len(s) \in Nat
      /\ Append(s, e)[Len(s) + 1] = e /\ \A i \in 1..Len(s) : Append(s, e)[i] = s[i]
      /\ Append(s, e) # <<>>
  BY AppendProperties
<1>2. DOMAIN s = 1..Len(s) /\ DOMAIN Append(s, e) = 1..(Len(s) + 1)
  BY <1>1
<1>3. \A i \in 1..Len(s) : s[i] \in Range(s)
  BY <1>2 DEF Range
<1>4. ASSUME NEW x \in Range(Append(s, e)) PROVE x \in Range(s) \cup {e}
  <2>1. PICK i \in 1..(Len(s) + 1) : x = Append(s, e)[i]
    BY <1>2 DEF Range
  <2>2. CASE i = Len(s) + 1
    BY <1>1, <2>1, <2>2
  <2>3. CASE i \in 1..Len(s)
    BY <1>1, <1>3, <2>1, <2>3
  <2> QED
    BY <1>1, <2>2, <2>3
<1> QED
  BY <1>1, <1>3, <1>4

(* A host is added that is a seed, or that is not in the list.             *)
LEMMA GrowOnce ==
  ASSUME IInv, NEW h \in Members, nodes' = Append(nodes, h), h \in Range(Seeds) \/ h \notin Range(nodes)
  PROVE  ListedOnce'
<1>1. nodes \in Seq(Members) /\ ListedOnce
  BY TypeFact, ThreadFact DEF IInv
<1>2. /\ Len(nodes') = Len(nodes) + 1 /\ Len(nodes) \in Nat /\ nodes'[Len(nodes) + 1] = h
      /\ \A i \in 1..Len(nodes) : nodes'[i] = nodes[i] /\ nodes[i] \in Range(nodes)
  BY <1>1, AppendFact
<1>3. ASSUME NEW i \in 1..Len(nodes'), NEW j \in 1..Len(nodes'), nodes'[i] = nodes'[j],
             nodes'[i] \notin Range(Seeds), i # j
      PROVE  FALSE
  <2>1. CASE i \in 1..Len(nodes) /\ j \in 1..Len(nodes)
    BY <1>1, <1>2, <1>3, <2>1 DEF ListedOnce
  <2>2. CASE i = Len(nodes) + 1 /\ j \in 1..Len(nodes)
    BY <1>2, <1>3, <2>2
  <2>3. CASE j = Len(nodes) + 1 /\ i \in 1..Len(nodes)
    BY <1>2, <1>3, <2>3
  <2> QED
    BY <1>2, <1>3, <2>1, <2>2, <2>3
<1> QED
  BY <1>3 DEF ListedOnce

LEMMA GrowStep ==
  ASSUME IInv, NEW t \in Threads, NEW h \in Members, nodes' = Append(nodes, h), ok' = Append(ok, TRUE),
         master' = master, todo' \in Seq(Range(Seeds)),
         h \in Range(Seeds) \/ h \notin Range(nodes),
         \A u \in Threads \ {t} : adding[u] = {}
  PROVE  MonStep(t) /\ Len(nodes') = Len(nodes) + 1 /\ nodes' # <<>> /\ Range(nodes') \subseteq Range(nodes) \cup {h}
<1>1. nodes \in Seq(Members) /\ MoreTypes /\ master \in 0..Len(nodes)
  BY TypeFact
<1>2. /\ nodes' \in Seq(Members) /\ Len(nodes') = Len(nodes) + 1 /\ Len(nodes) \in Nat /\ nodes' # <<>>
      /\ Range(nodes') \subseteq Range(nodes) \cup {h}
  BY <1>1, AppendFact
<1>3. ok' \in Seq(BOOLEAN) /\ Len(ok') = Len(nodes')
  BY <1>1, <1>2, AppendFact DEF MoreTypes
<1>4. master' \in 0..Len(nodes') /\ Len(nodes) <= Len(nodes')
  BY <1>1, <1>2
<1>5. ListedOnce'
  BY GrowOnce
<1> QED
  BY <1>2, <1>3, <1>4, <1>5 DEF MonStep

-----------------------------------------------------------------------------
(* _checkConnection, of any thread.                                        *)

LEMMA ClientBuilt ==
  ASSUME IInv, NEW t \in Threads, t # Watcher, pc[t] # "idle"
  PROVE  Built
<1>1. t \in Clients
  BY DEF Threads
<1> QED
  BY <1>1, CallBuilt

LEMMA CheckConnectionInv ==
  ASSUME IInv, NEW t \in Threads, CheckConnection(t)
  PROVE  IInv'
<1>1. /\ pc[t] \in {"first", "current", "scan"} /\ checkLock = NoHost /\ checkLock' = t
      /\ UNCHANGED setVars /\ UNCHANGED monVars /\ nodes' = nodes /\ idx' = idx /\ retry' = retry
      /\ mconn' = mconn /\ sconn' = sconn
      /\ pc' = [pc EXCEPT ![t] = "hosts"] /\ back' = [back EXCEPT ![t] = pc[t]]
  BY DEF CheckConnection, Goto, connVars, monVars
<1>2. /\ SetTypeOK /\ MoreTypes /\ PlaceInv(t) /\ idx[t] \in Nat /\ retry[t] \in {0, 1}
      /\ MonStep(t) /\ mconn' \in [Clients -> Conn] /\ sconn' \in [Clients -> Conn]
  BY <1>1, TypeFact, MonSame, ConnKeep
<1>3. PICK a \in BOOLEAN : answer' = [answer EXCEPT ![t] = a]
  <2>1. (nodes[idx[t]] = primary) \in BOOLEAN
    OBVIOUS
  <2> QED
    BY <2>1 DEF CheckConnection
<1>4. PICK d \in SUBSET Members : adding' = [adding EXCEPT ![t] = d] /\ d \cap Range(nodes) = {}
  <2>1. /\ Members \ Range(nodes) \in SUBSET Members /\ {} \in SUBSET Members
        /\ (Members \ Range(nodes)) \cap Range(nodes) = {} /\ {} \cap Range(nodes) = {}
    OBVIOUS
  <2>2. \/ adding' = [adding EXCEPT ![t] = Members \ Range(nodes)]
        \/ adding' = [adding EXCEPT ![t] = {}]
    BY DEF CheckConnection
  <2> QED
    BY <2>1, <2>2
<1>5. Local(t, "hosts", pc[t], idx[t], retry[t], a, d)
  BY <1>1, <1>2, <1>3, <1>4, Same DEF Local
<1>6. LockStep(t)
  BY <1>1, ThreadFact DEF LockStep
<1>7. Fits(t, "hosts", pc[t], idx[t], d)
  <2>1. idx[t] \in 1..Len(nodes')
    BY <1>1, <1>2 DEF PlaceInv
  <2>2. pc[t] # "idle" /\ d \cap Range(nodes') = {} /\ (t # Watcher => pc[t] # "first")
    BY <1>1, <1>2, <1>4 DEF PlaceInv
  <2>3. t = Watcher /\ Built => pc[t] # "first"
    BY DEF Built
  <2>4. t # Watcher => Built
    BY <1>1, ClientBuilt
  <2> QED
    BY <1>1, <2>1, <2>2, <2>3, <2>4 DEF Fits
<1>8. "hosts" \in Places /\ pc[t] \in {"idle", "first", "current", "scan"}
  BY <1>1 DEF Places
<1> QED
  BY <1>1, <1>2, <1>3, <1>4, <1>5, <1>6, <1>7, <1>8, StepInv

(* The one that is in _checkHosts holds the lock, and it is the only one.  *)
LEMMA HolderFact ==
  ASSUME IInv, NEW t \in Threads, pc[t] = "hosts"
  PROVE  /\ checkLock = t /\ idx[t] \in 1..Len(nodes) /\ back[t] \in {"first", "current", "scan"}
         /\ t # Watcher => back[t] # "first" /\ Built
         /\ \A u \in Threads \ {t} : adding[u] = {}
<1>1. PlaceInv(t) /\ back[t] \in {"idle", "first", "current", "scan"}
  BY TypeFact
<1>2. checkLock = t /\ idx[t] \in 1..Len(nodes) /\ back[t] # "idle" /\ (t # Watcher => back[t] # "first")
  BY <1>1 DEF PlaceInv
<1>3. ASSUME NEW u \in Threads, u # t PROVE adding[u] = {}
  <2>1. PlaceInv(u) /\ AddInv(u)
    BY TypeFact
  <2> QED
    BY <1>2, <1>3, <2>1 DEF PlaceInv, AddInv
<1>4. t # Watcher => Built
  BY ClientBuilt
<1> QED
  BY <1>1, <1>2, <1>3, <1>4

LEMMA CheckHostsInv ==
  ASSUME IInv, NEW t \in Threads, CheckHosts(t)
  PROVE  IInv'
<1>1. /\ pc[t] = "hosts" /\ UNCHANGED setVars /\ master' = master /\ todo' = todo /\ checkLock' = checkLock
      /\ pc' = pc /\ back' = back /\ idx' = idx /\ retry' = retry /\ answer' = answer
      /\ mconn' = mconn /\ sconn' = sconn
  BY DEF CheckHosts, connVars
<1>2. PICK h \in adding[t] : nodes' = Append(nodes, h) /\ ok' = Append(ok, TRUE)
                             /\ adding' = [adding EXCEPT ![t] = adding[t] \ {h}]
  BY DEF CheckHosts
<1>3. /\ SetTypeOK /\ MoreTypes /\ PlaceInv(t) /\ AddInv(t) /\ idx[t] \in Nat /\ retry[t] \in {0, 1}
      /\ pc[t] \in Places /\ back[t] \in {"idle", "first", "current", "scan"}
      /\ answer[t] \in BOOLEAN /\ adding[t] \in SUBSET Members /\ Len(nodes) \in Nat
      /\ LockStep(t) /\ mconn' \in [Clients -> Conn] /\ sconn' \in [Clients -> Conn]
  BY <1>1, TypeFact, LockSame, ConnKeep
<1>4. /\ checkLock = t /\ idx[t] \in 1..Len(nodes) /\ back[t] # "idle"
      /\ t # Watcher => back[t] # "first" /\ Built
      /\ \A u \in Threads \ {t} : adding[u] = {}
  BY <1>1, HolderFact
<1>5. h \in Members /\ h \notin Range(nodes) /\ todo' \in Seq(Range(Seeds))
  BY <1>1, <1>2, <1>3 DEF AddInv, MoreTypes
<1>6. MonStep(t) /\ Len(nodes') = Len(nodes) + 1 /\ Range(nodes') \subseteq Range(nodes) \cup {h}
  BY <1>1, <1>2, <1>4, <1>5, GrowStep
<1>7. Local(t, pc[t], back[t], idx[t], retry[t], answer[t], adding[t] \ {h})
  BY <1>1, <1>2, <1>3, Same DEF Local
<1>8. Fits(t, pc[t], back[t], idx[t], adding[t] \ {h})
  <2>1. idx[t] \in 1..Len(nodes')
    BY <1>3, <1>4, <1>6
  <2>2. (adding[t] \ {h}) \cap Range(nodes') = {}
    BY <1>3, <1>6 DEF AddInv
  <2>3. t = Watcher /\ Built => back[t] # "first"
    BY DEF Built
  <2> QED
    BY <1>1, <1>4, <2>1, <2>2, <2>3 DEF Fits
<1>9. adding[t] \ {h} \in SUBSET Members
  BY <1>3
<1> QED
  BY <1>1, <1>3, <1>6, <1>7, <1>8, <1>9, StepInv

LEMMA SetMasterInv ==
  ASSUME IInv, NEW t \in Threads, SetMaster(t)
  PROVE  IInv'
<1>1. /\ pc[t] = "set" /\ UNCHANGED <<back, idx, retry, answer, adding, checkLock, nodes, setVars>>
      /\ nodes' = nodes /\ ok' = ok /\ todo' = todo /\ mconn' = mconn /\ sconn' = sconn
      /\ master' = idx[t] /\ pc' = [pc EXCEPT ![t] = Out(t)]
  BY DEF SetMaster, checkVars, connVars, Goto
<1>2. /\ PlaceInv(t) /\ MoreTypes /\ Len(nodes) \in Nat
      /\ mconn' \in [Clients -> Conn] /\ sconn' \in [Clients -> Conn]
  BY <1>1, TypeFact, ConnKeep
<1>3. master' \in 0..Len(nodes)
  <2>1. idx[t] \in 1..Len(nodes)
    BY <1>1, <1>2 DEF PlaceInv
  <2> QED
    BY <1>1, <1>2, <2>1
<1>4. ok' \in Seq(BOOLEAN) /\ Len(ok') = Len(nodes) /\ todo' \in Seq(Range(Seeds))
  BY <1>1, <1>2 DEF MoreTypes
<1>5. MonStep(t)
  BY <1>1, <1>3, <1>4, MonKeep
<1>6. t # Watcher => Built
  BY <1>1, ClientBuilt
<1>7. Out(t) \in {"idle", "assert"} /\ Out(t) \in Places \ {"hosts"}
  BY OutFact
<1> QED
  BY <1>1, <1>2, <1>5, <1>6, <1>7, MoveStep

(* _checkConnection is left, for the place l.                              *)
LEMMA LeaveStep ==
  ASSUME IInv, NEW t \in Threads, NEW l \in Places \ {"hosts", "slost", "sget"}, NEW i \in Nat, NEW r \in {0, 1},
         pc[t] = "hosts", adding[t] = {}, checkLock' = NoHost,
         pc' = [pc EXCEPT ![t] = l], idx' = [idx EXCEPT ![t] = i], retry' = [retry EXCEPT ![t] = r],
         back' = [back EXCEPT ![t] = "idle"], answer' = [answer EXCEPT ![t] = FALSE],
         UNCHANGED <<adding, nodes, setVars, mconn, sconn>>, MonStep(t),
         l \in {"first", "current", "scan", "set"} => i \in 1..Len(nodes),
         t # Watcher => l \notin {"seed", "first", "index", "current"},
         t = Watcher /\ Built => l \notin {"seed", "first"}
  PROVE  IInv'
<1>1. /\ SetTypeOK /\ MoreTypes /\ UNCHANGED setVars
      /\ mconn' \in [Clients -> Conn] /\ sconn' \in [Clients -> Conn]
  BY TypeFact, ConnKeep
<1>2. checkLock = t /\ (t # Watcher => Built)
  BY HolderFact
<1>3. Local(t, l, "idle", i, r, FALSE, {})
  BY <1>1, Same DEF Local
<1>4. LockStep(t)
  BY <1>2, ThreadFact DEF LockStep
<1>5. Fits(t, l, "idle", i, {})
  BY <1>2, ThreadFact DEF Fits
<1>6. /\ l \in Places /\ "idle" \in {"idle", "first", "current", "scan"}
      /\ {} \in SUBSET Members /\ FALSE \in BOOLEAN
  OBVIOUS
<1> QED
  BY <1>1, <1>3, <1>4, <1>5, <1>6, StepInv

LEMMA StatusFact ==
  ASSUME IInv, NEW t \in Threads, Checked(t)
  PROVE  ok' \in Seq(BOOLEAN) /\ Len(ok') = Len(nodes)
<1>1. MoreTypes /\ Len(nodes) \in Nat
  BY TypeFact
<1>2. ok \in Seq(BOOLEAN) /\ Len(ok) = Len(nodes)
  BY <1>1 DEF MoreTypes
<1>3. CASE ok' = ok
  BY <1>2, <1>3
<1>4. CASE CheckStatus
  <2>1. \A i \in 1..Len(nodes) : ok[i] \in BOOLEAN
    BY <1>2
  <2>2. \A i \in 1..Len(nodes) :
           (IF i > 1 /\ i = Find(nodes[i]) THEN nodes[i] \in up ELSE ok[i]) \in BOOLEAN
    <3> SUFFICES ASSUME NEW i \in 1..Len(nodes)
                 PROVE  (IF i > 1 /\ i = Find(nodes[i]) THEN nodes[i] \in up ELSE ok[i]) \in BOOLEAN
      OBVIOUS
    <3>1. ok[i] \in BOOLEAN /\ (nodes[i] \in up) \in BOOLEAN
      BY <2>1
    <3>2. CASE i > 1 /\ i = Find(nodes[i])
      BY <3>1, <3>2, Zenon
    <3>3. CASE ~(i > 1 /\ i = Find(nodes[i]))
      BY <3>1, <3>3, Zenon
    <3> QED
      BY <3>2, <3>3, Zenon
  <2>3. ok' \in [1..Len(nodes) -> BOOLEAN]
    BY <1>4, <2>2 DEF CheckStatus
  <2> QED
    BY <1>1, <2>3, FlagSeq
<1> QED
  BY <1>3, <1>4 DEF Checked

(* Where the caller goes on, and with which index.                         *)
LEMMA CheckedFact ==
  ASSUME IInv, NEW t \in Threads, Checked(t)
  PROVE  \E l \in {"set", "scan", "idle", "assert", "seed"}, i \in Nat, r \in {0, 1} :
            /\ pc' = [pc EXCEPT ![t] = l]
            /\ idx' = [idx EXCEPT ![t] = i] /\ retry' = [retry EXCEPT ![t] = r]
            /\ l \in {"set", "scan"} => i \in 1..Len(nodes)
            /\ l = "seed" => back[t] = "first"
            /\ todo' \in Seq(Range(Seeds))
<1>1. /\ SetTypeOK /\ MoreTypes /\ idx[t] \in Nat /\ retry[t] \in {0, 1} /\ answer[t] \in BOOLEAN
      /\ Len(nodes) \in Nat /\ todo \in Seq(Range(Seeds))
  BY TypeFact DEF MoreTypes
<1>2. idx[t] \in 1..Len(nodes) /\ back[t] \in {"first", "current", "scan"}
  BY HolderFact DEF Checked
<1>3. /\ idx' = idx => idx' = [idx EXCEPT ![t] = idx[t]]
      /\ retry' = retry => retry' = [retry EXCEPT ![t] = retry[t]]
  BY <1>1, Same
<1>4. CASE back[t] = "scan" /\ answer[t]
  <2>1. pc' = [pc EXCEPT ![t] = "set"] /\ idx' = idx /\ retry' = retry /\ todo' = todo
    BY <1>4 DEF Checked, Goto
  <2> QED
    BY <1>1, <1>2, <1>3, <2>1
<1>5. CASE back[t] = "scan" /\ ~answer[t]
  <2>1. NextNode(t) /\ todo' = todo
    BY <1>5 DEF Checked
  <2>2. CASE /\ idx[t] < Len(nodes) /\ idx' = [idx EXCEPT ![t] = idx[t] + 1]
             /\ pc' = [pc EXCEPT ![t] = "scan"] /\ retry' = retry
    <3>1. idx[t] + 1 \in 1..Len(nodes) /\ idx[t] + 1 \in Nat
      BY <1>1, <1>2, <2>2
    <3> QED
      BY <1>1, <1>3, <2>1, <2>2, <3>1
  <2>3. CASE /\ idx' = [idx EXCEPT ![t] = 1] /\ retry' = [retry EXCEPT ![t] = 1]
             /\ pc' = [pc EXCEPT ![t] = "scan"]
    <3>1. 1 \in 1..Len(nodes)
      BY <1>1, <1>2
    <3> QED
      BY <1>1, <2>1, <2>3, <3>1
  <2>4. CASE pc' = [pc EXCEPT ![t] = Out(t)] /\ idx' = idx /\ retry' = retry
    BY <1>1, <1>3, <2>1, <2>4, OutFact
  <2> QED
    BY <2>1, <2>2, <2>3, <2>4 DEF NextNode, Goto
<1>6. CASE back[t] = "current" /\ answer[t]
  <2>1. pc' = [pc EXCEPT ![t] = "idle"] /\ idx' = idx /\ retry' = retry /\ todo' = todo
    BY <1>6 DEF Checked, Goto
  <2> QED
    BY <1>1, <1>3, <2>1
<1>7. CASE back[t] = "current" /\ ~answer[t]
  <2>1. Scan(t) /\ todo' = todo
    BY <1>7 DEF Checked
  <2>2. PICK l \in {Out(t), "scan"} :
          /\ pc' = [pc EXCEPT ![t] = l]
          /\ idx' = [idx EXCEPT ![t] = 1] /\ retry' = [retry EXCEPT ![t] = 0]
          /\ l = "scan" => 1 \in 1..Len(nodes)
    BY <2>1, ScanFact
  <2>3. l \in {"idle", "assert", "scan"}
    BY OutFact
  <2> QED
    BY <1>1, <2>1, <2>2, <2>3
<1>8. CASE back[t] = "first"
  <2>1. /\ pc' = [pc EXCEPT ![t] = "seed"] /\ idx' = idx /\ retry' = retry
        /\ todo' = <<>> \/ todo' = todo
    BY <1>8 DEF Checked, Goto
  <2>2. todo' \in Seq(Range(Seeds))
    BY <1>1, <2>1, EmptySeq
  <2> QED
    BY <1>1, <1>3, <1>8, <2>1, <2>2
<1> QED
  BY <1>2, <1>4, <1>5, <1>6, <1>7, <1>8

LEMMA CheckedInv ==
  ASSUME IInv, NEW t \in Threads, Checked(t)
  PROVE  IInv'
<1>1. /\ pc[t] = "hosts" /\ adding[t] = {} /\ checkLock' = NoHost /\ master' = master /\ nodes' = nodes
      /\ back' = [back EXCEPT ![t] = "idle"] /\ answer' = [answer EXCEPT ![t] = FALSE]
      /\ UNCHANGED <<adding, nodes, setVars, mconn, sconn>>
  BY DEF Checked, connVars
<1>2. PICK l \in {"set", "scan", "idle", "assert", "seed"}, i \in Nat, r \in {0, 1} :
            /\ pc' = [pc EXCEPT ![t] = l]
            /\ idx' = [idx EXCEPT ![t] = i] /\ retry' = [retry EXCEPT ![t] = r]
            /\ l \in {"set", "scan"} => i \in 1..Len(nodes)
            /\ l = "seed" => back[t] = "first"
            /\ todo' \in Seq(Range(Seeds))
  BY CheckedFact
<1>3. MonStep(t)
  <2>1. master' \in 0..Len(nodes)
    BY <1>1, TypeFact
  <2> QED
    BY <1>1, <1>2, <2>1, StatusFact, MonKeep
<1>4. l = "seed" => t = Watcher /\ ~Built
  BY <1>1, <1>2, HolderFact DEF Built
<1>5. l \in Places \ {"hosts", "slost", "sget"}
  BY DEF Places
<1> QED
  BY <1>1, <1>2, <1>3, <1>4, <1>5, LeaveStep

-----------------------------------------------------------------------------
(* The constructor adds a seed; nobody else has the monitor.               *)

LEMMA SeedInv ==
  ASSUME IInv, Seed
  PROVE  IInv'
<1>1. /\ pc[Watcher] = "seed" /\ todo # <<>> /\ todo' = Tail(todo) /\ UNCHANGED setVars
      /\ master' = master /\ checkLock' = checkLock /\ back' = back /\ retry' = retry /\ answer' = answer
      /\ adding' = adding /\ mconn' = mconn /\ sconn' = sconn
  BY DEF Seed, connVars
<1>2. /\ Watcher \in Threads /\ SetTypeOK /\ MoreTypes /\ PlaceInv(Watcher) /\ AddInv(Watcher)
      /\ idx[Watcher] \in Nat /\ retry[Watcher] \in {0, 1} /\ answer[Watcher] \in BOOLEAN
      /\ nodes \in Seq(Members) /\ Len(nodes) \in Nat /\ master \in 0..Len(nodes)
      /\ LockStep(Watcher) /\ mconn' \in [Clients -> Conn] /\ sconn' \in [Clients -> Conn]
  BY <1>1, ThreadFact, TypeFact, LockSame, ConnKeep
<1>3. /\ ~Built /\ checkLock # Watcher /\ back[Watcher] = "idle" /\ adding[Watcher] = {}
  BY <1>1, <1>2 DEF Built, PlaceInv, AddInv, MoreTypes
<1>4. \A u \in Threads \ {Watcher} : adding[u] = {}
  <2> SUFFICES ASSUME NEW u \in Threads, u # Watcher PROVE adding[u] = {}
    OBVIOUS
  <2>1. AddInv(u) /\ u \in Clients
    BY TypeFact DEF Threads
  <2>2. pc[u] = "idle"
    BY <1>3, <2>1 DEF IInv, BuiltInv
  <2> QED
    BY <2>1, <2>2 DEF AddInv
<1>5. todo' \in Seq(Range(Seeds)) /\ Head(todo) \in Range(Seeds) /\ Range(Seeds) \subseteq Members
  <2>1. todo \in Seq(Range(Seeds))
    BY <1>2 DEF MoreTypes
  <2>2. Range(Seeds) \subseteq Members
    BY SetAssumption DEF Range
  <2> QED
    BY <1>1, <2>1, <2>2, HeadTailProperties
<1>6. /\ "first" \in Places /\ "seed" \in Places /\ "idle" \in {"idle", "first", "current", "scan"}
      /\ {} \in SUBSET Members
  BY DEF Places
<1>7. CASE Head(todo) \in up
  <2>1. /\ nodes' = Append(nodes, Head(todo)) /\ ok' = Append(ok, TRUE)
        /\ idx' = [idx EXCEPT ![Watcher] = Len(nodes')] /\ pc' = [pc EXCEPT ![Watcher] = "first"]
    BY <1>7 DEF Seed, Goto
  <2>2. Head(todo) \in Members
    BY <1>5
  <2>3. MonStep(Watcher) /\ Len(nodes') = Len(nodes) + 1
    BY <1>1, <1>2, <1>4, <1>5, <2>1, <2>2, GrowStep
  <2>4. Local(Watcher, "first", "idle", Len(nodes'), retry[Watcher], answer[Watcher], {})
    BY <1>1, <1>2, <1>3, <2>1, Same DEF Local
  <2>5. Len(nodes') \in Nat /\ Len(nodes') \in 1..Len(nodes')
    BY <1>2, <2>3
  <2>6. Fits(Watcher, "first", "idle", Len(nodes'), {})
    BY <1>1, <1>3, <2>5 DEF Fits
  <2> QED
    BY <1>1, <1>2, <1>6, <2>3, <2>4, <2>5, <2>6, StepInv
<1>8. CASE Head(todo) \notin up
  <2>1. nodes' = nodes /\ ok' = ok /\ idx' = idx /\ pc' = pc
    BY <1>8 DEF Seed
  <2>2. ok' \in Seq(BOOLEAN) /\ Len(ok') = Len(nodes) /\ master' \in 0..Len(nodes)
    BY <1>1, <1>2, <2>1 DEF MoreTypes
  <2>3. MonStep(Watcher)
    BY <1>2, <1>5, <2>1, <2>2, MonKeep
  <2>4. Local(Watcher, "seed", "idle", idx[Watcher], retry[Watcher], answer[Watcher], {})
    BY <1>1, <1>2, <1>3, <2>1, Same DEF Local
  <2>5. Fits(Watcher, "seed", "idle", idx[Watcher], {})
    BY <1>1, <1>3 DEF Fits
  <2> QED
    BY <1>1, <1>2, <1>6, <2>3, <2>4, <2>5, StepInv, SMTT(30)
<1> QED
  BY <1>7, <1>8

-----------------------------------------------------------------------------

LEMMA InitInv ==
  ASSUME Init
  PROVE  IInv
<1>1. Seeds \in Seq(Range(Seeds)) /\ Len(<<>>) = 0
  <2>1. Seeds \in Seq(Members)
    BY SetAssumption
  <2>2. \A i \in 1..Len(Seeds) : Seeds[i] \in Range(Seeds)
    BY <2>1 DEF Range
  <2> QED
    BY <2>1, <2>2
<1>2. SetTypeOK
  <2>1. NoConn \in Conn
    BY DEF NoConn, Conn
  <2>2. mconn \in [Clients -> Conn] /\ sconn \in [Clients -> Conn]
    BY <2>1 DEF Init
  <2>3. pc \in [Threads -> {"seed", "idle"}] /\ answer \in [Threads -> BOOLEAN]
    BY DEF Init
  <2>4. /\ primary \in up \cup {NoHost} /\ up \subseteq Members /\ checkLock \in Threads \cup {NoHost}
        /\ nodes \in Seq(Members) /\ ok \in [1..Len(nodes) -> BOOLEAN] /\ master \in 0..Len(nodes)
    BY <1>1 DEF Init
  <2>5. pc \in [Threads -> {"idle", "seed", "first", "index", "current", "scan", "hosts", "set", "get", "assert",
                            "read", "notify", "connect", "lost", "slost", "sget"}]
    BY <2>3
  <2>6. \A t \in Threads : pc[t] \notin {"hosts", "set", "current"}
    BY <2>3
  <2> QED
    BY <2>2, <2>3, <2>4, <2>5, <2>6 DEF SetTypeOK
<1>3. MoreTypes
  BY <1>1, EmptySeq DEF Init, MoreTypes
<1>4. ListedOnce
  BY <1>1 DEF Init, ListedOnce
<1>5. BuiltInv
  BY ThreadFact DEF Init, BuiltInv
<1>6. ASSUME NEW t \in Threads PROVE PlaceInv(t) /\ AddInv(t)
  <2>1. /\ pc[t] \in {"seed", "idle"} /\ (t # Watcher => pc[t] = "idle") /\ back[t] = "idle"
        /\ adding[t] = {} /\ checkLock = NoHost /\ t # NoHost
    BY ThreadFact DEF Init
  <2> QED
    BY <2>1 DEF PlaceInv, AddInv
<1> QED
  BY <1>2, <1>3, <1>4, <1>5, <1>6 DEF IInv

LEMMA MonitorInv ==
  ASSUME IInv, NEW t \in Threads, Monitor(t)
  PROVE  IInv'
BY CheckConnectionInv, CheckHostsInv, CheckedInv, SetMasterInv DEF Monitor

LEMMA NextInv ==
  ASSUME IInv, [Next]_vars
  PROVE  IInv'
<1>1. CASE Watch
  BY <1>1, SeedInv, SeededInv, CheckInv, CheckMasterInv, MonitorInv, ThreadFact DEF Watch
<1>2. ASSUME NEW c \in Clients, Goes(c) PROVE IInv'
  <2>1. c \in Threads
    BY ThreadFact
  <2> QED
    BY <1>2, <2>1, MonitorInv, GetMasterInv, AssertMasterInv, ReadMasterInv, ConnectInv, NotifyFailureInv,
       NotifySlaveFailureInv, GetSlaveInv DEF Goes
<1>3. ASSUME NEW c \in Clients, BeginMaster(c) \/ CheckSlave(c) \/ Breaks(c) PROVE IInv'
  BY <1>3, BeginMasterInv, CheckSlaveInv, BreaksInv
<1>4. CASE World
  BY <1>4, WorldInv
<1>5. CASE UNCHANGED vars
  <2>1. /\ UNCHANGED <<monVars, checkLock, pc, checkVars>> /\ changes' = changes /\ up' = up
        /\ primary' = primary /\ mconn' = mconn /\ sconn' = sconn
    BY <1>5 DEF vars, setVars, connVars
  <2>2. changes \in Nat
    BY DEF IInv, MoreTypes
  <2> QED
    BY <2>1, <2>2, ChangeFact, ConnKeep, OutsideStep
<1> QED
  BY <1>1, <1>2, <1>3, <1>4, <1>5 DEF Next

LEMMA Invariant ==
  Spec => []IInv
<1>1. Init => IInv
  BY InitInv
<1>2. IInv /\ [Next]_vars => IInv'
  BY NextInv
<1> QED
  BY <1>1, <1>2, PTL DEF Spec

(* However many threads run checkHosts and the constructor's loop          *)
(* (dbclient_rs.cpp:83-97, :276-331), the list, its flags and the master   *)
(* fit each other and the indices that a thread took before it let go of   *)
(* the lock, and a host that is not a seed is listed once.                 *)
THEOREM HostsListedOnce ==
  Spec => []NodesInv
<1>1. IInv => NodesInv
  BY DEF IInv, NodesInv
<1> QED
  BY <1>1, Invariant, PTL

=============================================================================
