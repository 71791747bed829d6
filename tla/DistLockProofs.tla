--------------------------- MODULE DistLockProofs ---------------------------
(***************************************************************************)
(* What the distributed lock promises, for any number of processes, config *)
(* servers, faults and OIDs: as long as no unconditional write has hit a   *)
(* lock of another process it has one holder, named on every server; and   *)
(* a lock whose unlock succeeded is never found taken again.               *)
(***************************************************************************)
EXTENDS DistLock, FiniteSetTheorems, TLAPS

Seen == {0} \cup Ts \cup Procs \cup {"", "absent"}

Ops == {NoOp, [kind |-> "insert"], [kind |-> "takeover"], [kind |-> "unlock"]}
       \cup [kind : {"acquire"}, ts : Ts, seen : Seen] \cup [kind : {"force"}, ts : Ts]

(* The types that LockTypeOK leaves out.                                   *)
MoreTypes ==
    /\ op \in [Procs -> Ops] /\ seen \in [Procs -> Seen]
    /\ count \in [Procs -> Seq({0, 1, Lost})]
    /\ skew \in [Procs -> Nat] /\ now \in Nat

TypeInv == LockTypeOK /\ MoreTypes

(* Which write a process is doing, from where it is in its call.           *)
CallInv(p) ==
    /\ pc[p] \in {"idle", "taken", "acquire", "held", "dead"} => op[p] = NoOp /\ at[p] = 1
    /\ pc[p] = "compare" => op[p] = NoOp
    /\ pc[p] = "write" => op[p].kind \in {"insert", "takeover", "acquire"}
    /\ pc[p] = "won" => op[p].kind = "force"
    /\ pc[p] = "unlock" => op[p].kind = "unlock" \/ (op[p] = NoOp /\ at[p] = 1)
    /\ op[p].kind \in {"acquire", "force"} => op[p].ts = mine[p]
    /\ pc[p] \in {"compare", "held", "unlock"} => mine[p] # 0
    /\ pc[p] \notin {"unlock", "dead"} => attempted[p] = 0
    /\ pc[p] = "unlock" /\ op[p] = NoOp => attempted[p] < maxAttempts

(* A document that p has read, or may complete, is there for good.         *)
MadeInv(p) ==
    /\ best[p] # 0 => \E s \in Servers : doc[s] # NoDoc
    /\ op[p].kind = "force" =>
          \E s \in Servers : doc[s] # NoDoc /\ (s < at[p] => count[p][s] # 0)

Names(s, p) == doc[s].state = 1 /\ doc[s].ts = mine[p]

(* No write of p has been lost or found a document it did not want.        *)
NoMiss(p) == \A i \in 1..Len(count[p]) : count[p][i] = 1

(* p may still get the lock with the writes it has made.                   *)
Winning(p) == op[p].kind \in {"acquire", "force"} /\ NoMiss(p)

(* The servers that have the write of who may get the lock name it, and    *)
(* all of them name who has it.                                            *)
NamedInv(p) ==
    ~robbed => /\ Winning(p) => \A s \in 1..(at[p] - 1) : Names(s, p)
               /\ pc[p] = "held" => \A s \in Servers : Names(s, p)

(* The servers that an unlock has reached do not name p any more.          *)
UnlockInv(p) ==
    op[p].kind = "unlock" => \A s \in 1..(at[p] - 1) : count[p][s] # Lost => ~Names(s, p)

Proc(p) == CallInv(p) /\ MadeInv(p) /\ NamedInv(p) /\ UnlockInv(p)

(* A ts belongs to the process that made it, until its unlock succeeds.    *)
TsInv ==
    \A p \in Procs : mine[p] # 0 =>
        /\ mine[p] \in used \ released
        /\ \A q \in Procs : mine[q] = mine[p] => q = p

DocInv == \A s \in Servers : doc[s].process = "absent" => doc[s] = NoDoc

IInv == TypeInv /\ TsInv /\ DocInv /\ Released /\ \A p \in Procs : Proc(p)

-----------------------------------------------------------------------------
(* A step of p, seen from the outside.                                     *)

Others(p) ==
    \A q \in Procs \ {p} :
        /\ op'[q] = op[q] /\ at'[q] = at[q] /\ count'[q] = count[q]
        /\ pc'[q] = pc[q] /\ mine'[q] = mine[q] /\ best'[q] = best[q]
        /\ attempted'[q] = attempted[q]

(* It leaves the documents alone, or does its write to the next server.    *)
DocStep(p) ==
    \/ doc' = doc /\ robbed' = robbed
    \/ /\ op[p] # NoOp /\ at[p] \in Servers /\ Apply(p)
       /\ robbed' = (robbed \/ (doc' # doc /\ Victim(p, at[p])))

(* Its ts is kept, dropped or new; it is released when no server has it.   *)
TsStep(p) ==
    /\ used \subseteq used'
    /\ mine'[p] \in {0, mine[p]} \cup (used' \ used)
    /\ \/ released' = released
       \/ /\ released' = released \cup {mine[p]} /\ mine'[p] = 0 /\ doc' = doc
          /\ mine[p] # 0 /\ \A s \in Servers : ~Names(s, p)

Docs == [state : {0, 1}, ts : {0} \cup Ts, process : Procs \cup {"", "absent"}]

LEMMA OpsFact ==
  ASSUME NEW o \in Ops
  PROVE  /\ o.kind \in {"none", "insert", "takeover", "unlock", "acquire", "force"}
         /\ o = NoOp <=> o.kind = "none"
         /\ o.kind \in {"acquire", "force"} => o.ts \in Ts
  BY DEF Ops, NoOp

Places == {"idle", "taken", "acquire", "compare", "won", "held", "unlock", "write", "dead"}

LEMMA TypeFact ==
  ASSUME TypeInv, NEW p \in Procs
  PROVE  /\ op[p] \in Ops /\ pc[p] \in Places /\ at[p] \in 1..(NServers + 1)
         /\ count[p] \in Seq({0, 1, Lost}) /\ Len(count[p]) = at[p] - 1
         /\ mine[p] \in {0} \cup Ts /\ best[p] \in {0} \cup Ts /\ seen[p] \in Seen
         /\ attempted[p] \in 0..maxAttempts
  BY DEF TypeInv, LockTypeOK, MoreTypes, Places

LEMMA DocsFact ==
  ASSUME NEW n \in {0, 1}, NEW t \in {0} \cup Ts, NEW x \in Procs \cup {"", "absent"}
  PROVE  LET d == [state |-> n, ts |-> t, process |-> x]
         IN  d \in Docs /\ d.state = n /\ d.ts = t /\ d.process = x
  BY DEF Docs

(* What a write makes of a document.                                       *)
LEMMA WrittenFact ==
  ASSUME NEW p \in Procs, NEW o \in Ops, o # NoOp, NEW d \in Docs,
         d.process = "absent" => d = NoDoc,
         NEW e, Matches(d, o) => e = Written(d, o, p), ~Matches(d, o) => e = d
  PROVE  /\ e \in Docs
         /\ d # NoDoc => e # NoDoc
         /\ e.process = "absent" => e = NoDoc
         /\ \/ e = d
            \/ e.state = 0
            \/ o.kind \in {"acquire", "force"} /\ e.state = 1 /\ e.ts = o.ts
         /\ o.kind = "unlock" => e.state = 0
         /\ o.kind \in {"acquire", "force"} /\ Matches(d, o) => e.state = 1 /\ e.ts = o.ts
         /\ o.kind = "acquire" /\ d.state = 1 => e = d
         /\ o.kind = "force" /\ d # NoDoc => Matches(d, o)
<1>0. NoDoc \in Docs /\ NoDoc.state = 0 /\ NoDoc.process = "absent" /\ d.state \in {0, 1}
  BY DEF NoDoc, Docs
<1>1. CASE ~Matches(d, o)
  <2>1. o.kind \in {"unlock", "force"} => d = NoDoc
    BY <1>1, OpsFact DEF Matches
  <2> QED
    BY <1>0, <1>1, <2>1
<1>2. CASE Matches(d, o)
  <2>0. p # "absent"
    BY LockAssumption
  <2>1. CASE o.kind = "insert"
    <3>1. e = [state |-> 0, ts |-> 0, process |-> ""]
      BY <1>2, <2>1 DEF Written
    <3>2. e \in Docs
      BY <3>1, DocsFact
    <3>3. e.state = 0 /\ e.process = ""
      BY <3>1
    <3> QED
      BY <1>0, <1>2, <2>1, <3>2, <3>3
  <2>2. CASE o.kind \in {"takeover", "unlock"}
    <3>0. d # NoDoc /\ d.process # "absent"
      BY <1>2, <2>2 DEF Matches
    <3>1. e = [d EXCEPT !.state = 0]
      BY <1>2, <2>2 DEF Written
    <3>2. e \in Docs /\ e.state = 0 /\ e.process = d.process
      BY <3>1 DEF Docs
    <3> QED
      BY <1>0, <1>2, <2>2, <3>0, <3>2
  <2>3. CASE o.kind \in {"acquire", "force"}
    <3>0. d # NoDoc /\ (o.kind = "acquire" => d.state = 0)
      BY <1>2, <2>3 DEF Matches
    <3>1. e = [state |-> 1, ts |-> o.ts, process |-> p]
      BY <1>2, <2>3 DEF Written
    <3>2. e \in Docs
      BY <2>3, <3>1, OpsFact, DocsFact
    <3>3. e.state = 1 /\ e.ts = o.ts /\ e.process = p
      BY <3>1
    <3> QED
      BY <1>0, <1>2, <2>0, <2>3, <3>0, <3>2, <3>3
  <2> QED
    BY <2>1, <2>2, <2>3, OpsFact
<1> QED
  BY <1>1, <1>2

(* What a step of p does to the documents.                                 *)
LEMMA DocStepFact ==
  ASSUME TypeInv, DocInv, NEW p \in Procs, CallInv(p), DocStep(p)
  PROVE  /\ doc' \in [Servers -> Docs]
         /\ \A s \in Servers :
               /\ doc[s] # NoDoc => doc'[s] # NoDoc
               /\ doc'[s].process = "absent" => doc'[s] = NoDoc
               /\ \/ doc'[s] = doc[s]
                  \/ doc'[s].state = 0
                  \/ op[p].kind \in {"acquire", "force"} /\ doc'[s].state = 1 /\ doc'[s].ts = mine[p]
               /\ op[p].kind = "acquire" /\ doc[s].state = 1 => doc'[s] = doc[s]
               /\ s # at[p] => doc'[s] = doc[s]
<1>0. doc \in [Servers -> Docs] /\ op[p] \in Ops
  BY DEF TypeInv, LockTypeOK, MoreTypes, Docs
<1>1. CASE doc' = doc
  BY <1>0, <1>1 DEF DocInv
<1>2. CASE op[p] # NoOp /\ at[p] \in Servers /\ Apply(p)
  <2> DEFINE d == doc[at[p]]
             o == op[p]
  <2>1. PICK e : e = IF Matches(d, o) THEN Written(d, o, p) ELSE d
    OBVIOUS
  <2>2. doc' = [doc EXCEPT ![at[p]] = e]
    BY <1>2, <2>1 DEF Apply
  <2>3. d \in Docs /\ o \in Ops /\ o # NoOp /\ (d.process = "absent" => d = NoDoc)
    BY <1>0, <1>2 DEF DocInv
  <2>4. (Matches(d, o) => e = Written(d, o, p)) /\ (~Matches(d, o) => e = d)
    BY <2>1
  <2>5. o.kind \in {"acquire", "force"} => o.ts = mine[p]
    BY DEF CallInv
  <2> HIDE DEF d, o
  <2>6. /\ e \in Docs
        /\ d # NoDoc => e # NoDoc
        /\ e.process = "absent" => e = NoDoc
        /\ \/ e = d
           \/ e.state = 0
           \/ o.kind \in {"acquire", "force"} /\ e.state = 1 /\ e.ts = o.ts
        /\ o.kind = "acquire" /\ d.state = 1 => e = d
    BY <2>3, <2>4, WrittenFact
  <2>7. doc' \in [Servers -> Docs] /\ doc'[at[p]] = e /\ \A s \in Servers : s # at[p] => doc'[s] = doc[s]
    BY <1>0, <1>2, <2>2, <2>6
  <2> QED
    BY <2>5, <2>6, <2>7 DEF d, o, DocInv
<1> QED
  BY <1>1, <1>2 DEF DocStep

(* A write by another process leaves the name of who has the lock, or may  *)
(* get it, alone; or the lock has been robbed.                             *)
LEMMA NameKept ==
  ASSUME TypeInv, DocInv, NEW p \in Procs, CallInv(p), DocStep(p), ~robbed',
         NEW v \in Procs, v # p, pc[v] \notin {"unlock", "compare"}, NoMiss(v),
         NEW s \in Servers, Names(s, v)
  PROVE  ~robbed /\ doc'[s] = doc[s]
<1>0. robbed \in BOOLEAN /\ op[p] \in Ops
  BY DEF TypeInv, LockTypeOK, MoreTypes
<1>1. ~robbed
  BY <1>0 DEF DocStep
<1>2. ASSUME doc'[s] # doc[s] PROVE FALSE
  <2>1. doc' # doc /\ ~Victim(p, at[p])
    BY <1>2 DEF DocStep
  <2>2. s = at[p] /\ op[p].kind # "acquire"
    BY <1>2, DocStepFact DEF Names
  <2>3. ~ \E i \in 1..Len(count[v]) : count[v][i] # 1
    BY DEF NoMiss
  <2> QED
    BY <2>1, <2>2, <2>3, Zenon DEF Victim, Names
<1> QED
  BY <1>1, <1>2

LEMMA OtherInv ==
  ASSUME IInv, NEW p \in Procs, DocStep(p), Others(p), TypeInv', NEW q \in Procs, q # p
  PROVE  Proc(q)'
<1>0. /\ TypeInv /\ DocInv /\ CallInv(p) /\ CallInv(q) /\ MadeInv(q) /\ NamedInv(q) /\ UnlockInv(q)
      /\ TsInv
  BY DEF IInv, Proc
<1>1. /\ op'[q] = op[q] /\ at'[q] = at[q] /\ count'[q] = count[q]
      /\ pc'[q] = pc[q] /\ mine'[q] = mine[q] /\ best'[q] = best[q]
      /\ attempted'[q] = attempted[q]
  BY DEF Others
<1>2. at[q] \in Nat /\ \A s \in 1..(at[q] - 1) : s \in Servers
  <2>1. NServers \in Nat /\ at[q] \in 1..(NServers + 1)
    BY <1>0, TypeFact, ClusterAssumption
  <2> QED
    BY <2>1 DEF Servers
<1>3. CallInv(q)'
  BY <1>0, <1>1 DEF CallInv
<1>4. \A s \in Servers :
        /\ doc[s] # NoDoc => doc'[s] # NoDoc
        /\ \/ doc'[s] = doc[s]
           \/ doc'[s].state = 0
           \/ op[p].kind \in {"acquire", "force"} /\ doc'[s].state = 1 /\ doc'[s].ts = mine[p]
  BY <1>0, DocStepFact
<1>5. MadeInv(q)'
  BY <1>0, <1>1, <1>4 DEF MadeInv
<1>6. NoMiss(q)' <=> NoMiss(q)
  BY <1>1 DEF NoMiss
<1>7. NamedInv(q)'
  <2> SUFFICES ASSUME ~robbed'
               PROVE  /\ Winning(q)' => \A s \in 1..(at[q] - 1) : Names(s, q)'
                      /\ pc[q] = "held" => \A s \in Servers : Names(s, q)'
    BY <1>1 DEF NamedInv
  <2>0. ~robbed
    BY <1>0 DEF DocStep, TypeInv, LockTypeOK
  <2>1. ASSUME Winning(q)', NEW s \in 1..(at[q] - 1) PROVE Names(s, q)'
    <3>1. Winning(q) /\ NoMiss(q) /\ Names(s, q) /\ s \in Servers
      BY <1>0, <1>1, <1>2, <1>6, <2>0, <2>1 DEF Winning, NamedInv
    <3>2. pc[q] \notin {"unlock", "compare"}
      BY <1>0, <3>1 DEF Winning, CallInv, NoOp
    <3>3. doc'[s] = doc[s]
      BY <1>0, <3>1, <3>2, NameKept
    <3> QED
      BY <1>1, <3>1, <3>3 DEF Names
  <2>2. ASSUME pc[q] = "held", NEW s \in Servers PROVE Names(s, q)'
    <3>1. Names(s, q)
      BY <1>0, <2>0, <2>2 DEF NamedInv
    <3>2. NoMiss(q)
      <4>1. Len(count[q]) = 0
        BY <1>0, <2>2, TypeFact DEF CallInv
      <4> QED
        BY <4>1 DEF NoMiss
    <3>3. doc'[s] = doc[s]
      BY <1>0, <2>2, <3>1, <3>2, NameKept
    <3> QED
      BY <1>1, <3>1, <3>3 DEF Names
  <2> QED
    BY <2>1, <2>2
<1>8. UnlockInv(q)'
  <2> SUFFICES ASSUME op[q].kind = "unlock", NEW s \in 1..(at[q] - 1), count[q][s] # Lost, Names(s, q)'
               PROVE  FALSE
    BY <1>1 DEF UnlockInv
  <2>1. s \in Servers /\ ~Names(s, q)
    BY <1>0, <1>2 DEF UnlockInv
  <2>2. doc'[s].state = 1 /\ doc'[s].ts = mine[q]
    BY <1>1 DEF Names
  <2>3. doc'[s] # doc[s]
    BY <2>1, <2>2 DEF Names
  <2>4. mine[p] = mine[q]
    BY <1>4, <2>1, <2>2, <2>3
  <2>5. mine[q] # 0
    <3>1. pc[q] = "unlock"
      BY <1>0, TypeFact DEF CallInv, NoOp, Places
    <3> QED
      BY <1>0, <3>1 DEF CallInv
  <2> QED
    BY <1>0, <2>4, <2>5 DEF TsInv
<1> QED
  BY <1>3, <1>5, <1>7, <1>8 DEF Proc

(* The call of p becomes the write o, at server a and with the counts c,   *)
(* at place l, with the ts m, having seen e and b, after k attempts.       *)
Local(p, o, a, c, l, m, e, b, k) ==
    /\ op' = [op EXCEPT ![p] = o] /\ at' = [at EXCEPT ![p] = a]
    /\ count' = [count EXCEPT ![p] = c] /\ pc' = [pc EXCEPT ![p] = l]
    /\ mine' = [mine EXCEPT ![p] = m] /\ seen' = [seen EXCEPT ![p] = e]
    /\ best' = [best EXCEPT ![p] = b] /\ attempted' = [attempted EXCEPT ![p] = k]

Rest == faults' \in 0..MaxFaults /\ UNCHANGED <<skew, now>> /\ used' \subseteq Ts

LEMMA Same ==
  ASSUME TypeInv, NEW p \in Procs
  PROVE  /\ op = [op EXCEPT ![p] = op[p]] /\ at = [at EXCEPT ![p] = at[p]]
         /\ count = [count EXCEPT ![p] = count[p]] /\ pc = [pc EXCEPT ![p] = pc[p]]
         /\ mine = [mine EXCEPT ![p] = mine[p]] /\ seen = [seen EXCEPT ![p] = seen[p]]
         /\ best = [best EXCEPT ![p] = best[p]]
         /\ attempted = [attempted EXCEPT ![p] = attempted[p]]
  BY DEF TypeInv, LockTypeOK, MoreTypes

LEMMA LocalFact ==
  ASSUME TypeInv, NEW p \in Procs,
         NEW o \in Ops, NEW a \in 1..(NServers + 1), NEW c \in Seq({0, 1, Lost}), Len(c) = a - 1,
         NEW l \in Places, NEW m \in {0} \cup Ts, NEW e \in Seen, NEW b \in {0} \cup Ts,
         NEW k \in 0..maxAttempts, Local(p, o, a, c, l, m, e, b, k)
  PROVE  /\ op' \in [Procs -> Ops] /\ at' \in [Procs -> 1..(NServers + 1)]
         /\ count' \in [Procs -> Seq({0, 1, Lost})] /\ \A q \in Procs : Len(count'[q]) = at'[q] - 1
         /\ pc' \in [Procs -> Places] /\ mine' \in [Procs -> {0} \cup Ts]
         /\ seen' \in [Procs -> Seen] /\ best' \in [Procs -> {0} \cup Ts]
         /\ attempted' \in [Procs -> 0..maxAttempts]
         /\ op'[p] = o /\ at'[p] = a /\ count'[p] = c /\ pc'[p] = l /\ mine'[p] = m
         /\ best'[p] = b /\ attempted'[p] = k
         /\ Others(p)
<1>0. /\ op \in [Procs -> Ops] /\ at \in [Procs -> 1..(NServers + 1)]
      /\ count \in [Procs -> Seq({0, 1, Lost})] /\ \A q \in Procs : Len(count[q]) = at[q] - 1
      /\ pc \in [Procs -> Places] /\ mine \in [Procs -> {0} \cup Ts]
      /\ seen \in [Procs -> Seen] /\ best \in [Procs -> {0} \cup Ts]
      /\ attempted \in [Procs -> 0..maxAttempts]
  BY DEF TypeInv, LockTypeOK, MoreTypes, Places
<1>1. op' \in [Procs -> Ops] /\ op'[p] = o /\ \A q \in Procs \ {p} : op'[q] = op[q]
  BY <1>0 DEF Local
<1>2. at' \in [Procs -> 1..(NServers + 1)] /\ at'[p] = a /\ \A q \in Procs \ {p} : at'[q] = at[q]
  BY <1>0 DEF Local
<1>3. count' \in [Procs -> Seq({0, 1, Lost})] /\ count'[p] = c /\ \A q \in Procs \ {p} : count'[q] = count[q]
  BY <1>0 DEF Local
<1>4. pc' \in [Procs -> Places] /\ pc'[p] = l /\ \A q \in Procs \ {p} : pc'[q] = pc[q]
  BY <1>0 DEF Local
<1>5. mine' \in [Procs -> {0} \cup Ts] /\ mine'[p] = m /\ \A q \in Procs \ {p} : mine'[q] = mine[q]
  BY <1>0 DEF Local
<1>6. seen' \in [Procs -> Seen]
  BY <1>0 DEF Local
<1>7. best' \in [Procs -> {0} \cup Ts] /\ best'[p] = b /\ \A q \in Procs \ {p} : best'[q] = best[q]
  BY <1>0 DEF Local
<1>8. /\ attempted' \in [Procs -> 0..maxAttempts] /\ attempted'[p] = k
      /\ \A q \in Procs \ {p} : attempted'[q] = attempted[q]
  BY <1>0 DEF Local
<1>9. \A q \in Procs : Len(count'[q]) = at'[q] - 1
  BY <1>0, <1>2, <1>3
<1> QED
  BY <1>1, <1>2, <1>3, <1>4, <1>5, <1>6, <1>7, <1>8, <1>9 DEF Others

LEMMA LocalAt ==
  ASSUME TypeInv, NEW p \in Procs, NEW o, NEW a, NEW c, NEW l, NEW m, NEW e, NEW b, NEW k,
         Local(p, o, a, c, l, m, e, b, k)
  PROVE  /\ op'[p] = o /\ at'[p] = a /\ count'[p] = c /\ pc'[p] = l /\ mine'[p] = m
         /\ best'[p] = b /\ attempted'[p] = k
  BY DEF Local, TypeInv, LockTypeOK, MoreTypes

(* A step of p preserves the invariant if p itself is left in order.       *)
LEMMA StepInv ==
  ASSUME IInv, NEW p \in Procs,
         NEW o \in Ops, NEW a \in 1..(NServers + 1), NEW c \in Seq({0, 1, Lost}), Len(c) = a - 1,
         NEW l \in Places, NEW m \in {0} \cup Ts, NEW e \in Seen, NEW b \in {0} \cup Ts,
         NEW k \in 0..maxAttempts, Local(p, o, a, c, l, m, e, b, k),
         Rest, ping' = ping, DocStep(p), TsStep(p), Proc(p)'
  PROVE  IInv'
<1>0. /\ TypeInv /\ DocInv /\ TsInv /\ Released /\ CallInv(p)
      /\ released \subseteq used /\ used \subseteq Ts /\ robbed \in BOOLEAN
      /\ op[p] \in Ops /\ mine[p] \in {0} \cup Ts /\ mine \in [Procs -> {0} \cup Ts]
  BY TypeFact DEF IInv, Proc, TypeInv, LockTypeOK
<1>1. /\ op' \in [Procs -> Ops] /\ at' \in [Procs -> 1..(NServers + 1)]
      /\ count' \in [Procs -> Seq({0, 1, Lost})] /\ \A q \in Procs : Len(count'[q]) = at'[q] - 1
      /\ pc' \in [Procs -> Places] /\ mine' \in [Procs -> {0} \cup Ts]
      /\ seen' \in [Procs -> Seen] /\ best' \in [Procs -> {0} \cup Ts]
      /\ attempted' \in [Procs -> 0..maxAttempts]
      /\ mine'[p] = m
      /\ Others(p)
  BY <1>0, LocalFact
<1>2. /\ doc' \in [Servers -> Docs]
      /\ \A s \in Servers :
            /\ doc'[s].process = "absent" => doc'[s] = NoDoc
            /\ \/ doc'[s] = doc[s]
               \/ doc'[s].state = 0
               \/ op[p].kind \in {"acquire", "force"} /\ doc'[s].state = 1 /\ doc'[s].ts = mine[p]
  BY <1>0, DocStepFact
<1>3. robbed' \in BOOLEAN
  BY <1>0 DEF DocStep
<1>4. mine[p] # 0 => mine[p] \in used \ released
  BY <1>0 DEF TsInv
<1>5. 0 \notin Ts
  <2>1. MaxTs \in Nat
    BY LockAssumption
  <2> QED
    BY <2>1 DEF Ts
<1>6. op[p].kind \in {"acquire", "force"} => mine[p] # 0
  <2>1. op[p].kind \in {"acquire", "force"} => op[p].ts \in Ts
    BY <1>0, OpsFact
  <2>2. op[p].kind \in {"acquire", "force"} => op[p].ts = mine[p]
    BY <1>0 DEF CallInv
  <2> QED
    BY <1>5, <2>1, <2>2
<1>7. released' \subseteq used'
  <2>1. CASE released' = released
    BY <1>0, <2>1 DEF TsStep
  <2>2. CASE released' # released
    <3>1. released' = released \cup {mine[p]} /\ mine[p] # 0
      BY <2>2 DEF TsStep
    <3> QED
      BY <1>0, <1>4, <3>1 DEF TsStep
  <2> QED
    BY <2>1, <2>2
<1>8. TypeInv'
  <2>1. MoreTypes'
    BY <1>0, <1>1 DEF MoreTypes, Rest, TypeInv
  <2>2. LockTypeOK'
    <3>1. ping' \in [Servers -> [Procs -> Nat]]
      BY <1>0 DEF TypeInv, LockTypeOK
    <3> QED
      BY <1>1, <1>2, <1>3, <1>7, <3>1 DEF LockTypeOK, Rest, Docs, Places
  <2> QED
    BY <2>1, <2>2 DEF TypeInv
<1>9. DocInv'
  BY <1>2 DEF DocInv
<1>10. TsInv'
  <2> SUFFICES ASSUME NEW q \in Procs, mine'[q] # 0
               PROVE  /\ mine'[q] \in used' \ released'
                      /\ \A r \in Procs : mine'[r] = mine'[q] => r = q
    BY DEF TsInv
  <2>0. /\ \A r \in Procs : mine[r] # 0 => mine[r] \in used \ released
        /\ \A r, t \in Procs : mine[r] # 0 /\ mine[r] = mine[t] => r = t
        /\ \A r \in Procs : r # p => mine'[r] = mine[r]
    BY <1>0, <1>1 DEF TsInv, Others
  <2>1. used \subseteq used' /\ mine'[p] \in {0, mine[p]} \cup (used' \ used)
    BY DEF TsStep
  <2>2. \A x \in released' : x \in released \/ (x = mine[p] /\ mine'[p] = 0)
    BY DEF TsStep
  <2>3. mine'[q] \in used'
    BY <2>0, <2>1
  <2>4. mine'[q] \notin released'
    <3>1. CASE q = p
      BY <1>0, <2>0, <2>1, <2>2, <3>1
    <3>2. CASE q # p
      BY <2>0, <2>2, <3>2
    <3> QED
      BY <3>1, <3>2
  <2>5. ASSUME NEW r \in Procs, mine'[r] = mine'[q], r # q PROVE FALSE
    <3>1. CASE r = p
      BY <2>0, <2>1, <2>5, <3>1
    <3>2. CASE r # p /\ q = p
      BY <2>0, <2>1, <2>5, <3>2
    <3>3. CASE r # p /\ q # p
      BY <2>0, <2>5, <3>3
    <3> QED
      BY <3>1, <3>2, <3>3
  <2> QED
    BY <2>3, <2>4, <2>5
<1>11. Released'
  <2> SUFFICES ASSUME NEW s \in Servers, doc'[s].state = 1, doc'[s].ts \in released' PROVE FALSE
    BY DEF Released
  <2>1. CASE released' = released
    <3>1. doc'[s] = doc[s] \/ doc'[s].ts \notin released
      BY <1>2, <1>4, <1>6
    <3> QED
      BY <1>0, <2>1, <3>1 DEF Released
  <2>2. CASE released' # released
    <3>1. released' = released \cup {mine[p]} /\ doc' = doc /\ ~Names(s, p)
      BY <2>2 DEF TsStep
    <3> QED
      BY <1>0, <3>1 DEF Released, Names
  <2> QED
    BY <2>1, <2>2
<1>12. \A q \in Procs : Proc(q)'
  BY <1>1, <1>8, OtherInv
<1> QED
  BY <1>8, <1>9, <1>10, <1>11, <1>12 DEF IInv

(* A call that is at rest, begins a write or ends one.                     *)
Fits(p, o, l, m, k) ==
    \/ o = NoOp /\ l \in {"idle", "taken", "acquire"} /\ k = 0
    \/ o = NoOp /\ l = "dead"
    \/ o = NoOp /\ l = "unlock" /\ m # 0 /\ k < maxAttempts
    \/ o = NoOp /\ l = "held" /\ m # 0 /\ k = 0 /\ (~robbed' => \A s \in Servers : Names(s, p)')
    \/ o = NoOp /\ l = "compare" /\ m # 0 /\ k = 0
    \/ o.kind \in {"insert", "takeover"} /\ l = "write" /\ k = 0
    \/ o.kind = "acquire" /\ o.ts = m /\ l = "write" /\ k = 0
    \/ o.kind = "force" /\ o.ts = m /\ l = "won" /\ k = 0 /\ \E s \in Servers : doc'[s] # NoDoc
    \/ o.kind = "unlock" /\ l = "unlock" /\ m # 0

LEMMA FirstStep ==
  ASSUME IInv, NEW p \in Procs, NEW o \in Ops, NEW l \in Places, NEW m \in {0} \cup Ts,
         NEW e \in Seen, NEW b \in {0} \cup Ts, NEW k \in 0..maxAttempts,
         Local(p, o, 1, <<>>, l, m, e, b, k), Fits(p, o, l, m, k),
         b # 0 => \E s \in Servers : doc'[s] # NoDoc,
         Rest, ping' = ping, DocStep(p), TsStep(p)
  PROVE  IInv'
<1>0. TypeInv
  BY DEF IInv
<1>1. 1 \in 1..(NServers + 1) /\ <<>> \in Seq({0, 1, Lost}) /\ Len(<<>>) = 1 - 1
  BY ClusterAssumption
<1>2. /\ op'[p] = o /\ at'[p] = 1 /\ count'[p] = <<>> /\ pc'[p] = l /\ mine'[p] = m
      /\ best'[p] = b /\ attempted'[p] = k
  BY <1>0, LocalAt
<1>3. NoOp.kind = "none"
  BY DEF NoOp
<1>4. CallInv(p)'
  BY <1>2, <1>3 DEF CallInv, Fits
<1>5. MadeInv(p)'
  <2>1. op'[p].kind = "force" => \E s \in Servers : doc'[s] # NoDoc
    BY <1>2, <1>3 DEF Fits
  <2>2. \A s \in Servers : ~(s < at'[p])
    BY <1>2, ClusterAssumption DEF Servers
  <2> QED
    BY <1>2, <2>1, <2>2 DEF MadeInv
<1>6. \A s \in 1..(at'[p] - 1) : FALSE
  BY <1>2
<1>7. NamedInv(p)'
  <2>1. ~robbed' /\ pc'[p] = "held" => \A s \in Servers : Names(s, p)'
    BY <1>2 DEF Fits
  <2> QED
    BY <1>6, <2>1 DEF NamedInv
<1>8. UnlockInv(p)'
  BY <1>6 DEF UnlockInv
<1>9. Proc(p)'
  BY <1>4, <1>5, <1>7, <1>8 DEF Proc
<1> QED
  BY <1>1, <1>9, StepInv

(* A process at rest is at the first server, with no counts.               *)
LEMMA AtRest ==
  ASSUME IInv, NEW p \in Procs, at[p] = 1
  PROVE  count[p] = <<>>
<1>1. count[p] \in Seq({0, 1, Lost}) /\ Len(count[p]) = 0
  <2>1. TypeInv
    BY DEF IInv
  <2>2. count[p] \in Seq({0, 1, Lost}) /\ Len(count[p]) = at[p] - 1
    BY <2>1, TypeFact
  <2> QED
    BY <2>2
<1> QED
  BY <1>1

LEMMA OpsMembers ==
  /\ NoOp \in Ops /\ [kind |-> "insert"] \in Ops /\ [kind |-> "takeover"] \in Ops
  /\ [kind |-> "unlock"] \in Ops
  /\ \A t \in Ts : [kind |-> "force", ts |-> t] \in Ops
  /\ \A t \in Ts, e \in Seen : [kind |-> "acquire", ts |-> t, seen |-> e] \in Ops
BY DEF Ops

LEMMA Bounds ==
  /\ 0 \in 0..maxAttempts /\ maxAttempts \in Nat \ {0} /\ MaxTs \in Nat /\ 0 \notin Ts
  /\ NServers \in Nat \ {0}
<1>1. MaxTs \in Nat /\ maxAttempts \in Nat \ {0}
  BY LockAssumption, Zenon
<1> QED
  BY <1>1, ClusterAssumption DEF Ts

(* What holds of a process that is about to act.                           *)
LEMMA ProcFact ==
  ASSUME IInv, NEW p \in Procs
  PROVE  /\ TypeInv /\ CallInv(p) /\ MadeInv(p) /\ NamedInv(p) /\ UnlockInv(p)
         /\ mine[p] \in {0} \cup Ts /\ best[p] \in {0} \cup Ts /\ seen[p] \in Seen
         /\ attempted[p] \in 0..maxAttempts
         /\ used \subseteq Ts
<1>1. TypeInv /\ Proc(p)
  BY DEF IInv
<1>2. used \subseteq Ts
  BY <1>1 DEF TypeInv, LockTypeOK
<1>3. /\ mine[p] \in {0} \cup Ts /\ best[p] \in {0} \cup Ts /\ seen[p] \in Seen
      /\ attempted[p] \in 0..maxAttempts
  BY <1>1, TypeFact, Zenon
<1> QED
  BY <1>1, <1>2, <1>3 DEF Proc

LEMMA FaultFact ==
  ASSUME TypeInv, Fault \/ UNCHANGED faults
  PROVE  faults' \in 0..MaxFaults
<1>1. faults \in 0..MaxFaults
  BY DEF TypeInv, LockTypeOK
<1> QED
  BY <1>1, ClusterAssumption DEF Fault

LEMMA TryReadInv == ASSUME IInv, NEW p \in Procs, TryRead(p) PROVE IInv'
<1>0. /\ TypeInv /\ CallInv(p) /\ MadeInv(p) /\ pc[p] = "idle" /\ op[p] = NoOp /\ at[p] = 1
      /\ attempted[p] = 0 /\ mine[p] \in {0} \cup Ts /\ best[p] \in {0} \cup Ts /\ seen[p] \in Seen
      /\ used \subseteq Ts
  <2>1. pc[p] = "idle"
    BY DEF TryRead
  <2> QED
    BY <2>1, ProcFact DEF CallInv
<1>1. count[p] = <<>>
  BY <1>0, AtRest
<1>2. /\ doc' = doc /\ at' = at /\ count' = count /\ mine' = mine /\ best' = best
      /\ attempted' = attempted /\ UNCHANGED <<ping, skew, now, used, released, robbed>>
      /\ Fault \/ UNCHANGED faults
  BY DEF TryRead, Begin, ReadsFrom, worldVars
<1>3. Rest /\ DocStep(p) /\ TsStep(p) /\ (best[p] # 0 => \E s \in Servers : doc'[s] # NoDoc)
  BY <1>0, <1>2, FaultFact DEF Rest, DocStep, TsStep, MadeInv
<1>4. /\ at' = [at EXCEPT ![p] = 1] /\ count' = [count EXCEPT ![p] = <<>>]
      /\ mine' = [mine EXCEPT ![p] = mine[p]] /\ best' = [best EXCEPT ![p] = best[p]]
      /\ attempted' = [attempted EXCEPT ![p] = 0]
      /\ seen = [seen EXCEPT ![p] = seen[p]] /\ op = [op EXCEPT ![p] = NoOp]
  BY <1>0, <1>1, <1>2, Same
<1>5. 0 \in 0..maxAttempts /\ {"write", "taken", "acquire"} \subseteq Places
  BY Bounds DEF Places
<1>6. CASE op' = [op EXCEPT ![p] = [kind |-> "insert"]] /\ pc' = [pc EXCEPT ![p] = "write"] /\ seen' = seen
  <2>1. Local(p, [kind |-> "insert"], 1, <<>>, "write", mine[p], seen[p], best[p], 0)
    BY <1>4, <1>6 DEF Local
  <2>2. Fits(p, [kind |-> "insert"], "write", mine[p], 0)
    BY DEF Fits
  <2> QED
    BY <1>0, <1>2, <1>3, <1>5, <2>1, <2>2, OpsMembers, FirstStep
<1>7. CASE \E l \in {"taken", "acquire"}, e \in Seen :
              op' = op /\ pc' = [pc EXCEPT ![p] = l] /\ seen' = [seen EXCEPT ![p] = e]
  <2>0. PICK l \in {"taken", "acquire"}, e \in Seen :
              op' = op /\ pc' = [pc EXCEPT ![p] = l] /\ seen' = [seen EXCEPT ![p] = e]
    BY <1>7
  <2>1. Local(p, NoOp, 1, <<>>, l, mine[p], e, best[p], 0)
    BY <1>4, <2>0 DEF Local
  <2>2. Fits(p, NoOp, l, mine[p], 0)
    BY DEF Fits
  <2> QED
    BY <1>0, <1>2, <1>3, <1>5, <2>1, <2>2, OpsMembers, FirstStep
<1>8. \A s \in Servers : doc[s].ts \in Seen /\ doc[s].process \in Seen
  BY <1>0 DEF TypeInv, LockTypeOK, Seen
<1> QED
  BY <1>6, <1>7, <1>8 DEF TryRead, Begin, Goto

(* A step of p that leaves the documents and the history alone.            *)
LEMMA PlainStep ==
  ASSUME IInv, NEW p \in Procs, NEW o \in Ops, NEW l \in Places,
         NEW m \in {0, mine[p]}, NEW e \in Seen, NEW b \in {0, best[p]}, NEW k \in 0..maxAttempts,
         Local(p, o, 1, <<>>, l, m, e, b, k), Fits(p, o, l, m, k),
         Fault \/ UNCHANGED faults,
         UNCHANGED <<doc, ping, skew, now, used, released, robbed>>
  PROVE  IInv'
<1>0. /\ TypeInv /\ MadeInv(p) /\ used \subseteq Ts
      /\ m \in {0} \cup Ts /\ b \in {0} \cup Ts
  BY ProcFact
<1>1. Rest
  BY <1>0, FaultFact DEF Rest
<1>2. mine'[p] = m
  <2>1. mine \in [Procs -> {0} \cup Ts]
    BY <1>0 DEF TypeInv, LockTypeOK
  <2> QED
    BY <2>1 DEF Local
<1>3. DocStep(p) /\ TsStep(p)
  BY <1>2 DEF DocStep, TsStep
<1>4. b # 0 => \E s \in Servers : doc'[s] # NoDoc
  BY <1>0 DEF MadeInv
<1> QED
  BY <1>0, <1>1, <1>3, <1>4, FirstStep

(* lock_try, or unlock, is left.                                           *)
LEMMA IdleLocal ==
  ASSUME NEW p \in Procs, Idle(p), op' = [op EXCEPT ![p] = NoOp], at' = [at EXCEPT ![p] = 1],
         count' = [count EXCEPT ![p] = <<>>]
  PROVE  Local(p, NoOp, 1, <<>>, "idle", 0, 0, 0, 0) /\ Fits(p, NoOp, "idle", 0, 0)
  BY DEF Idle, Goto, Local, Fits

LEMMA IdleStep ==
  ASSUME IInv, NEW p \in Procs, Idle(p),
         op' = [op EXCEPT ![p] = NoOp], at' = [at EXCEPT ![p] = 1], count' = [count EXCEPT ![p] = <<>>],
         Fault \/ UNCHANGED faults,
         UNCHANGED <<doc, ping, skew, now, used, released, robbed>>
  PROVE  IInv'
<1>1. Local(p, NoOp, 1, <<>>, "idle", 0, 0, 0, 0) /\ Fits(p, NoOp, "idle", 0, 0)
  BY IdleLocal
<1>2. NoOp \in Ops /\ "idle" \in Places /\ 0 \in Seen /\ 0 \in 0..maxAttempts
  BY OpsMembers, Bounds DEF Places, Seen
<1> QED
  BY <1>1, <1>2, PlainStep

LEMMA LookAtPingInv == ASSUME IInv, NEW p \in Procs, LookAtPing(p) PROVE IInv'
<1>0. TypeInv /\ op[p] = NoOp /\ at[p] = 1 /\ attempted[p] = 0
  <2>1. pc[p] = "taken"
    BY DEF LookAtPing
  <2> QED
    BY <2>1, ProcFact DEF CallInv
<1>1. count[p] = <<>>
  BY <1>0, AtRest
<1>2. /\ op = [op EXCEPT ![p] = NoOp] /\ at = [at EXCEPT ![p] = 1] /\ count = [count EXCEPT ![p] = <<>>]
      /\ mine = [mine EXCEPT ![p] = mine[p]] /\ best = [best EXCEPT ![p] = best[p]]
      /\ attempted = [attempted EXCEPT ![p] = 0]
  BY <1>0, <1>1, Same
<1>3. /\ UNCHANGED <<doc, at, count, ping, skew, now, used, released, robbed>>
      /\ Fault \/ UNCHANGED faults
  BY DEF LookAtPing, Begin, ReadsFrom, worldVars
<1>4. CASE Idle(p) /\ op' = op
  BY <1>2, <1>3, <1>4, IdleStep
<1>5. CASE /\ op' = [op EXCEPT ![p] = [kind |-> "takeover"]] /\ seen' = [seen EXCEPT ![p] = 0]
           /\ pc' = [pc EXCEPT ![p] = "write"] /\ UNCHANGED <<mine, best, attempted>>
  <2>1. Local(p, [kind |-> "takeover"], 1, <<>>, "write", mine[p], 0, best[p], 0)
    BY <1>2, <1>3, <1>5 DEF Local
  <2>2. Fits(p, [kind |-> "takeover"], "write", mine[p], 0)
    BY DEF Fits
  <2>3. [kind |-> "takeover"] \in Ops /\ "write" \in Places /\ 0 \in Seen /\ 0 \in 0..maxAttempts
    BY OpsMembers, Bounds DEF Places, Seen
  <2> QED
    BY <1>3, <2>1, <2>2, <2>3, PlainStep
<1> QED
  BY <1>4, <1>5 DEF LookAtPing, Begin, Goto

LEMMA AcquireInv == ASSUME IInv, NEW p \in Procs, Acquire(p) PROVE IInv'
<1>0. /\ TypeInv /\ op[p] = NoOp /\ at[p] = 1 /\ attempted[p] = 0
      /\ MadeInv(p) /\ best[p] \in {0} \cup Ts /\ seen[p] \in Seen /\ used \subseteq Ts
  <2>1. pc[p] = "acquire"
    BY DEF Acquire
  <2> QED
    BY <2>1, ProcFact DEF CallInv
<1>1. count[p] = <<>>
  BY <1>0, AtRest
<1>2. PICK t \in Ts \ used :
        /\ used' = used \cup {t}
        /\ mine' = [mine EXCEPT ![p] = t]
        /\ op' = [op EXCEPT ![p] = [kind |-> "acquire", ts |-> t, seen |-> seen[p]]]
  BY DEF Acquire, Begin
<1>3. /\ UNCHANGED <<doc, at, count, faults, best, attempted, ping, skew, now, released, robbed>>
      /\ pc' = [pc EXCEPT ![p] = "write"] /\ seen' = [seen EXCEPT ![p] = 0]
  BY DEF Acquire, Begin, Goto, worldVars
<1> DEFINE o == [kind |-> "acquire", ts |-> t, seen |-> seen[p]]
<1>4. Local(p, o, 1, <<>>, "write", t, 0, best[p], 0)
  <2>1. /\ at = [at EXCEPT ![p] = 1] /\ count = [count EXCEPT ![p] = <<>>]
        /\ best = [best EXCEPT ![p] = best[p]] /\ attempted = [attempted EXCEPT ![p] = 0]
    BY <1>0, <1>1, Same
  <2> QED
    BY <1>2, <1>3, <2>1 DEF Local
<1>5. Fits(p, o, "write", t, 0)
  BY DEF Fits
<1>6. o \in Ops /\ "write" \in Places /\ 0 \in Seen /\ 0 \in 0..maxAttempts
  BY <1>0, OpsMembers, Bounds DEF Places, Seen
<1> HIDE DEF o
<1>7. Rest
  BY <1>0, <1>2, <1>3, FaultFact DEF Rest
<1>8. mine'[p] = t
  <2>1. mine \in [Procs -> {0} \cup Ts]
    BY <1>0 DEF TypeInv, LockTypeOK
  <2> QED
    BY <1>2, <2>1
<1>9. DocStep(p) /\ TsStep(p)
  BY <1>2, <1>3, <1>8 DEF DocStep, TsStep
<1>10. best[p] # 0 => \E s \in Servers : doc'[s] # NoDoc
  BY <1>0, <1>3 DEF MadeInv
<1>11. ping' = ping
  BY <1>3
<1> QED
  BY <1>0, <1>4, <1>5, <1>6, <1>7, <1>9, <1>10, <1>11, FirstStep

LEMMA CompareFailsInv == ASSUME IInv, NEW p \in Procs, CompareFails(p) PROVE IInv'
  BY IdleStep DEF CompareFails, Over, worldVars

LEMMA DecideInv == ASSUME IInv, NEW p \in Procs, Decide(p) PROVE IInv'
<1>0. /\ TypeInv /\ op[p] = NoOp /\ attempted[p] = 0 /\ mine[p] # 0
      /\ MadeInv(p) /\ mine[p] \in {0} \cup Ts /\ seen[p] \in Seen
  <2>1. pc[p] = "compare"
    BY DEF Decide
  <2> QED
    BY <2>1, ProcFact DEF CallInv
<1>1. /\ at' = [at EXCEPT ![p] = 1] /\ count' = [count EXCEPT ![p] = <<>>]
      /\ UNCHANGED <<doc, faults, ping, skew, now, used, released, robbed>>
  BY DEF Decide, worldVars
<1>2. CASE best[p] = mine[p]
  <2>1. /\ op' = [op EXCEPT ![p] = [kind |-> "force", ts |-> mine[p]]]
        /\ best' = [best EXCEPT ![p] = 0] /\ pc' = [pc EXCEPT ![p] = "won"]
        /\ UNCHANGED <<mine, seen, attempted>>
    BY <1>2 DEF Decide, Goto
  <2>2. /\ mine = [mine EXCEPT ![p] = mine[p]] /\ seen = [seen EXCEPT ![p] = seen[p]]
        /\ attempted = [attempted EXCEPT ![p] = 0]
    BY <1>0, Same
  <2> DEFINE o == [kind |-> "force", ts |-> mine[p]]
  <2>3. Local(p, o, 1, <<>>, "won", mine[p], seen[p], 0, 0)
    BY <1>1, <2>1, <2>2 DEF Local
  <2>4. \E s \in Servers : doc'[s] # NoDoc
    BY <1>0, <1>1, <1>2 DEF MadeInv
  <2>5. Fits(p, o, "won", mine[p], 0)
    BY <2>4 DEF Fits
  <2>6. o \in Ops /\ "won" \in Places /\ 0 \in 0..maxAttempts
    BY <1>0, OpsMembers, Bounds DEF Places
  <2> HIDE DEF o
  <2> QED
    BY <1>0, <1>1, <2>3, <2>5, <2>6, PlainStep
<1>3. CASE best[p] # mine[p]
  <2>1. Idle(p) /\ op' = op
    BY <1>3 DEF Decide
  <2>2. op = [op EXCEPT ![p] = NoOp]
    BY <1>0, Same
  <2> QED
    BY <1>1, <2>1, <2>2, IdleStep
<1> QED
  BY <1>2, <1>3

LEMMA UnlockStep == ASSUME IInv, NEW p \in Procs, Unlock(p) PROVE IInv'
<1>0. /\ TypeInv /\ CallInv(p) /\ op[p] = NoOp /\ at[p] = 1 /\ attempted[p] < maxAttempts
      /\ attempted[p] \in 0..maxAttempts /\ mine[p] # 0 /\ seen[p] \in Seen
  <2>1. pc[p] = "held" \/ (pc[p] = "unlock" /\ op[p] = NoOp)
    BY DEF Unlock
  <2>2. TypeInv /\ CallInv(p) /\ attempted[p] \in 0..maxAttempts /\ seen[p] \in Seen
    BY ProcFact
  <2>3. op[p] = NoOp /\ at[p] = 1 /\ mine[p] # 0
    BY <2>1, <2>2 DEF CallInv, NoOp
  <2>4. attempted[p] < maxAttempts
    BY <2>1, <2>2, Bounds DEF CallInv
  <2> QED
    BY <2>2, <2>3, <2>4
<1>1. count[p] = <<>>
  BY <1>0, AtRest
<1>2. /\ op' = [op EXCEPT ![p] = [kind |-> "unlock"]] /\ attempted' = [attempted EXCEPT ![p] = @ + 1]
      /\ pc' = [pc EXCEPT ![p] = "unlock"]
      /\ UNCHANGED <<doc, at, count, faults, mine, seen, best, ping, skew, now, used, released, robbed>>
  BY DEF Unlock, Begin, Goto, worldVars
<1>3. /\ at = [at EXCEPT ![p] = 1] /\ count = [count EXCEPT ![p] = <<>>]
      /\ mine = [mine EXCEPT ![p] = mine[p]] /\ best = [best EXCEPT ![p] = best[p]]
      /\ seen = [seen EXCEPT ![p] = seen[p]]
  BY <1>0, <1>1, Same
<1>4. Local(p, [kind |-> "unlock"], 1, <<>>, "unlock", mine[p], seen[p], best[p], attempted[p] + 1)
  BY <1>2, <1>3 DEF Local
<1>5. Fits(p, [kind |-> "unlock"], "unlock", mine[p], attempted[p] + 1)
  BY <1>0 DEF Fits
<1>6. [kind |-> "unlock"] \in Ops /\ "unlock" \in Places /\ attempted[p] + 1 \in 0..maxAttempts
  BY <1>0, OpsMembers, Bounds DEF Places
<1> QED
  BY <1>0, <1>2, <1>4, <1>5, <1>6, PlainStep

LEMMA CrashInv == ASSUME IInv, NEW p \in Procs, Crash(p) PROVE IInv'
<1>0. TypeInv /\ seen[p] \in Seen /\ attempted[p] \in 0..maxAttempts
  BY ProcFact
<1>1. /\ op' = [op EXCEPT ![p] = NoOp] /\ at' = [at EXCEPT ![p] = 1] /\ count' = [count EXCEPT ![p] = <<>>]
      /\ pc' = [pc EXCEPT ![p] = "dead"] /\ mine' = [mine EXCEPT ![p] = 0] /\ Fault
      /\ UNCHANGED <<doc, seen, best, attempted, ping, skew, now, used, released, robbed>>
  BY DEF Crash, Over, Goto, worldVars
<1>2. Local(p, NoOp, 1, <<>>, "dead", 0, seen[p], best[p], attempted[p])
  BY <1>0, <1>1, Same DEF Local
<1>3. Fits(p, NoOp, "dead", 0, attempted[p])
  BY DEF Fits
<1>4. NoOp \in Ops /\ "dead" \in Places
  BY OpsMembers DEF Places
<1> QED
  BY <1>0, <1>1, <1>2, <1>3, <1>4, PlainStep

(* Where a process is that does a write, and the ts it does it with.       *)
LEMMA KindFact ==
  ASSUME IInv, NEW p \in Procs, op[p] # NoOp
  PROVE  /\ op[p].kind \in {"insert", "takeover", "unlock", "acquire", "force"}
         /\ op[p].kind # "unlock" => attempted[p] = 0
         /\ op[p].kind \in {"unlock", "acquire", "force"} => mine[p] # 0
         /\ op[p].kind \in {"acquire", "force"} => op[p].ts = mine[p]
<1>0. CallInv(p) /\ op[p] \in Ops /\ pc[p] \in Places
  BY ProcFact, TypeFact
<1>1. /\ op[p].kind \in {"insert", "takeover", "unlock", "acquire", "force"}
      /\ op[p].kind \in {"acquire", "force"} => op[p].ts \in Ts
  BY <1>0, OpsFact
<1>2. pc[p] \in {"write", "won", "unlock"}
  BY <1>0 DEF CallInv, Places
<1>3. op[p].kind # "unlock" => attempted[p] = 0
  BY <1>0, <1>2 DEF CallInv
<1>4. op[p].kind \in {"acquire", "force"} => op[p].ts = mine[p]
  BY <1>0 DEF CallInv
<1>5. op[p].kind = "unlock" => mine[p] # 0
  BY <1>0, <1>2 DEF CallInv
<1> QED
  BY <1>1, <1>3, <1>4, <1>5, Bounds

(* The call goes on after an exception, or is left.                        *)
LEMMA ThrownInv ==
  ASSUME IInv, NEW p \in Procs, NEW user, op[p] # NoOp, Over(p), Thrown(p, user), DocStep(p),
         Fault \/ UNCHANGED faults, UNCHANGED <<ping, skew, now, used, released>>
  PROVE  IInv'
<1>0. /\ TypeInv /\ MadeInv(p) /\ mine[p] \in {0} \cup Ts /\ best[p] \in {0} \cup Ts /\ seen[p] \in Seen
      /\ attempted[p] \in 0..maxAttempts /\ used \subseteq Ts /\ DocInv /\ CallInv(p)
  BY ProcFact DEF IInv
<1>1. /\ op' = [op EXCEPT ![p] = NoOp] /\ at' = [at EXCEPT ![p] = 1] /\ count' = [count EXCEPT ![p] = <<>>]
  BY DEF Over
<1>2. Rest
  BY <1>0, FaultFact DEF Rest
<1>3. best[p] # 0 => \E s \in Servers : doc'[s] # NoDoc
  <2>1. \A s \in Servers : doc[s] # NoDoc => doc'[s] # NoDoc
    BY <1>0, DocStepFact
  <2> QED
    BY <1>0, <2>1 DEF MadeInv
<1>4. NoOp \in Ops /\ {"idle", "unlock", "acquire"} \subseteq Places /\ 0 \in Seen /\ 0 \in 0..maxAttempts
  BY OpsMembers, Bounds DEF Places, Seen
<1>5. mine \in [Procs -> {0} \cup Ts]
  BY <1>0 DEF TypeInv, LockTypeOK
<1>6. CASE Idle(p)
  <2>1. Local(p, NoOp, 1, <<>>, "idle", 0, 0, 0, 0) /\ Fits(p, NoOp, "idle", 0, 0)
    BY <1>1, <1>6, IdleLocal
  <2>2. mine'[p] = 0
    BY <1>5, <2>1 DEF Local
  <2>3. TsStep(p)
    BY <2>2 DEF TsStep
  <2> QED
    BY <1>2, <1>4, <2>1, <2>3, FirstStep
<1>7. CASE /\ op[p].kind = "unlock" /\ attempted[p] < maxAttempts
           /\ pc' = [pc EXCEPT ![p] = "unlock"] /\ UNCHANGED <<mine, seen, best, attempted>>
  <2>1. Local(p, NoOp, 1, <<>>, "unlock", mine[p], seen[p], best[p], attempted[p])
    BY <1>0, <1>1, <1>7, Same DEF Local
  <2>2. Fits(p, NoOp, "unlock", mine[p], attempted[p])
    BY <1>7, KindFact DEF Fits
  <2>3. TsStep(p)
    BY <1>7 DEF TsStep
  <2> QED
    BY <1>0, <1>2, <1>3, <1>4, <2>1, <2>2, <2>3, FirstStep
<1>8. CASE /\ op[p].kind = "insert" /\ pc' = [pc EXCEPT ![p] = "acquire"]
           /\ UNCHANGED <<mine, seen, best, attempted>>
  <2>1. Local(p, NoOp, 1, <<>>, "acquire", mine[p], seen[p], best[p], attempted[p])
    BY <1>0, <1>1, <1>8, Same DEF Local
  <2>2. Fits(p, NoOp, "acquire", mine[p], attempted[p])
    BY <1>8, KindFact DEF Fits
  <2>3. TsStep(p)
    BY <1>8 DEF TsStep
  <2> QED
    BY <1>0, <1>2, <1>3, <1>4, <2>1, <2>2, <2>3, FirstStep
<1> QED
  BY <1>6, <1>7, <1>8 DEF Thrown, Goto, callVars

LEMMA ThrowsInv == ASSUME IInv, NEW p \in Procs, Throws(p) PROVE IInv'
<1>0. robbed \in BOOLEAN /\ at[p] \in 1..(NServers + 1)
  BY ProcFact, TypeFact DEF TypeInv, LockTypeOK
<1>1. /\ op[p] # NoOp /\ Over(p) /\ (Fault \/ UNCHANGED faults) /\ UNCHANGED <<ping, skew, now, used, released>>
      /\ Thrown(p, TRUE) \/ Thrown(p, FALSE)
      /\ doc' = doc \/ (at[p] <= NServers /\ Apply(p))
      /\ robbed' = (robbed \/ (doc' # doc /\ Victim(p, at[p])))
  BY DEF Throws, CheckFails, WriteBreaks, worldVars
<1>2. DocStep(p)
  <2>1. CASE doc' = doc
    BY <1>0, <1>1, <2>1 DEF DocStep
  <2>2. CASE at[p] <= NServers /\ Apply(p)
    <3>1. at[p] \in Servers
      BY <1>0, <2>2, Bounds DEF Servers
    <3> QED
      BY <1>1, <2>2, <3>1 DEF DocStep
  <2> QED
    BY <1>1, <2>1, <2>2
<1> QED
  BY <1>1, <1>2, ThrownInv

(* The counts of a write that is over, when the servers agree.             *)
LEMMA AgreedFact ==
  ASSUME IInv, NEW p \in Procs, at[p] > NServers, Agreed(p), ~Missing(p)
  PROVE  /\ at[p] - 1 = NServers /\ 1 \in Servers
         /\ count[p][1] = 1 => NoMiss(p)
         /\ \A s \in Servers : count[p][s] # Lost /\ (count[p][s] # 0 => count[p][1] = 1)
<1>0. /\ at[p] \in 1..(NServers + 1) /\ Len(count[p]) = at[p] - 1 /\ NServers \in Nat \ {0}
      /\ count[p] \in Seq({0, 1, Lost})
  BY ProcFact, TypeFact, Bounds
<1>1. at[p] - 1 = NServers /\ 1 \in Servers
  BY <1>0 DEF Servers
<1>2. \A s \in Servers : count[p][s] = count[p][1]
  BY DEF Agreed
<1>3. 1..Len(count[p]) = Servers
  BY <1>0, <1>1 DEF Servers
<1>4. \A s \in Servers : count[p][s] \in {0, 1, Lost} /\ count[p][s] # Lost
  BY <1>0, <1>3 DEF Missing
<1> QED
  BY <1>1, <1>2, <1>3, <1>4 DEF NoMiss

(* A write that ends with the lock, or that goes on somewhere else.        *)
LEMMA EndStep ==
  ASSUME IInv, NEW p \in Procs, NEW l \in Places, op[p] # NoOp, Over(p), Goto(p, l),
         Fits(p, NoOp, l, mine[p], attempted[p]), UNCHANGED callVars,
         UNCHANGED <<doc, faults, ping, skew, now, used, released, robbed>>
  PROVE  IInv'
<1>0. TypeInv /\ seen[p] \in Seen /\ attempted[p] \in 0..maxAttempts
  BY ProcFact
<1>1. Local(p, NoOp, 1, <<>>, l, mine[p], seen[p], best[p], attempted[p])
  BY <1>0, Same DEF Local, Over, Goto, callVars
<1>2. NoOp \in Ops
  BY OpsMembers
<1> QED
  BY <1>0, <1>1, <1>2, PlainStep

LEMMA OverIdle ==
  ASSUME IInv, NEW p \in Procs, Idle(p), Over(p), Fault \/ UNCHANGED faults,
         UNCHANGED <<doc, ping, skew, now, used, released, robbed>>
  PROVE  IInv'
  BY IdleStep DEF Over

LEMMA EndsInv == ASSUME IInv, NEW p \in Procs, Ends(p) PROVE IInv'
<1>0. UNCHANGED <<ping, skew, now, used, robbed>>
  BY DEF Ends, worldVars
<1>p. {"acquire", "held", "compare"} \subseteq Places
  BY DEF Places
<1>1. CASE Inserted(p)
  <2>1. /\ op[p] # NoOp /\ op[p].kind = "insert" /\ Over(p) /\ Goto(p, "acquire")
        /\ UNCHANGED callVars /\ UNCHANGED <<doc, faults, released>>
    BY <1>1 DEF Inserted, Checked
  <2>2. Fits(p, NoOp, "acquire", mine[p], attempted[p])
    BY <2>1, KindFact DEF Fits
  <2> QED
    BY <1>0, <1>p, <2>1, <2>2, EndStep
<1>2. CASE TookOver(p)
  <2>1. /\ op[p] # NoOp /\ op[p].kind = "takeover" /\ Over(p)
        /\ (Goto(p, "acquire") /\ UNCHANGED callVars) \/ Idle(p)
        /\ UNCHANGED <<doc, faults, released>>
    BY <1>2 DEF TookOver, Checked
  <2>2. Fits(p, NoOp, "acquire", mine[p], attempted[p])
    BY <2>1, KindFact DEF Fits
  <2> QED
    BY <1>0, <1>p, <2>1, <2>2, EndStep, OverIdle
<1>3. CASE Acquired(p)
  <2>1. op[p].kind = "acquire" /\ at[p] > NServers /\ ~Missing(p) /\ Over(p) /\ UNCHANGED <<doc, released>>
    BY <1>3 DEF Acquired, Checked
  <2>2. op[p] # NoOp /\ mine[p] # 0 /\ attempted[p] = 0
    <3>1. op[p] # NoOp
      BY <2>1 DEF NoOp
    <3> QED
      BY <2>1, <3>1, KindFact
  <2>3. CASE Idle(p) /\ (Fault \/ UNCHANGED faults)
    BY <1>0, <2>1, <2>3, OverIdle
  <2>4. CASE Agreed(p) /\ count[p][1] = 1 /\ UNCHANGED faults /\ Goto(p, "held") /\ UNCHANGED callVars
    <3>1. Winning(p) /\ at[p] - 1 = NServers
      BY <2>1, <2>4, AgreedFact DEF Winning
    <3>2. ~robbed => \A s \in Servers : Names(s, p)
      BY <3>1, ProcFact DEF NamedInv, Servers
    <3>3. \A s \in Servers : Names(s, p)' <=> Names(s, p)
      BY <2>1, <2>4 DEF Names, callVars
    <3>4. Fits(p, NoOp, "held", mine[p], attempted[p])
      BY <1>0, <2>2, <3>2, <3>3 DEF Fits
    <3> QED
      BY <1>0, <1>p, <2>1, <2>2, <2>4, <3>4, EndStep
  <2>5. CASE UNCHANGED faults /\ Goto(p, "compare") /\ UNCHANGED callVars
    <3>1. Fits(p, NoOp, "compare", mine[p], attempted[p])
      BY <2>2 DEF Fits
    <3> QED
      BY <1>0, <1>p, <2>1, <2>2, <2>5, <3>1, EndStep
  <2> QED
    BY <1>3, <2>3, <2>4, <2>5 DEF Acquired, Checked
<1>4. CASE Forced(p)
  <2>1. /\ op[p].kind = "force" /\ op[p] # NoOp /\ at[p] > NServers /\ ~Missing(p) /\ Over(p)
        /\ UNCHANGED <<doc, faults, released>>
    BY <1>4 DEF Forced, Checked
  <2>2. mine[p] # 0 /\ attempted[p] = 0
    BY <2>1, KindFact
  <2>3. CASE Agreed(p) /\ Goto(p, "held") /\ UNCHANGED callVars
    <3>1. PICK s \in Servers : s < at[p] => count[p][s] # 0
      BY <2>1, ProcFact DEF MadeInv
    <3>2. s < at[p]
      <4>1. NServers \in Nat /\ at[p] \in 1..(NServers + 1)
        BY ProcFact, TypeFact, Bounds
      <4> QED
        BY <2>1, <4>1 DEF Servers
    <3>3. Winning(p) /\ at[p] - 1 = NServers
      BY <2>1, <2>3, <3>1, <3>2, AgreedFact DEF Winning
    <3>4. ~robbed => \A x \in Servers : Names(x, p)
      BY <3>3, ProcFact DEF NamedInv, Servers
    <3>5. \A x \in Servers : Names(x, p)' <=> Names(x, p)
      BY <2>1, <2>3 DEF Names, callVars
    <3>6. Fits(p, NoOp, "held", mine[p], attempted[p])
      BY <1>0, <2>2, <3>4, <3>5 DEF Fits
    <3> QED
      BY <1>0, <1>p, <2>1, <2>2, <2>3, <3>6, EndStep
  <2>4. CASE Idle(p)
    BY <1>0, <2>1, <2>4, OverIdle
  <2> QED
    BY <1>4, <2>3, <2>4 DEF Forced
<1>5. CASE Unlocked(p)
  <2>1. /\ op[p].kind = "unlock" /\ at[p] > NServers /\ ~Missing(p) /\ Over(p)
        /\ doc' = doc /\ (Fault \/ UNCHANGED faults)
    BY <1>5 DEF Unlocked, Checked
  <2>2. op[p] # NoOp
    BY <2>1 DEF NoOp
  <2>3. mine[p] # 0
    BY <2>1, <2>2, KindFact
  <2>4. DocStep(p)
    BY <1>0, <2>1 DEF DocStep
  <2>5. CASE Thrown(p, TRUE) /\ released' = released
    BY <1>0, <2>1, <2>2, <2>4, <2>5, ThrownInv
  <2>6. CASE Idle(p) /\ Agreed(p) /\ released' = released \cup {mine[p]}
    <3>0. TypeInv /\ UnlockInv(p) /\ used \subseteq Ts /\ mine \in [Procs -> {0} \cup Ts]
      BY ProcFact DEF TypeInv, LockTypeOK
    <3>1. \A s \in Servers : ~Names(s, p)
      BY <2>1, <2>6, <3>0, AgreedFact DEF UnlockInv, Servers
    <3>2. Local(p, NoOp, 1, <<>>, "idle", 0, 0, 0, 0) /\ Fits(p, NoOp, "idle", 0, 0)
      BY <2>1, <2>6, IdleLocal DEF Over
    <3>3. mine'[p] = 0
      BY <3>0, <3>2 DEF Local
    <3>4. TsStep(p)
      BY <1>0, <2>1, <2>3, <2>6, <3>1, <3>3 DEF TsStep
    <3>5. Rest
      BY <1>0, <2>1, <3>0, FaultFact DEF Rest
    <3>6. NoOp \in Ops /\ "idle" \in Places /\ 0 \in Seen /\ 0 \in 0..maxAttempts
      BY OpsMembers, Bounds DEF Places, Seen
    <3> QED
      BY <1>0, <2>4, <3>2, <3>4, <3>5, <3>6, FirstStep
  <2> QED
    BY <1>5, <2>5, <2>6 DEF Unlocked
<1> QED
  BY <1>1, <1>2, <1>3, <1>4, <1>5 DEF Ends

(* A write reaches the next server.                                        *)
LEMMA WriteInv == ASSUME IInv, NEW p \in Procs, Write(p) PROVE IInv'
<1>0. /\ TypeInv /\ DocInv /\ CallInv(p) /\ MadeInv(p) /\ NamedInv(p) /\ UnlockInv(p)
      /\ op[p] \in Ops /\ pc[p] \in Places /\ at[p] \in 1..(NServers + 1)
      /\ count[p] \in Seq({0, 1, Lost}) /\ Len(count[p]) = at[p] - 1
      /\ mine[p] \in {0} \cup Ts /\ best[p] \in {0} \cup Ts /\ seen[p] \in Seen
      /\ attempted[p] \in 0..maxAttempts /\ used \subseteq Ts /\ robbed \in BOOLEAN
      /\ doc \in [Servers -> Docs] /\ NServers \in Nat \ {0}
  <2>1. TypeInv /\ DocInv
    BY DEF IInv
  <2>2. robbed \in BOOLEAN /\ doc \in [Servers -> Docs]
    BY <2>1 DEF TypeInv, LockTypeOK, Docs
  <2>3. /\ op[p] \in Ops /\ pc[p] \in Places /\ at[p] \in 1..(NServers + 1)
        /\ count[p] \in Seq({0, 1, Lost}) /\ Len(count[p]) = at[p] - 1
    BY <2>1, TypeFact
  <2> QED
    BY <2>1, <2>2, <2>3, ProcFact, Bounds
<1> DEFINE n == IF Matches(doc[at[p]], op[p]) THEN 1 ELSE 0
           c == Append(count[p], n)
<1>1. /\ op[p] # NoOp /\ at[p] <= NServers /\ Apply(p)
      /\ count' = [count EXCEPT ![p] = c] /\ at' = [at EXCEPT ![p] = at[p] + 1]
      /\ robbed' = (robbed \/ (doc' # doc /\ Victim(p, at[p])))
      /\ UNCHANGED <<op, faults, pc, mine, seen, best, attempted, ping, skew, now, used, released>>
  BY DEF Write, WriteOne, callVars, worldVars
<1>2. at[p] \in Servers /\ at[p] + 1 \in 1..(NServers + 1)
  BY <1>0, <1>1 DEF Servers
<1>3. n \in {0, 1} /\ (n = 1 <=> Matches(doc[at[p]], op[p]))
  OBVIOUS
<1> HIDE DEF n
<1>4. /\ c \in Seq({0, 1, Lost}) /\ Len(c) = at[p]
      /\ c[at[p]] = n /\ \A i \in 1..(at[p] - 1) : c[i] = count[p][i]
  BY <1>0, <1>3 DEF Lost
<1> HIDE DEF c
<1>5. Local(p, op[p], at[p] + 1, c, pc[p], mine[p], seen[p], best[p], attempted[p])
  BY <1>0, <1>1, Same DEF Local
<1>6. Len(c) = (at[p] + 1) - 1
  BY <1>0, <1>4
<1>7. DocStep(p)
  BY <1>1, <1>2 DEF DocStep
<1>8. TsStep(p) /\ Rest
  BY <1>0, <1>1, FaultFact DEF TsStep, Rest
<1>9. /\ op'[p] = op[p] /\ at'[p] = at[p] + 1 /\ count'[p] = c /\ pc'[p] = pc[p] /\ mine'[p] = mine[p]
      /\ best'[p] = best[p] /\ attempted'[p] = attempted[p]
  <2>1. TypeInv
    BY <1>0
  <2> QED
    BY <1>5, <2>1, LocalAt
(* The document that is written, d before and e after.                     *)
<1> DEFINE d == doc[at[p]]
           e == doc'[at[p]]
<1>10. /\ op[p].kind = "unlock" => e.state = 0
       /\ op[p].kind \in {"acquire", "force"} /\ n = 1 => e.state = 1 /\ e.ts = mine[p]
       /\ op[p].kind = "force" /\ d # NoDoc => n = 1
       /\ \A s \in Servers : s # at[p] => doc'[s] = doc[s]
       /\ \A s \in Servers : doc[s] # NoDoc => doc'[s] # NoDoc
  <2>1. d \in Docs /\ (d.process = "absent" => d = NoDoc)
    BY <1>0, <1>2 DEF DocInv
  <2>2. (Matches(d, op[p]) => e = Written(d, op[p], p)) /\ (~Matches(d, op[p]) => e = d)
    BY <1>0, <1>1, <1>2 DEF Apply
  <2>3. op[p].kind \in {"acquire", "force"} => op[p].ts = mine[p]
    BY <1>1, KindFact
  <2> HIDE DEF e
  <2>4. /\ op[p].kind = "unlock" => e.state = 0
        /\ op[p].kind \in {"acquire", "force"} /\ Matches(d, op[p]) => e.state = 1 /\ e.ts = op[p].ts
        /\ op[p].kind = "force" /\ d # NoDoc => Matches(d, op[p])
    BY <1>0, <1>1, <2>1, <2>2, WrittenFact
  <2>5. /\ \A s \in Servers : s # at[p] => doc'[s] = doc[s]
        /\ \A s \in Servers : doc[s] # NoDoc => doc'[s] # NoDoc
    BY <1>0, <1>7, DocStepFact
  <2> QED
    BY <1>3, <2>3, <2>4, <2>5
<1> HIDE DEF d, e
<1>11. CallInv(p)'
  <2>1. pc[p] \in {"write", "won", "unlock"}
    BY <1>0, <1>1 DEF CallInv, Places
  <2> QED
    BY <1>0, <1>1, <1>9, <2>1 DEF CallInv
<1>12. MadeInv(p)'
  <2>1. best'[p] # 0 => \E s \in Servers : doc'[s] # NoDoc
    BY <1>0, <1>9, <1>10 DEF MadeInv
  <2>2. ASSUME op[p].kind = "force"
        PROVE  \E s \in Servers : doc'[s] # NoDoc /\ (s < at'[p] => count'[p][s] # 0)
    <3>1. PICK s \in Servers : doc[s] # NoDoc /\ (s < at[p] => count[p][s] # 0)
      BY <1>0, <2>2 DEF MadeInv
    <3>2. doc'[s] # NoDoc
      BY <1>10, <3>1
    <3>3. ASSUME s < at'[p] PROVE count'[p][s] # 0
      <4>1. CASE s = at[p]
        BY <1>4, <1>9, <1>10, <2>2, <3>1, <4>1 DEF d
      <4>2. CASE s # at[p]
        <5>1. s \in 1..(at[p] - 1)
          BY <1>0, <1>9, <3>3, <4>2 DEF Servers
        <5> QED
          BY <1>0, <1>4, <1>9, <3>1, <5>1
      <4> QED
        BY <4>1, <4>2
    <3> QED
      BY <3>2, <3>3
  <2> QED
    BY <1>9, <2>1, <2>2 DEF MadeInv
<1>13. 1..(at'[p] - 1) = 1..at[p] /\ \A s \in 1..at[p] : s \in Servers /\ (s = at[p] \/ s \in 1..(at[p] - 1))
  <2>1. at[p] \in 1..NServers /\ NServers \in Nat /\ at'[p] = at[p] + 1
    BY <1>0, <1>2, <1>9 DEF Servers
  <2> QED
    BY <2>1 DEF Servers
<1>14. NamedInv(p)'
  <2>1. ASSUME ~robbed', Winning(p)', NEW s \in 1..at[p] PROVE Names(s, p)'
    <3>1. ~robbed
      BY <1>0, <1>1, <2>1
    <3>2. op[p].kind \in {"acquire", "force"} /\ \A i \in 1..Len(c) : c[i] = 1
      BY <1>9, <2>1 DEF Winning, NoMiss
    <3>3. n = 1
      BY <1>0, <1>3, <1>4, <3>2
    <3>4. Winning(p)
      <4>1. \A i \in 1..Len(count[p]) : count[p][i] = 1
        BY <1>0, <1>4, <3>2
      <4> QED
        BY <3>2, <4>1 DEF Winning, NoMiss
    <3>5. CASE s = at[p]
      BY <1>9, <1>10, <3>2, <3>3, <3>5 DEF Names, e
    <3>6. CASE s # at[p]
      <4>1. s \in Servers /\ Names(s, p)
        BY <1>0, <1>13, <3>1, <3>4, <3>6 DEF NamedInv
      <4> QED
        BY <1>9, <1>10, <3>6, <4>1 DEF Names
    <3> QED
      BY <3>5, <3>6
  <2>2. pc'[p] # "held"
    BY <1>0, <1>1, <1>9 DEF CallInv
  <2> QED
    BY <1>13, <2>1, <2>2 DEF NamedInv
<1>15. UnlockInv(p)'
  <2> SUFFICES ASSUME op[p].kind = "unlock", NEW s \in 1..at[p], count'[p][s] # Lost
               PROVE  ~Names(s, p)'
    BY <1>9, <1>13 DEF UnlockInv
  <2>1. CASE s = at[p]
    BY <1>10, <2>1 DEF Names, e
  <2>2. CASE s # at[p]
    <3>1. s \in Servers /\ ~Names(s, p)
      BY <1>0, <1>4, <1>9, <1>13, <2>2 DEF UnlockInv
    <3> QED
      BY <1>9, <1>10, <2>2, <3>1 DEF Names
  <2> QED
    BY <2>1, <2>2
<1>16. Proc(p)'
  BY <1>11, <1>12, <1>14, <1>15 DEF Proc
<1> QED
  BY <1>0, <1>1, <1>2, <1>4, <1>5, <1>6, <1>7, <1>8, <1>16, StepInv

(* A write is lost on the way to the next server.                          *)
LEMMA LosesInv == ASSUME IInv, NEW p \in Procs, Loses(p) PROVE IInv'
<1>0. /\ TypeInv /\ DocInv /\ CallInv(p) /\ MadeInv(p) /\ NamedInv(p) /\ UnlockInv(p)
      /\ op[p] \in Ops /\ pc[p] \in Places /\ at[p] \in 1..(NServers + 1)
      /\ count[p] \in Seq({0, 1, Lost}) /\ Len(count[p]) = at[p] - 1
      /\ mine[p] \in {0} \cup Ts /\ best[p] \in {0} \cup Ts /\ seen[p] \in Seen
      /\ attempted[p] \in 0..maxAttempts /\ used \subseteq Ts /\ NServers \in Nat \ {0}
  <2>1. TypeInv /\ DocInv
    BY DEF IInv
  <2>2. /\ op[p] \in Ops /\ pc[p] \in Places /\ at[p] \in 1..(NServers + 1)
        /\ count[p] \in Seq({0, 1, Lost}) /\ Len(count[p]) = at[p] - 1
    BY <2>1, TypeFact
  <2> QED
    BY <2>1, <2>2, ProcFact, Bounds
<1> DEFINE c == Append(count[p], Lost)
<1>1. /\ op[p] # NoOp /\ at[p] <= NServers /\ Fault
      /\ count' = [count EXCEPT ![p] = c] /\ at' = [at EXCEPT ![p] = at[p] + 1]
      /\ UNCHANGED <<doc, op, pc, mine, seen, best, attempted, ping, skew, now, used, released, robbed>>
  BY DEF Loses, WriteLost, lockVars
<1>2. at[p] \in Servers /\ at[p] + 1 \in 1..(NServers + 1)
  BY <1>0, <1>1 DEF Servers
<1>3. /\ c \in Seq({0, 1, Lost}) /\ Len(c) = at[p] /\ Len(c) = (at[p] + 1) - 1
      /\ c[at[p]] = Lost /\ \A i \in 1..(at[p] - 1) : c[i] = count[p][i]
  BY <1>0
<1> HIDE DEF c
<1>4. Local(p, op[p], at[p] + 1, c, pc[p], mine[p], seen[p], best[p], attempted[p])
  BY <1>0, <1>1, Same DEF Local
<1>5. DocStep(p) /\ TsStep(p) /\ Rest
  BY <1>0, <1>1, FaultFact DEF DocStep, TsStep, Rest
<1>6. /\ op'[p] = op[p] /\ at'[p] = at[p] + 1 /\ count'[p] = c /\ pc'[p] = pc[p] /\ mine'[p] = mine[p]
      /\ best'[p] = best[p] /\ attempted'[p] = attempted[p]
  <2>1. TypeInv
    BY <1>0
  <2> QED
    BY <1>4, <2>1, LocalAt
<1>7. pc[p] \in {"write", "won", "unlock"}
  BY <1>0, <1>1 DEF CallInv, Places
<1>8. CallInv(p)'
  BY <1>0, <1>1, <1>6, <1>7 DEF CallInv
<1>9. MadeInv(p)'
  <2>1. ASSUME NEW s \in Servers, s < at[p] => count[p][s] # 0 PROVE s < at'[p] => c[s] # 0
    <3>1. s < at'[p] => s = at[p] \/ s \in 1..(at[p] - 1)
      BY <1>0, <1>6 DEF Servers
    <3>2. c[at[p]] # 0
      BY <1>3 DEF Lost
    <3>3. ASSUME s \in 1..(at[p] - 1) PROVE s < at[p] /\ c[s] = count[p][s]
      BY <1>0, <1>3, <3>3
    <3> QED
      BY <2>1, <3>1, <3>2, <3>3
  <2> QED
    BY <1>0, <1>1, <1>6, <2>1 DEF MadeInv
<1>10. NamedInv(p)'
  <2>1. ~NoMiss(p)'
    BY <1>0, <1>3, <1>6 DEF NoMiss, Lost
  <2> QED
    BY <1>6, <1>7, <2>1 DEF NamedInv, Winning
<1>11. UnlockInv(p)'
  <2> SUFFICES ASSUME op[p].kind = "unlock", NEW s \in 1..(at'[p] - 1), c[s] # Lost
               PROVE  ~Names(s, p)'
    BY <1>6 DEF UnlockInv
  <2>1. s \in 1..(at[p] - 1)
    BY <1>0, <1>3, <1>6
  <2> QED
    BY <1>0, <1>1, <1>3, <1>6, <2>1 DEF UnlockInv, Names
<1>12. Proc(p)'
  BY <1>8, <1>9, <1>10, <1>11 DEF Proc
<1> QED
  BY <1>0, <1>1, <1>2, <1>3, <1>4, <1>5, <1>12, StepInv

LEMMA CompareInv == ASSUME IInv, NEW p \in Procs, Compare(p) PROVE IInv'
<1>0. /\ TypeInv /\ DocInv /\ CallInv(p) /\ MadeInv(p) /\ pc[p] = "compare"
      /\ op[p] = NoOp /\ op[p] \in Ops /\ pc[p] \in Places /\ at[p] \in 1..(NServers + 1)
      /\ count[p] \in Seq({0, 1, Lost}) /\ Len(count[p]) = at[p] - 1
      /\ mine[p] \in {0} \cup Ts /\ best[p] \in {0} \cup Ts /\ seen[p] \in Seen
      /\ attempted[p] \in 0..maxAttempts /\ used \subseteq Ts
      /\ doc \in [Servers -> Docs] /\ NServers \in Nat \ {0}
  <2>1. TypeInv /\ DocInv /\ pc[p] = "compare" /\ CallInv(p)
    BY ProcFact DEF IInv, Compare
  <2>2. doc \in [Servers -> Docs] /\ op[p] = NoOp
    BY <2>1 DEF TypeInv, LockTypeOK, Docs, CallInv
  <2>3. /\ op[p] \in Ops /\ pc[p] \in Places /\ at[p] \in 1..(NServers + 1)
        /\ count[p] \in Seq({0, 1, Lost}) /\ Len(count[p]) = at[p] - 1
    BY <2>1, TypeFact
  <2> QED
    BY <2>1, <2>2, <2>3, ProcFact, Bounds
<1> DEFINE b == Greater(best[p], doc[at[p]].ts)
           c == Append(count[p], 0)
<1>1. /\ at[p] <= NServers /\ best' = [best EXCEPT ![p] = b]
      /\ at' = [at EXCEPT ![p] = at[p] + 1] /\ count' = [count EXCEPT ![p] = c]
      /\ UNCHANGED <<doc, op, faults, pc, mine, seen, attempted, ping, skew, now, used, released, robbed>>
  BY DEF Compare, worldVars
<1>2. at[p] \in Servers /\ at[p] + 1 \in 1..(NServers + 1)
  BY <1>0, <1>1 DEF Servers
<1>3. c \in Seq({0, 1, Lost}) /\ Len(c) = (at[p] + 1) - 1
  BY <1>0
<1>4. b \in {0} \cup Ts /\ (b = best[p] \/ b = doc[at[p]].ts)
  BY <1>0, <1>2 DEF Greater, Docs
<1> HIDE DEF b, c
<1>5. Local(p, op[p], at[p] + 1, c, pc[p], mine[p], seen[p], b, attempted[p])
  BY <1>0, <1>1, Same DEF Local
<1>6. DocStep(p) /\ TsStep(p) /\ Rest
  BY <1>0, <1>1, FaultFact DEF DocStep, TsStep, Rest
<1>7. /\ op'[p] = NoOp /\ pc'[p] = "compare" /\ mine'[p] = mine[p]
      /\ best'[p] = b /\ attempted'[p] = attempted[p]
  <2>1. TypeInv /\ op[p] = NoOp /\ pc[p] = "compare"
    BY <1>0
  <2> QED
    BY <1>5, <2>1, LocalAt
<1>8. NoOp.kind = "none"
  BY DEF NoOp
<1>9. CallInv(p)'
  BY <1>0, <1>7, <1>8 DEF CallInv
<1>10. MadeInv(p)'
  <2>1. ASSUME b # 0 PROVE \E s \in Servers : doc[s] # NoDoc
    <3>1. CASE b = best[p]
      BY <1>0, <2>1, <3>1 DEF MadeInv
    <3>2. CASE b = doc[at[p]].ts
      BY <1>2, <2>1, <3>2 DEF NoDoc
    <3> QED
      BY <1>4, <3>1, <3>2
  <2> QED
    BY <1>1, <1>7, <1>8, <2>1 DEF MadeInv
<1>11. NamedInv(p)' /\ UnlockInv(p)'
  BY <1>7, <1>8 DEF NamedInv, Winning, UnlockInv
<1>12. Proc(p)'
  BY <1>9, <1>10, <1>11 DEF Proc
<1> QED
  BY <1>0, <1>1, <1>2, <1>3, <1>4, <1>5, <1>6, <1>12, StepInv

-----------------------------------------------------------------------------
(* The pinger and the clock touch no lock.                                 *)

LEMMA QuietInv ==
  ASSUME IInv, UNCHANGED <<doc, op, at, count, pc, mine, seen, best, attempted, skew>>,
         UNCHANGED <<used, released, robbed>>, faults' \in 0..MaxFaults, now' \in Nat,
         ping' \in [Servers -> [Procs -> Nat]]
  PROVE  IInv'
<1>0. TypeInv /\ TsInv /\ DocInv /\ Released /\ \A p \in Procs : Proc(p)
  BY DEF IInv
<1>1. TypeInv'
  <2>1. MoreTypes'
    BY <1>0 DEF TypeInv, MoreTypes
  <2>2. LockTypeOK'
    BY <1>0 DEF TypeInv, LockTypeOK
  <2> QED
    BY <2>1, <2>2 DEF TypeInv
<1>2. TsInv' /\ DocInv' /\ Released'
  BY <1>0 DEF TsInv, DocInv, Released
<1>3. ASSUME NEW p \in Procs PROVE Proc(p)'
  <2>0. CallInv(p) /\ MadeInv(p) /\ NamedInv(p) /\ UnlockInv(p)
    BY <1>0 DEF Proc
  <2>1. CallInv(p)'
    BY <2>0 DEF CallInv
  <2>2. MadeInv(p)'
    BY <2>0 DEF MadeInv
  <2>3. \A s \in Servers \cup 1..(at[p] - 1) : Names(s, p)' <=> Names(s, p)
    BY DEF Names
  <2>4. Winning(p)' <=> Winning(p)
    BY DEF Winning, NoMiss
  <2>5. NamedInv(p)'
    BY <2>0, <2>3, <2>4 DEF NamedInv
  <2>6. UnlockInv(p)'
    BY <2>0, <2>3 DEF UnlockInv
  <2> QED
    BY <2>1, <2>2, <2>5, <2>6 DEF Proc
<1> QED
  BY <1>1, <1>2, <1>3 DEF IInv

LEMMA PingInv == ASSUME IInv, NEW p \in Procs, Ping(p) PROVE IInv'
<1>0. /\ TypeInv /\ now \in Nat /\ skew \in [Procs -> Nat] /\ ping \in [Servers -> [Procs -> Nat]]
  BY ProcFact DEF TypeInv, LockTypeOK, MoreTypes
<1>1. /\ UNCHANGED <<doc, op, at, count, pc, mine, seen, best, attempted, skew, now, used, released, robbed>>
      /\ Fault \/ UNCHANGED faults
      /\ \E k \in Servers :
            ping' = [s \in Servers |-> IF s <= k THEN [ping[s] EXCEPT ![p] = Clock(p)] ELSE ping[s]]
  BY DEF Ping, callVars
<1>2. Clock(p) \in Nat
  BY <1>0 DEF Clock
<1>3. ping' \in [Servers -> [Procs -> Nat]]
  <2>1. PICK k \in Servers :
          ping' = [s \in Servers |-> IF s <= k THEN [ping[s] EXCEPT ![p] = Clock(p)] ELSE ping[s]]
    BY <1>1
  <2>2. \A s \in Servers : ping[s] \in [Procs -> Nat] /\ [ping[s] EXCEPT ![p] = Clock(p)] \in [Procs -> Nat]
    BY <1>0, <1>2
  <2> QED
    BY <2>1, <2>2
<1>4. faults' \in 0..MaxFaults
  BY <1>0, <1>1, FaultFact
<1> QED
  BY <1>0, <1>1, <1>3, <1>4, QuietInv

LEMMA TickInv == ASSUME IInv, Tick PROVE IInv'
<1>0. TypeInv /\ now \in Nat /\ faults \in 0..MaxFaults /\ ping \in [Servers -> [Procs -> Nat]]
  BY DEF IInv, TypeInv, LockTypeOK, MoreTypes
<1>1. /\ UNCHANGED <<doc, op, at, count, faults, pc, mine, seen, best, attempted, ping, skew>>
      /\ UNCHANGED <<used, released, robbed>> /\ now' = now + 1
  BY DEF Tick, clusterVars, callVars
<1> QED
  BY <1>0, <1>1, QuietInv

LEMMA InitInv == ASSUME Init PROVE IInv
<1>0. /\ doc = [s \in Servers |-> NoDoc] /\ op = [p \in Procs |-> NoOp] /\ at = [p \in Procs |-> 1]
      /\ count = [p \in Procs |-> <<>>] /\ faults = 0
      /\ pc = [p \in Procs |-> "idle"] /\ mine = [p \in Procs |-> 0] /\ seen = [p \in Procs |-> 0]
      /\ best = [p \in Procs |-> 0] /\ attempted = [p \in Procs |-> 0]
      /\ ping = [s \in Servers |-> [p \in Procs |-> 0]]
      /\ skew \in Skews /\ now = 0 /\ used = {} /\ released = {} /\ robbed = FALSE
  BY DEF Init, ClusterInit, NoPing
<1>1. NoDoc \in Docs /\ NoDoc.state = 0 /\ NoDoc.process = "absent" /\ NoOp.kind = "none" /\ NoOp \in Ops
  BY OpsMembers DEF NoDoc, Docs, NoOp
<1>2. Skews \subseteq [Procs -> Nat] /\ MaxFaults \in Nat /\ 0 \in 0..maxAttempts /\ NServers \in Nat \ {0}
  BY LockAssumption, ClusterAssumption, Bounds, Zenon
<1>3. TypeInv
  <2>1. op \in [Procs -> Ops] /\ doc \in [Servers -> Docs]
    BY <1>0, <1>1
  <2>2. seen \in [Procs -> Seen]
    BY <1>0 DEF Seen
  <2>3. count \in [Procs -> Seq({0, 1, Lost})]
    BY <1>0
  <2>4. skew \in [Procs -> Nat] /\ now \in Nat
    BY <1>0, <1>2
  <2>5. ASSUME NEW p \in Procs PROVE Len(count[p]) = at[p] - 1
    <3>1. count[p] = <<>> /\ at[p] = 1
      BY <1>0
    <3> QED
      BY <3>1
  <2>6. at \in [Procs -> 1..(NServers + 1)] /\ faults \in 0..MaxFaults
    BY <1>0, <1>2
  <2>7. /\ pc \in [Procs -> Places] /\ mine \in [Procs -> {0} \cup Ts] /\ best \in [Procs -> {0} \cup Ts]
        /\ attempted \in [Procs -> 0..maxAttempts]
    BY <1>0, <1>2 DEF Places
  <2>8. ping \in [Servers -> [Procs -> Nat]]
    BY <1>0
  <2>9. used \subseteq Ts /\ released \subseteq used /\ robbed \in BOOLEAN
    BY <1>0
  <2> QED
    BY <2>1, <2>2, <2>3, <2>4, <2>5, <2>6, <2>7, <2>8, <2>9
       DEF TypeInv, MoreTypes, LockTypeOK, Docs, Places
<1>4. TsInv /\ DocInv /\ Released
  BY <1>0, <1>1 DEF TsInv, DocInv, Released
<1>5. ASSUME NEW p \in Procs PROVE Proc(p)
  <2>1. CallInv(p)
    BY <1>0, <1>1 DEF CallInv
  <2>2. MadeInv(p)
    BY <1>0, <1>1 DEF MadeInv
  <2>3. NamedInv(p) /\ UnlockInv(p)
    BY <1>0, <1>1 DEF NamedInv, Winning, UnlockInv
  <2> QED
    BY <2>1, <2>2, <2>3 DEF Proc
<1> QED
  BY <1>3, <1>4, <1>5 DEF IInv

LEMMA NextInv == ASSUME IInv, [Next]_vars PROVE IInv'
<1>1. ASSUME NEW p \in Procs,
             \/ LockTry(p) \/ Unlock(p) \/ Write(p) \/ Loses(p) \/ Throws(p) \/ Ends(p)
             \/ Ping(p) \/ Crash(p)
      PROVE  IInv'
  BY <1>1, TryReadInv, LookAtPingInv, AcquireInv, CompareInv, CompareFailsInv, DecideInv,
     UnlockStep, WriteInv, LosesInv, ThrowsInv, EndsInv, PingInv, CrashInv DEF LockTry
<1>2. CASE UNCHANGED vars
  <2>1. /\ UNCHANGED <<doc, op, at, count, faults, pc, mine, seen, best, attempted, ping, skew, now>>
        /\ UNCHANGED <<used, released, robbed>>
    BY <1>2 DEF vars, clusterVars, lockVars
  <2>2. now \in Nat /\ faults \in 0..MaxFaults /\ ping \in [Servers -> [Procs -> Nat]]
    BY DEF IInv, TypeInv, LockTypeOK, MoreTypes
  <2> QED
    BY <2>1, <2>2, QuietInv
<1> QED
  BY <1>1, <1>2, TickInv DEF Next

LEMMA Invariant == Spec => []IInv
<1>1. Init => IInv
  BY InitInv
<1>2. IInv /\ [Next]_vars => IInv'
  BY NextInv
<1> QED
  BY <1>1, <1>2, PTL DEF Spec

LEMMA RecordedFact == ASSUME IInv PROVE HolderRecorded
<1> SUFFICES ASSUME ~robbed, NEW p \in Holders, NEW s \in Servers
             PROVE  doc[s].state = 1 /\ doc[s].ts = mine[p]
  BY DEF HolderRecorded
<1>1. p \in Procs /\ pc[p] = "held"
  BY DEF Holders
<1>2. NamedInv(p)
  BY <1>1, ProcFact
<1> QED
  BY <1>1, <1>2 DEF NamedInv, Names

LEMMA OneHolderFact == ASSUME IInv PROVE OneHolder
<1> SUFFICES ASSUME ~robbed PROVE Cardinality(Holders) <= 1
  BY DEF OneHolder
<1>1. ASSUME NEW p \in Holders, NEW q \in Holders PROVE p = q
  <2>1. p \in Procs /\ q \in Procs /\ pc[p] = "held"
    BY DEF Holders
  <2>2. 1 \in Servers
    BY Bounds DEF Servers
  <2>3. mine[p] = mine[q]
    BY <2>2, RecordedFact DEF HolderRecorded
  <2>4. mine[p] # 0
    BY <2>1, ProcFact DEF CallInv
  <2> QED
    BY <2>1, <2>3, <2>4 DEF IInv, TsInv
<1>2. CASE Holders = {}
  BY <1>2, FS_EmptySet
<1>3. CASE Holders # {}
  <2>1. PICK h : h \in Holders
    BY <1>3
  <2>2. Holders = {h}
    BY <1>1, <2>1
  <2> QED
    BY <2>2, FS_Singleton
<1> QED
  BY <1>2, <1>3

(* Until an unconditional write has hit a lock of another process, every   *)
(* config server names the process that holds the lock; and every variable *)
(* has its type (lock_try, distlock.cpp:260-303).                          *)
THEOREM HolderIsNamed == Spec => []LockInv
<1>1. IInv => LockInv
  BY RecordedFact DEF IInv, TypeInv, LockInv
<1> QED
  BY <1>1, Invariant, PTL

(* And no second process holds it: the conditional update and the          *)
(* comparison of the ts let one through, whatever fails, whoever dies and  *)
(* however many config servers and processes there are                     *)
(* (distlock.cpp:260-303).                                                 *)
THEOREM LockHasOneHolder == Spec => []OneHolder
<1>1. IInv => OneHolder
  BY OneHolderFact
<1> QED
  BY <1>1, Invariant, PTL

(* A lock whose unlock succeeded is free on all servers, for good: no ts   *)
(* that was released is ever in a document that is taken                   *)
(* (distlock.cpp:312-325).                                                 *)
THEOREM UnlockIsForGood == Spec => []Released
<1>1. IInv => Released
  BY DEF IInv
<1> QED
  BY <1>1, Invariant, PTL

=============================================================================
