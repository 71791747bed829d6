-------------------------- MODULE TaskServerProofs --------------------------
(***************************************************************************)
(* TLAPS proofs about TaskServer: messages start in the order they came    *)
(* and run again only when they asked to; a call returns after its message *)
(* has run.                                                                *)
(***************************************************************************)
EXTENDS TaskServer, SequenceTheorems, TLAPS

Queued(m) == \E i \in 1..Len(d) : d[i] = m

(* The message has run, and doWork is not done with it.                    *)
Finishing == at \in {"done", "notify", "after"}

(* Types that TSTypeOK leaves out, and where the calls are.                *)
CallInv ==
    /\ runs \in [Msgs -> Nat] /\ asked \in [Msgs -> Nat]
    /\ \A i \in 1..Len(d) : d[i] \in 1..sent
    /\ \A m \in Msgs : m > sent => runs[m] = 0
    /\ Finishing => f \in 1..sent /\ runs[f] > 0
    /\ at = "done" => f \in calls \cap ended
    /\ calls \ frames \subseteq done /\ done \subseteq ended

(* The messages that have not run yet are in the queue, in order, or the   *)
(* oldest of them is being run.                                            *)
FreshInv ==
    /\ \A m \in 1..sent : runs[m] = 0 => Queued(m) \/ (at = "run" /\ f = m)
    /\ \A i, j \in 1..Len(d) : runs[d[i]] = 0 /\ runs[d[j]] = 0 /\ i < j => d[i] < d[j]
    /\ at = "run" /\ runs[f] = 0 => \A i \in 1..Len(d) : runs[d[i]] = 0 => f < d[i]

(* The message will run (again): it is queued, at its start, or has asked. *)
Due(m) == Queued(m) \/ (at = "run" /\ f = m) \/ (Finishing /\ rq /\ f = m)

(* Without a message that asks and throws, a message is due once at most,  *)
(* and one request for each run but the first has been made.               *)
AskInv == ~stray =>
    /\ rq => Finishing
    /\ \A i, j \in 1..Len(d) : d[i] = d[j] => i = j
    /\ at = "run" \/ (Finishing /\ rq) => ~Queued(f)
    /\ \A m \in Msgs : runs[m] + (IF Due(m) THEN 1 ELSE 0) <= 1 + asked[m]

IInv == TSTypeOK /\ CallInv /\ FreshInv /\ FirstRunsInOrder /\ AskInv

-----------------------------------------------------------------------------
(* The queue.                                                              *)

LEMMA AppendQueue ==
  ASSUME d \in Seq(Msgs), NEW m \in Msgs, d' = Append(d, m)
  PROVE  /\ d' \in Seq(Msgs) /\ Len(d) \in Nat /\ Len(d') = Len(d) + 1
         /\ \A i \in 1..Len(d) : d'[i] = d[i]
         /\ d'[Len(d) + 1] = m
         /\ \A i \in 1..Len(d') : i \in 1..Len(d) \/ i = Len(d) + 1
         /\ \A k : Queued(k)' <=> Queued(k) \/ k = m
<1>1. /\ d' \in Seq(Msgs) /\ Len(d) \in Nat /\ Len(d') = Len(d) + 1
      /\ \A i \in 1..Len(d) : d'[i] = d[i]
      /\ d'[Len(d) + 1] = m
  BY AppendProperties, LenProperties
<1>2. /\ \A i \in 1..Len(d') : i \in 1..Len(d) \/ i = Len(d) + 1
      /\ \A i \in 1..Len(d) : i \in 1..Len(d')
      /\ Len(d) + 1 \in 1..Len(d')
  BY <1>1
<1> QED
  BY <1>1, <1>2 DEF Queued

LEMMA TailQueue ==
  ASSUME d \in Seq(Msgs), d # <<>>, d' = Tail(d)
  PROVE  /\ d' \in Seq(Msgs) /\ Len(d) \in Nat \ {0} /\ Len(d') = Len(d) - 1
         /\ Head(d) = d[1] /\ 1 \in 1..Len(d) /\ Head(d) \in Msgs
         /\ \A i \in 1..Len(d') : i + 1 \in 1..Len(d) /\ d'[i] = d[i + 1]
         /\ \A k : Queued(k) <=> Queued(k)' \/ k = Head(d)
<1>1. /\ d' \in Seq(Msgs) /\ Len(d) \in Nat \ {0} /\ Len(d') = Len(d) - 1
      /\ \A i \in 1..Len(d') : d'[i] = d[i + 1]
      /\ Head(d) = d[1] /\ Head(d) \in Msgs
  BY HeadTailProperties, EmptySeq
<1>2. 1 \in 1..Len(d) /\ \A i \in 1..Len(d') : i + 1 \in 1..Len(d)
  BY <1>1
<1>3. ASSUME NEW k PROVE Queued(k) <=> Queued(k)' \/ k = Head(d)
  <2>1. ASSUME NEW i \in 1..Len(d), d[i] = k, k # Head(d) PROVE Queued(k)'
    <3>1. i # 1
      BY <1>1, <2>1
    <3>2. i - 1 \in 1..Len(d') /\ d'[i - 1] = k
      BY <1>1, <2>1, <3>1
    <3> QED
      BY <3>2 DEF Queued
  <2>2. Queued(k)' \/ k = Head(d) => Queued(k)
    BY <1>1, <1>2 DEF Queued
  <2> QED
    BY <2>1, <2>2 DEF Queued
<1> QED
  BY <1>1, <1>2, <1>3

LEMMA InitInv == Init => IInv
<1> SUFFICES ASSUME Init PROVE IInv
  OBVIOUS
<1>1. d \in Seq(Msgs) /\ Len(d) = 0 /\ \A m : ~Queued(m)
  BY DEF Init, Queued
<1>2. TSTypeOK
  <2>1. rq \in BOOLEAN
    BY Zenon DEF Init
  <2> QED
    BY <1>1, <2>1, ServerAssumption DEF Init, TSTypeOK
<1>3. CallInv /\ FreshInv /\ FirstRunsInOrder
  BY <1>1 DEF Init, CallInv, FreshInv, FirstRunsInOrder, Finishing
<1>4. AskInv
  BY <1>1 DEF Init, AskInv, Due, Finishing
<1> QED
  BY <1>2, <1>3, <1>4 DEF IInv

-----------------------------------------------------------------------------
(* The actions.                                                            *)

(* Steps that neither queue nor run a message.                             *)
LEMMA QuietStep ==
  ASSUME IInv, UNCHANGED <<d, f, rq, msg, sent, calls, ended, runs, asked, stray>>,
         TSTypeOK', done' \subseteq ended, calls \ frames' \subseteq done',
         \/ at' = at
         \/ at \in {"test", "asleep"} /\ at' \in {"test", "asleep"}
         \/ Finishing /\ at' \in {"notify", "after"}
  PROVE  IInv'
<1>0. TSTypeOK /\ CallInv /\ FreshInv /\ FirstRunsInOrder /\ AskInv
  BY DEF IInv
<1>1. \A m : Queued(m)' <=> Queued(m)
  BY DEF Queued
<1>2. (Finishing' <=> Finishing) /\ (at' = "run" <=> at = "run") /\ (at' = "done" => at = "done")
  BY DEF Finishing
<1>3. CallInv'
  BY <1>0, <1>2 DEF CallInv
<1>4. FreshInv'
  BY <1>0, <1>1, <1>2 DEF FreshInv
<1>5. FirstRunsInOrder'
  BY <1>0 DEF FirstRunsInOrder
<1>6. AskInv'
  BY <1>0, <1>1, <1>2 DEF AskInv, Due
<1> QED
  BY <1>3, <1>4, <1>5, <1>6 DEF IInv

LEMMA PushInv == ASSUME IInv, NEW c \in Callers, Push(c) PROVE IInv'
<1> DEFINE n == sent + 1
<1>0. /\ TSTypeOK /\ CallInv /\ FreshInv /\ FirstRunsInOrder /\ AskInv
      /\ sent \in Nat /\ sent < MaxMsgs /\ sent' = n /\ d' = Append(d, n)
      /\ n \in Msgs /\ n \in Nat /\ n > sent /\ MaxMsgs \in Nat
      /\ UNCHANGED <<at, f, rq, done, missed, ended, threw, runs, asked, stray, touched>>
      /\ msg' = [msg EXCEPT ![c] = n] /\ pc' = [pc EXCEPT ![c] = "notify"]
  BY ServerAssumption DEF IInv, Push, TSTypeOK, Msgs, histVars
<1>a. /\ calls \subseteq calls' /\ calls' \subseteq calls \cup {n}
      /\ frames' \subseteq calls' /\ calls' \ frames' \subseteq calls \ frames
  <2>1. \/ calls' = calls \cup {n} /\ frames' = frames \cup {n}
        \/ calls' = calls /\ frames' = frames
    BY <1>0 DEF Push
  <2> QED
    BY <1>0, <2>1 DEF TSTypeOK
<1>1. /\ d' \in Seq(Msgs) /\ Len(d) \in Nat /\ Len(d') = Len(d) + 1
      /\ \A i \in 1..Len(d) : d'[i] = d[i]
      /\ d'[Len(d) + 1] = n
      /\ \A i \in 1..Len(d') : i \in 1..Len(d) \/ i = Len(d) + 1
      /\ \A k : Queued(k)' <=> Queued(k) \/ k = n
  BY <1>0, AppendQueue DEF TSTypeOK
<1>2. \A m \in 1..sent' : m \in 1..sent \/ m = n
  BY <1>0
<1>3. \A m \in 1..sent : m \in 1..sent' /\ m # n /\ m < n /\ m \in Msgs
  BY <1>0 DEF Msgs
<1>4. \A i \in 1..Len(d) : d[i] \in 1..sent /\ d[i] # n /\ d[i] < n
  BY <1>0, <1>3 DEF CallInv
<1> HIDE DEF n
<1>5. TSTypeOK'
  <2>1. msg' \in [Callers -> 0..sent']
    BY <1>0 DEF TSTypeOK
  <2>2. calls' \subseteq 1..sent' /\ n \in 1..sent'
    <3>1. n \in 1..sent' /\ calls \subseteq 1..sent
      BY <1>0 DEF TSTypeOK
    <3> QED
      BY <1>a, <1>3, <3>1
  <2>3. sent' \in 0..MaxMsgs
    BY <1>0 DEF Msgs
  <2>4. pc' \in [Callers -> {"idle", "notify", "check", "towait", "waiting"}]
    BY <1>0 DEF TSTypeOK
  <2> QED
    BY <1>0, <1>a, <1>1, <1>3, <2>1, <2>2, <2>3, <2>4 DEF TSTypeOK
<1>6. runs[n] = 0 /\ ~Queued(n) /\ ((at = "run" \/ Finishing) => f # n /\ f < n)
  BY <1>0, <1>3, <1>4 DEF CallInv, Queued, TSTypeOK, Finishing
<1>7. CallInv'
  <2>1. \A i \in 1..Len(d') : d'[i] \in 1..sent'
    BY <1>0, <1>1, <1>3, <1>4, <1>2
  <2>2. \A m \in Msgs : m > sent' => m > sent
    BY <1>0 DEF Msgs
  <2> QED
    BY <1>0, <1>a, <1>3, <2>1, <2>2 DEF CallInv, Finishing
<1>8. FreshInv'
  <2>1. \A m \in 1..sent' : runs'[m] = 0 => Queued(m)' \/ (at' = "run" /\ f' = m)
    BY <1>0, <1>1, <1>2 DEF FreshInv
  <2>2. \A i, j \in 1..Len(d') :
          runs'[d'[i]] = 0 /\ runs'[d'[j]] = 0 /\ i < j => d'[i] < d'[j]
    <3> SUFFICES ASSUME NEW i \in 1..Len(d'), NEW j \in 1..Len(d'), i < j,
                        runs[d'[i]] = 0, runs[d'[j]] = 0
                 PROVE  d'[i] < d'[j]
      BY <1>0
    <3>1. i \in 1..Len(d)
      BY <1>1
    <3> QED
      BY <1>0, <1>1, <1>4, <3>1 DEF FreshInv
  <2>3. at' = "run" /\ runs'[f'] = 0 => \A i \in 1..Len(d') : runs'[d'[i]] = 0 => f' < d'[i]
    BY <1>0, <1>1, <1>6 DEF FreshInv
  <2> QED
    BY <2>1, <2>2, <2>3 DEF FreshInv
<1>9. FirstRunsInOrder'
  BY <1>0 DEF FirstRunsInOrder
<1>10. AskInv'
  <2> SUFFICES ASSUME ~stray PROVE AskInv'
    BY <1>0 DEF AskInv
  <2>1. \A i, j \in 1..Len(d') : d'[i] = d'[j] => i = j
    BY <1>0, <1>1, <1>4 DEF AskInv
  <2>2. (Finishing' <=> Finishing) /\ \A m : Due(m)' <=> Due(m) \/ m = n
    BY <1>0, <1>1 DEF Finishing, Due
  <2>3. at' = "run" \/ (Finishing' /\ rq') => ~Queued(f)'
    BY <1>0, <1>1, <1>6, <2>2 DEF AskInv
  <2>4. ASSUME NEW m \in Msgs
        PROVE  runs'[m] + (IF Due(m)' THEN 1 ELSE 0) <= 1 + asked'[m]
    <3>1. CASE m = n
      <4>1. runs[m] = 0 /\ asked[m] \in Nat
        BY <1>0, <1>6, <3>1 DEF CallInv
      <4> QED
        BY <1>0, <4>1
    <3>2. CASE m # n
      BY <1>0, <2>2, <3>2 DEF AskInv
    <3> QED
      BY <3>1, <3>2
  <2> QED
    BY <1>0, <2>1, <2>2, <2>3, <2>4 DEF AskInv
<1> QED
  BY <1>5, <1>7, <1>8, <1>9, <1>10 DEF IInv

LEMMA InCallInv == ASSUME IInv, NEW c \in Callers, InCall(c) PROVE IInv'
<1>0. TSTypeOK /\ CallInv
  BY DEF IInv
<1>1. CASE SendNotifies(c)
  <2>1. TSTypeOK'
    BY <1>0, <1>1 DEF SendNotifies, TSTypeOK, retVars
  <2> QED
    BY <1>0, <1>1, <2>1, QuietStep DEF SendNotifies, retVars, histVars, CallInv, TSTypeOK
<1>2. CASE CallChecks(c)
  <2>1. TSTypeOK'
    BY <1>0, <1>2 DEF CallChecks, TSTypeOK
  <2>2. calls \ frames' \subseteq done'
    BY <1>0, <1>2 DEF CallChecks, CallInv
  <2> QED
    BY <1>0, <1>2, <2>1, <2>2, QuietStep DEF CallChecks, histVars, CallInv, TSTypeOK
<1>3. CASE CallWaits(c)
  <2>1. TSTypeOK'
    BY <1>0, <1>3 DEF CallWaits, TSTypeOK, retVars
  <2> QED
    BY <1>0, <1>3, <2>1, QuietStep DEF CallWaits, retVars, histVars, CallInv, TSTypeOK
<1> QED
  BY <1>1, <1>2, <1>3 DEF InCall

-----------------------------------------------------------------------------

LEMMA TakeInv == ASSUME IInv, TakeMessage PROVE IInv'
<1>0. /\ TSTypeOK /\ CallInv /\ FreshInv /\ FirstRunsInOrder /\ AskInv /\ at = "test"
      /\ UNCHANGED <<rq, pc, msg, sent, calls, done, frames, missed>>
      /\ UNCHANGED <<ended, threw, runs, asked, stray, touched>>
  BY DEF IInv, TakeMessage, retVars, histVars
<1>1. CASE d = <<>> /\ at' = "asleep" /\ UNCHANGED <<d, f>>
  <2>1. TSTypeOK'
    BY <1>0, <1>1 DEF TSTypeOK
  <2> QED
    BY <1>0, <1>1, <2>1, QuietStep DEF CallInv
<1>2. CASE d # <<>> /\ at' = "run" /\ f' = Head(d) /\ d' = Tail(d)
  <2>1. /\ d' \in Seq(Msgs) /\ Len(d) \in Nat \ {0} /\ Len(d') = Len(d) - 1
        /\ f' = d[1] /\ 1 \in 1..Len(d) /\ f' \in Msgs
        /\ \A i \in 1..Len(d') : i + 1 \in 1..Len(d) /\ d'[i] = d[i + 1]
        /\ \A k : Queued(k) <=> Queued(k)' \/ k = f'
    BY <1>0, <1>2, TailQueue DEF TSTypeOK
  <2>2. f' \in 1..sent
    BY <1>0, <2>1 DEF CallInv
  <2>3. ~Finishing /\ ~Finishing'
    BY <1>0, <1>2 DEF Finishing
  <2>4. TSTypeOK'
    BY <1>0, <1>2, <2>1, <2>2 DEF TSTypeOK
  <2>5. CallInv'
    BY <1>0, <1>2, <2>1, <2>3 DEF CallInv
  <2>6. FreshInv'
    <3>1. \A m \in 1..sent' : runs'[m] = 0 => Queued(m)' \/ (at' = "run" /\ f' = m)
      BY <1>0, <1>2, <2>1 DEF FreshInv
    <3>2. \A i, j \in 1..Len(d') :
            runs'[d'[i]] = 0 /\ runs'[d'[j]] = 0 /\ i < j => d'[i] < d'[j]
      <4> SUFFICES ASSUME NEW i \in 1..Len(d'), NEW j \in 1..Len(d'), i < j,
                          runs[d'[i]] = 0, runs[d'[j]] = 0
                   PROVE  d'[i] < d'[j]
        BY <1>0
      <4>1. i + 1 < j + 1
        BY <2>1
      <4> QED
        BY <1>0, <2>1, <4>1 DEF FreshInv
    <3>3. runs'[f'] = 0 => \A i \in 1..Len(d') : runs'[d'[i]] = 0 => f' < d'[i]
      <4> SUFFICES ASSUME NEW i \in 1..Len(d'), runs[f'] = 0, runs[d'[i]] = 0
                   PROVE  f' < d'[i]
        BY <1>0
      <4>1. 1 < i + 1
        BY <2>1
      <4> QED
        BY <1>0, <2>1, <4>1 DEF FreshInv
    <3> QED
      BY <3>1, <3>2, <3>3 DEF FreshInv
  <2>7. FirstRunsInOrder'
    BY <1>0 DEF FirstRunsInOrder
  <2>8. AskInv'
    <3> SUFFICES ASSUME ~stray PROVE AskInv'
      BY <1>0 DEF AskInv
    <3>0. ~rq /\ \A i, j \in 1..Len(d) : d[i] = d[j] => i = j
      BY <1>0, <2>3 DEF AskInv
    <3>1. \A i, j \in 1..Len(d') : d'[i] = d'[j] => i = j
      BY <2>1, <3>0
    <3>2. ~Queued(f)'
      <4> SUFFICES ASSUME NEW i \in 1..Len(d'), d'[i] = f' PROVE FALSE
        BY DEF Queued
      <4>1. i + 1 = 1
        BY <2>1, <3>0
      <4> QED
        BY <4>1, <2>1
    <3>3. \A m : Due(m)' <=> Due(m)
      BY <1>0, <1>2, <2>1, <2>3 DEF Due
    <3> QED
      BY <1>0, <2>3, <3>0, <3>1, <3>2, <3>3 DEF AskInv
  <2> QED
    BY <2>4, <2>5, <2>6, <2>7, <2>8 DEF IInv
<1> QED
  BY <1>1, <1>2 DEF TakeMessage

LEMMA RunInv == ASSUME IInv, Run PROVE IInv'
<1>0. /\ TSTypeOK /\ CallInv /\ FreshInv /\ FirstRunsInOrder /\ AskInv /\ at = "run"
      /\ UNCHANGED <<d, f, pc, msg, sent, calls, done, frames, missed, touched>>
      /\ runs' = [runs EXCEPT ![f] = @ + 1]
  BY DEF IInv, Run, retVars
<1>1. f \in 1..sent /\ f \in Msgs /\ sent \in Nat
  BY <1>0, ServerAssumption DEF TSTypeOK, Msgs
<1>2. PICK asks \in BOOLEAN : /\ rq' = (rq \/ asks)
                              /\ asked' = [asked EXCEPT ![f] = IF asks THEN @ + 1 ELSE @]
  BY DEF Run
<1>3. rq' \in BOOLEAN
  BY <1>2, Zenon
<1>4. \/ /\ at' = IF f \in calls THEN "done" ELSE "after"
         /\ ended' = ended \cup {f} /\ stray' = stray
      \/ /\ at' = "test" /\ ended' = ended /\ stray' = (stray \/ rq')
  BY DEF Run
<1>5. \A m : Queued(m)' <=> Queued(m)
  BY <1>0 DEF Queued
<1>6. /\ \A m \in Msgs : runs'[m] = IF m = f THEN runs[m] + 1 ELSE runs[m]
      /\ runs' \in [Msgs -> Nat] /\ \A m \in Msgs : runs[m] \in Nat
  BY <1>0, <1>1 DEF CallInv
<1>7. /\ \A m \in Msgs : asked'[m] = IF m = f /\ asks THEN asked[m] + 1 ELSE asked[m]
      /\ asked' \in [Msgs -> Nat] /\ \A m \in Msgs : asked[m] \in Nat
  BY <1>0, <1>1, <1>2 DEF CallInv
<1>8. TSTypeOK'
  BY <1>0, <1>1, <1>3, <1>4 DEF TSTypeOK
<1>9. CallInv'
  <2>1. \A m \in Msgs : m > sent => m # f
    BY <1>1 DEF Msgs
  <2>2. runs'[f] > 0
    BY <1>1, <1>6
  <2>3. at' = "done" => f \in calls \cap ended'
    BY <1>4
  <2>4. done \subseteq ended'
    BY <1>0, <1>4 DEF CallInv
  <2>5. \A m \in Msgs : m > sent => runs'[m] = 0
    BY <1>0, <1>6, <2>1 DEF CallInv
  <2> QED
    BY <1>0, <1>1, <1>6, <1>7, <2>2, <2>3, <2>4, <2>5 DEF CallInv
<1>10. FreshInv'
  <2>1. \A m \in Msgs : runs'[m] = 0 => runs[m] = 0 /\ m # f
    BY <1>6
  <2>a. \A m \in 1..sent : m \in Msgs
    BY <1>0, ServerAssumption DEF TSTypeOK, Msgs
  <2>2. \A i \in 1..Len(d) : d[i] \in Msgs
    BY <1>0, <2>a DEF CallInv
  <2>3. at' # "run"
    BY <1>4
  <2> QED
    BY <1>0, <1>5, <2>a, <2>1, <2>2, <2>3 DEF FreshInv
<1>11. FirstRunsInOrder'
  <2> SUFFICES ASSUME NEW m \in Msgs, runs'[m] > 0, NEW k \in 1..(m - 1) PROVE runs'[k] > 0
    BY DEF FirstRunsInOrder
  <2>1. k \in Msgs /\ k < m
    BY ServerAssumption DEF Msgs
  <2>2. CASE runs[m] > 0
    BY <1>0, <1>6, <2>1, <2>2 DEF FirstRunsInOrder
  <2>3. CASE ~(runs[m] > 0)
    <3>1. m = f /\ runs[f] = 0
      BY <1>6, <2>3
    <3>2. k \in 1..sent /\ k # f
      BY <1>1, <2>1, <3>1
    <3>3. runs[k] # 0
      <4> SUFFICES ASSUME runs[k] = 0 PROVE FALSE
        OBVIOUS
      <4>1. Queued(k)
        BY <1>0, <3>2 DEF FreshInv
      <4>2. PICK i \in 1..Len(d) : d[i] = k
        BY <4>1 DEF Queued
      <4>3. f < k
        BY <1>0, <3>1, <4>2 DEF FreshInv
      <4> QED
        BY <1>1, <2>1, <3>1, <4>3 DEF Msgs
    <3> QED
      BY <1>6, <2>1, <3>3
  <2> QED
    BY <2>2, <2>3
<1>12. AskInv'
  <2> SUFFICES ASSUME ~stray' PROVE AskInv'
    BY DEF AskInv
  <2>1. ~stray
    BY <1>4
  <2>2. ~rq /\ ~Queued(f) /\ ~Finishing
    BY <1>0, <2>1 DEF AskInv, Finishing
  <2>3. (rq' <=> asks) /\ (rq' => Finishing')
    BY <1>2, <1>4, <2>2 DEF Finishing
  <2>4. at' # "run"
    BY <1>4
  <2>5. ASSUME NEW m \in Msgs
        PROVE  runs'[m] + (IF Due(m)' THEN 1 ELSE 0) <= 1 + asked'[m]
    <3>0. runs[m] + (IF Due(m) THEN 1 ELSE 0) <= 1 + asked[m]
      BY <1>0, <2>1 DEF AskInv
    <3>1. CASE m = f
      <4>1. Due(m) /\ (Due(m)' => asks)
        BY <1>0, <1>5, <2>2, <2>3, <2>4, <3>1 DEF Due
      <4> QED
        BY <1>6, <1>7, <3>0, <3>1, <4>1
    <3>2. CASE m # f
      <4>1. Due(m)' => Due(m)
        BY <1>0, <1>5, <3>2 DEF Due
      <4> QED
        BY <1>6, <1>7, <3>0, <3>2, <4>1
    <3> QED
      BY <3>1, <3>2
  <2> QED
    BY <1>0, <1>5, <2>1, <2>2, <2>3, <2>4, <2>5 DEF AskInv
<1> QED
  BY <1>8, <1>9, <1>10, <1>11, <1>12 DEF IInv

LEMMA RequeueInv == ASSUME IInv, Requeue PROVE IInv'
<1>0. /\ TSTypeOK /\ CallInv /\ FreshInv /\ FirstRunsInOrder /\ AskInv /\ at = "after"
      /\ UNCHANGED <<f, pc, msg, sent, calls, done, frames, missed>>
      /\ UNCHANGED <<ended, threw, runs, asked, stray, touched>>
      /\ at' = "test" /\ ~rq' /\ d' = IF rq THEN Append(d, f) ELSE d
      /\ Finishing /\ ~Finishing'
  BY DEF IInv, Requeue, retVars, histVars, Finishing
<1>1. f \in 1..sent /\ f \in Msgs /\ runs[f] # 0 /\ runs[f] \in Nat
  BY <1>0, ServerAssumption DEF TSTypeOK, Msgs, CallInv
<1>2. rq' \in BOOLEAN
  BY Zenon DEF Requeue
<1>3. CASE rq
  <2>1. /\ d' \in Seq(Msgs) /\ Len(d) \in Nat /\ Len(d') = Len(d) + 1
        /\ \A i \in 1..Len(d) : d'[i] = d[i]
        /\ d'[Len(d) + 1] = f
        /\ \A i \in 1..Len(d') : i \in 1..Len(d) \/ i = Len(d) + 1
        /\ \A k : Queued(k)' <=> Queued(k) \/ k = f
    BY <1>0, <1>1, <1>3, AppendQueue DEF TSTypeOK
  <2>2. TSTypeOK'
    BY <1>0, <1>2, <2>1 DEF TSTypeOK
  <2>3. CallInv'
    <3>1. \A i \in 1..Len(d') : d'[i] \in 1..sent'
      BY <1>0, <1>1, <2>1 DEF CallInv
    <3> QED
      BY <1>0, <3>1 DEF CallInv
  <2>4. FreshInv'
    <3>1. \A i, j \in 1..Len(d') :
            runs'[d'[i]] = 0 /\ runs'[d'[j]] = 0 /\ i < j => d'[i] < d'[j]
      BY <1>0, <1>1, <2>1 DEF FreshInv
    <3> QED
      BY <1>0, <2>1, <3>1 DEF FreshInv
  <2>5. FirstRunsInOrder'
    BY <1>0 DEF FirstRunsInOrder
  <2>6. AskInv'
    <3> SUFFICES ASSUME ~stray PROVE AskInv'
      BY <1>0 DEF AskInv
    <3>1. ~Queued(f)
      BY <1>0, <1>3 DEF AskInv
    <3>2. \A i, j \in 1..Len(d') : d'[i] = d'[j] => i = j
      BY <1>0, <2>1, <3>1 DEF AskInv, Queued
    <3>3. \A m : Due(m)' <=> Due(m)
      BY <1>0, <1>3, <2>1 DEF Due
    <3> QED
      BY <1>0, <3>2, <3>3 DEF AskInv
  <2> QED
    BY <2>2, <2>3, <2>4, <2>5, <2>6 DEF IInv
<1>4. CASE ~rq
  <2>1. d' = d /\ \A k : Queued(k)' <=> Queued(k)
    BY <1>0, <1>4 DEF Queued
  <2>2. TSTypeOK'
    BY <1>0, <1>2, <2>1 DEF TSTypeOK
  <2>3. CallInv' /\ FreshInv' /\ FirstRunsInOrder'
    BY <1>0, <2>1 DEF CallInv, FreshInv, FirstRunsInOrder
  <2>4. \A m : Due(m)' <=> Due(m)
    BY <1>0, <1>4, <2>1 DEF Due
  <2>5. AskInv'
    BY <1>0, <1>4, <2>1, <2>4 DEF AskInv
  <2> QED
    BY <2>2, <2>3, <2>5 DEF IInv
<1> QED
  BY <1>3, <1>4

LEMMA SetDoneInv == ASSUME IInv, SetDone PROVE IInv'
<1>0. TSTypeOK /\ CallInv /\ at = "done" /\ f \in calls \cap ended
  BY DEF IInv, CallInv, SetDone
<1>1. TSTypeOK'
  BY <1>0 DEF SetDone, TSTypeOK
<1> QED
  BY <1>0, <1>1, QuietStep DEF SetDone, histVars, CallInv, Finishing

LEMMA NotifyInv == ASSUME IInv, NotifyCaller PROVE IInv'
<1>0. TSTypeOK /\ CallInv /\ at = "notify"
  BY DEF IInv, NotifyCaller
<1>1. TSTypeOK'
  BY <1>0 DEF NotifyCaller, TSTypeOK
<1> QED
  BY <1>0, <1>1, QuietStep DEF NotifyCaller, histVars, CallInv, Finishing

LEMMA TouchInv == ASSUME IInv, Touch PROVE IInv'
<1>0. TSTypeOK /\ CallInv
  BY DEF IInv
<1>1. TSTypeOK'
  BY <1>0 DEF Touch, TSTypeOK, retVars
<1> QED
  BY <1>0, <1>1, QuietStep DEF Touch, retVars, histVars, CallInv

LEMMA NextInv == ASSUME IInv, [Next]_vars PROVE IInv'
<1>1. CASE UNCHANGED vars
  <2>1. TSTypeOK'
    BY <1>1 DEF vars, retVars, histVars, TSTypeOK, IInv
  <2> QED
    BY <1>1, <2>1, QuietStep DEF vars, retVars, histVars, IInv, CallInv
<1>2. CASE DoWork
  BY <1>2, TakeInv, RunInv, SetDoneInv, NotifyInv, RequeueInv, TouchInv
     DEF DoWork, RunDead, NotifyDead
<1> QED
  BY <1>1, <1>2, PushInv, InCallInv DEF Next

LEMMA InvInductive == Spec => []IInv
<1>1. Init => IInv
  BY InitInv
<1>2. IInv /\ [Next]_vars => IInv'
  BY NextInv
<1> QED
  BY <1>1, <1>2, PTL DEF Spec

-----------------------------------------------------------------------------

(* Messages start in the order in which they came, past those that were    *)
(* requeued, and run again only as often as they asked, as long as none    *)
(* asks and throws (Server::doWork, task.cpp:113-144).                     *)
THEOREM MessagesInOrder == Spec => []QueueInv
<1>1. IInv => QueueInv
  <2> SUFFICES ASSUME IInv PROVE RunsAsAsked
    BY DEF IInv, QueueInv
  <2> SUFFICES ASSUME ~stray, NEW m \in Msgs PROVE runs[m] <= 1 + asked[m]
    BY DEF RunsAsAsked
  <2>1. runs[m] \in Nat /\ asked[m] \in Nat
    BY DEF IInv, CallInv
  <2>2. runs[m] + (IF Due(m) THEN 1 ELSE 0) <= 1 + asked[m]
    BY DEF IInv, AskInv
  <2> QED
    BY <2>1, <2>2
<1> QED
  BY <1>1, InvInductive, PTL

(* Server::call returns only after its message has run to its end, however *)
(* Ret::f's unlocked writes fall between its test and its wait.            *)
THEOREM CallAfterRun == Spec => []CallMeansRun
<1>1. IInv => CallMeansRun
  BY DEF IInv, CallInv, CallMeansRun
<1> QED
  BY <1>1, InvInductive, PTL

=============================================================================
