---------------------------- MODULE CursorProofs ----------------------------
(***************************************************************************)
(* TLAPS proofs about DBClientCursor: its type, its limit, the fate of the *)
(* server's cursor, and that it implements ResultStream.                   *)
(***************************************************************************)
EXTENDS DBClientCursor, SequenceTheorems, TLAPS

(* Documents the caller was handed, those it gave back included.           *)
Handed == Len(delivered) + Len(putBack)

(* A failed or dead stream promises only the order.                        *)
Cut == broken \/ isDead

(* Where the batch stands in the server's data.                            *)
BatchInv ==
    /\ docs <= MaxDocs /\ srvAt <= docs
    /\ pos <= nReturned
    /\ data + (nReturned - pos) <= srvAt
    /\ ~broken => data + (nReturned - pos) = srvAt
    /\ batchSize # 1
    /\ phase = "new" => /\ nReturned = 0 /\ data = 0 /\ cursorId = 0 /\ srvAt = 0 /\ ~srvOpen
                        /\ delivered = <<>> /\ putBack = <<>> /\ nToReturn = limit
                        /\ answer = "none" /\ ~broken /\ client = "conn"

(* The documents handed out increase, put-back ones come next.             *)
OrderInv ==
    /\ \A i \in 1..Len(delivered) : delivered[i] <= data
    /\ \A k \in 1..Len(putBack) : putBack[k] <= data
    /\ \A i, j \in 1..Len(delivered) : i < j => delivered[i] < delivered[j]
    /\ \A i \in 1..Len(delivered), k \in 1..Len(putBack) : delivered[i] < putBack[k]
    /\ \A k, l \in 1..Len(putBack) : k < l => putBack[l] < putBack[k]

(* Without a failure there is no gap.                                      *)
NoGapInv ==
    ~broken => /\ Handed = data
               /\ \A i \in 1..Len(delivered) : delivered[i] = i
               /\ \A k \in 1..Len(putBack) : putBack[k] = data - k + 1

(* What is left of the limit.                                              *)
LimitInv ==
    haveLimit =>
      /\ nToReturn > 0
      /\ Handed <= limit
      /\ Handed - pos + nToReturn <= limit
      /\ pos < nReturned => nReturned <= nToReturn
      /\ ~broken => Handed - pos + nToReturn = limit /\ nReturned <= nToReturn

(* A closed cursor has no more data to offer.                              *)
EndInv ==
    /\ phase = "open" /\ ~broken /\ ~tailable /\ cursorId = 0
       => srvAt = docs \/ (haveLimit /\ nReturned >= nToReturn)
    /\ answer = "no" => putBack = <<>> /\ (pos = nReturned \/ AtLimit)

(* The client knows every cursor the server keeps for it.                  *)
KnownInv ==
    /\ srvOpen /\ phase \in {"open", "deleted"} => cursorId = 1
    /\ phase = "deleted" /\ own /\ srvOpen => kill \in {"sent", "lost"}
    /\ client = "dangling" => cursorId = 0

IInv == TypeOK /\ BatchInv /\ OrderInv /\ NoGapInv /\ LimitInv /\ EndInv /\ KnownInv

LEMMA InitInv == Init => IInv
<1> SUFFICES ASSUME Init PROVE IInv
  OBVIOUS
<1>0. limit \in Nat /\ batchSize \in Nat /\ batchSize # 1
  BY CursorAssumption DEF Init, ctorBatchSize
<1>a. putBack \in Seq(1..MaxDocs) /\ delivered \in Seq(1..MaxDocs)
  BY DEF Init
<1>b. /\ own \in BOOLEAN /\ broken \in BOOLEAN /\ srvOpen \in BOOLEAN /\ tailable \in BOOLEAN
      /\ limit \in Limits
  BY Zenon DEF Init
<1>1. TypeOK
  BY <1>0, <1>a, <1>b, CursorAssumption DEF Init, TypeOK
<1>2. BatchInv
  BY <1>0, CursorAssumption DEF Init, BatchInv
<1>3. OrderInv
  BY DEF Init, OrderInv
<1>4. NoGapInv
  BY DEF Init, NoGapInv, Handed
<1>5. LimitInv
  BY <1>0 DEF Init, LimitInv, Handed, haveLimit
<1>6. EndInv /\ KnownInv
  BY DEF Init, EndInv, KnownInv
<1> QED
  BY <1>1, <1>2, <1>3, <1>4, <1>5, <1>6 DEF IInv

-----------------------------------------------------------------------------
(* What the server may answer, and what it is asked for.                   *)

LEMMA AnswersFact ==
  ASSUME docs \in Nat, NEW n \in Nat, NEW at \in Nat, at <= docs, NEW first \in BOOLEAN,
         NEW a \in Answers(n, at, first)
  PROVE  /\ a.k \in Nat /\ a.id \in {0, 1}
         /\ at + a.k <= docs
         /\ n # 0 => a.k <= n
         /\ a.k = 0 => at = docs
         /\ a.id = 0 => (first /\ n = 1) \/ at + a.k = docs
  BY DEF Answers, Batches

LEMMA BatchSizeFact ==
  ASSUME batchSize \in Nat, batchSize # 1, NEW n \in Nat
  PROVE  /\ nextBatchSize(n) \in Nat
         /\ n > 0 => nextBatchSize(n) > 0 /\ nextBatchSize(n) <= n
         /\ nextBatchSize(n) = 1 => n = 1
  BY DEF nextBatchSize

(* Requests with an empty batch at hand: what RequestMore's guard gives.   *)
LEMMA RequestFact ==
  ASSUME IInv, RequestMore
  PROVE  /\ remaining \in Nat /\ pos = nReturned /\ cursorId = 1 /\ putBack = <<>>
         /\ haveLimit => remaining > 0 /\ remaining = nToReturn - nReturned
         /\ ~haveLimit => remaining = nToReturn
  BY DEF IInv, TypeOK, BatchInv, RequestMore, remaining, AtLimit, haveLimit

-----------------------------------------------------------------------------
(* The actions.                                                            *)

LEMMA QueryInv == ASSUME IInv, Query PROVE IInv'
<1> DEFINE n == nextBatchSize(nToReturn)
<1>0. /\ docs \in Nat /\ nToReturn \in Nat /\ batchSize \in Nat /\ batchSize # 1
      /\ nToReturn = limit /\ limit \in Nat /\ ~broken
      /\ delivered = <<>> /\ putBack = <<>> /\ answer = "none"
  BY CursorAssumption DEF IInv, TypeOK, BatchInv, Query
<1>1. /\ n \in Nat
      /\ nToReturn > 0 => n > 0 /\ n <= nToReturn
      /\ n = 1 => nToReturn = 1
  BY <1>0, BatchSizeFact
<1>2. PICK a \in Answers(n, 0, TRUE) : Served(a, 0) /\ dataReceived(a.id, a.k, 0)
  BY DEF Query
<1> HIDE DEF n
<1>a. 0 <= docs /\ 0 \in Nat /\ TRUE \in BOOLEAN
  BY <1>0
<1>b. /\ a.k \in Nat /\ a.id \in {0, 1}
      /\ 0 + a.k <= docs
      /\ n # 0 => a.k <= n
      /\ a.k = 0 => 0 = docs
      /\ a.id = 0 => (TRUE /\ n = 1) \/ 0 + a.k = docs
  BY <1>0, <1>1, <1>a, AnswersFact, Zenon
<1>3. /\ a.k \in Nat /\ a.id \in {0, 1} /\ a.k <= docs
      /\ n # 0 => a.k <= n
      /\ a.k = 0 => docs = 0
      /\ a.id = 0 => n = 1 \/ a.k = docs
  BY <1>0, <1>b
<1>4. /\ srvAt' = a.k
      /\ cursorId' = a.id /\ nReturned' = a.k /\ pos' = 0 /\ data' = 0
  BY <1>2, <1>3 DEF Served, dataReceived, IInv, BatchInv, Query
<1>c. srvOpen' \in BOOLEAN /\ (srvOpen' => a.id = 1)
  BY <1>2, Zenon DEF Served
<1>5. /\ phase' = "open" /\ UNCHANGED inputs /\ UNCHANGED <<docs, nToReturn, putBack, own, client>>
      /\ UNCHANGED <<answer, broken, kill, delivered>>
  BY DEF Query
<1>6. TypeOK'
  BY CursorAssumption, <1>0, <1>3, <1>4, <1>c, <1>5 DEF IInv, TypeOK, inputs
<1>7. BatchInv'
  BY <1>0, <1>3, <1>4, <1>5 DEF IInv, TypeOK, BatchInv, inputs
<1>8. OrderInv' /\ NoGapInv'
  BY <1>0, <1>4, <1>5 DEF OrderInv, NoGapInv, Handed
<1>9. LimitInv'
  BY <1>0, <1>1, <1>3, <1>4, <1>5 DEF LimitInv, Handed, haveLimit, inputs
<1>10. EndInv'
  BY <1>0, <1>1, <1>3, <1>4, <1>5 DEF EndInv, haveLimit, inputs
<1>11. KnownInv'
  BY <1>3, <1>4, <1>c, <1>5 DEF IInv, BatchInv, KnownInv, Query
<1> QED
  BY <1>6, <1>7, <1>8, <1>9, <1>10, <1>11 DEF IInv

LEMMA QueryFailsInv == ASSUME IInv, QueryFails PROVE IInv'
<1> DEFINE n == nextBatchSize(nToReturn)
<1>0. /\ docs \in Nat /\ nToReturn \in Nat /\ batchSize \in Nat /\ batchSize # 1
      /\ srvAt = 0 /\ srvOpen = FALSE /\ nReturned = 0 /\ pos = 0 /\ data = 0
      /\ delivered = <<>> /\ putBack = <<>> /\ answer = "none" /\ client = "conn"
      /\ nToReturn = limit
  BY CursorAssumption DEF IInv, TypeOK, BatchInv, QueryFails
<1>1. n \in Nat
  BY <1>0, BatchSizeFact
<1>2. \/ \E a \in Answers(n, 0, TRUE) : Served(a, 0)
      \/ UNCHANGED <<srvOpen, srvAt>>
  BY DEF QueryFails
<1> HIDE DEF n
<1>3. srvOpen' \in BOOLEAN
  BY <1>0, <1>2, Zenon DEF Served
<1>4. ASSUME NEW a \in Answers(n, 0, TRUE), Served(a, 0)
      PROVE  srvAt' \in Nat /\ srvAt' <= docs
  <2>a. 0 <= docs /\ 0 \in Nat /\ TRUE \in BOOLEAN
    BY <1>0
  <2>1. a.k \in Nat /\ 0 + a.k <= docs
    BY <1>0, <1>1, <2>a, AnswersFact, Zenon
  <2> QED
    BY <1>4, <2>1 DEF Served
<1>5. srvAt' \in Nat /\ srvAt' <= docs
  <2>1. CASE \E a \in Answers(n, 0, TRUE) : Served(a, 0)
    BY <2>1, <1>4, Zenon
  <2>2. CASE UNCHANGED <<srvOpen, srvAt>>
    BY <2>2, <1>0
  <2> QED
    BY <1>2, <2>1, <2>2
<1>6. /\ phase' = "null" /\ broken' = TRUE
      /\ UNCHANGED inputs /\ UNCHANGED batch
      /\ UNCHANGED <<docs, nToReturn, putBack, own, client, answer, kill, delivered>>
  BY DEF QueryFails
<1>7. TypeOK'
  BY CursorAssumption, <1>0, <1>3, <1>5, <1>6 DEF IInv, TypeOK, inputs, batch
<1>8. BatchInv'
  BY <1>0, <1>5, <1>6 DEF IInv, TypeOK, BatchInv, inputs, batch
<1>9. OrderInv' /\ NoGapInv'
  BY <1>0, <1>6 DEF OrderInv, NoGapInv, Handed, batch
<1>10. LimitInv'
  BY <1>0, <1>6 DEF IInv, LimitInv, Handed, haveLimit, inputs, batch
<1>11. EndInv' /\ KnownInv'
  BY <1>0, <1>6 DEF EndInv, KnownInv, batch
<1> QED
  BY <1>7, <1>8, <1>9, <1>10, <1>11 DEF IInv

LEMMA MoreLocalInv == ASSUME IInv, MoreLocal PROVE IInv'
<1>0. /\ UNCHANGED inputs /\ UNCHANGED batch /\ UNCHANGED server
      /\ UNCHANGED <<nToReturn, putBack, own, client, phase, broken, kill, delivered>>
      /\ answer' \in {"yes", "no"}
      /\ answer' = "no" => putBack = <<>> /\ (AtLimit \/ ~(pos < nReturned))
      /\ phase = "open"
  BY DEF MoreLocal
<1>1. TypeOK'
  BY <1>0 DEF IInv, TypeOK, inputs, batch, server
<1>2. BatchInv' /\ OrderInv' /\ NoGapInv' /\ LimitInv' /\ KnownInv'
  BY <1>0 DEF IInv, BatchInv, OrderInv, NoGapInv, LimitInv, KnownInv, Handed, haveLimit,
     inputs, batch, server
<1>3. EndInv'
  BY <1>0 DEF IInv, TypeOK, BatchInv, EndInv, AtLimit, haveLimit, inputs, batch, server
<1> QED
  BY <1>1, <1>2, <1>3 DEF IInv

LEMMA MoreReceivedInv == ASSUME IInv, MoreReceived PROVE IInv'
<1> DEFINE n == nextBatchSize(remaining)
<1>0. RequestMore /\ srvOpen
  BY DEF MoreReceived
<1>1. /\ remaining \in Nat /\ pos = nReturned /\ cursorId = 1 /\ putBack = <<>>
      /\ haveLimit => remaining > 0 /\ remaining = nToReturn - nReturned
      /\ ~haveLimit => remaining = nToReturn
  BY <1>0, RequestFact
<1>2. /\ docs \in Nat /\ srvAt \in Nat /\ srvAt <= docs /\ FALSE \in BOOLEAN
      /\ batchSize \in Nat /\ batchSize # 1 /\ nReturned \in Nat /\ data \in Nat
      /\ nToReturn \in Nat /\ limit \in Nat
      /\ data <= srvAt /\ (~broken => data = srvAt)
  BY <1>1, CursorAssumption DEF IInv, TypeOK, BatchInv
<1>3. n \in Nat /\ (remaining > 0 => n > 0 /\ n <= remaining)
  BY <1>1, <1>2, BatchSizeFact
<1>4. PICK a \in Answers(n, srvAt, FALSE) :
         /\ Served(a, srvAt)
         /\ dataReceived(a.id, a.k, srvAt)
         /\ answer' = IF a.k > 0 THEN "yes" ELSE "no"
  BY DEF MoreReceived
<1> HIDE DEF n
<1>5. /\ a.k \in Nat /\ a.id \in {0, 1}
      /\ srvAt + a.k <= docs
      /\ n # 0 => a.k <= n
      /\ a.k = 0 => srvAt = docs
      /\ a.id = 0 => (FALSE /\ n = 1) \/ srvAt + a.k = docs
  BY <1>2, <1>3, AnswersFact, ZenonT(30)
<1>6. srvOpen' \in BOOLEAN /\ (srvOpen' => a.id = 1)
  BY <1>4, Zenon DEF Served
<1>7. /\ srvAt' = srvAt + a.k
      /\ nReturned' = a.k /\ pos' = 0 /\ data' = srvAt
      /\ cursorId' \in {0, 1} /\ (a.id = 1 => cursorId' = 1) /\ (~tailable => cursorId' = a.id)
  BY <1>1, <1>4, <1>5 DEF Served, dataReceived
<1>8. /\ phase = "open" /\ phase' = "open" /\ nToReturn' = remaining
      /\ UNCHANGED inputs
      /\ UNCHANGED <<docs, putBack, own, kill, delivered, client, broken>>
      /\ answer' \in {"yes", "no"} /\ (answer' = "no" => a.k = 0)
  BY <1>4, <1>5 DEF MoreReceived, RequestMore
<1>9. TypeOK'
  BY CursorAssumption, <1>1, <1>2, <1>5, <1>6, <1>7, <1>8 DEF IInv, TypeOK, inputs
<1>10. BatchInv'
  BY <1>1, <1>2, <1>5, <1>7, <1>8 DEF IInv, TypeOK, BatchInv, inputs
<1>11. OrderInv'
  BY CursorAssumption, <1>1, <1>2, <1>7, <1>8 DEF IInv, TypeOK, OrderInv
<1>12. NoGapInv'
  BY <1>1, <1>2, <1>7, <1>8 DEF IInv, NoGapInv, Handed
<1>13. LimitInv'
  BY <1>1, <1>2, <1>3, <1>5, <1>7, <1>8, SMTT(30) DEF IInv, TypeOK, LimitInv, Handed, haveLimit, inputs
<1>14. EndInv'
  BY <1>1, <1>2, <1>5, <1>7, <1>8 DEF EndInv, haveLimit, inputs
<1>15. KnownInv'
  BY <1>1, <1>6, <1>7, <1>8 DEF IInv, KnownInv
<1> QED
  BY <1>9, <1>10, <1>11, <1>12, <1>13, <1>14, <1>15 DEF IInv

LEMMA MoreFailsInv == ASSUME IInv, MoreFails PROVE IInv'
<1> DEFINE n == nextBatchSize(remaining)
<1>0. RequestMore
  BY DEF MoreFails
<1>1. /\ remaining \in Nat /\ pos = nReturned /\ cursorId = 1 /\ putBack = <<>>
      /\ haveLimit => remaining > 0 /\ remaining = nToReturn - nReturned
      /\ ~haveLimit => remaining = nToReturn
  BY <1>0, RequestFact
<1>2. /\ docs \in Nat /\ srvAt \in Nat /\ srvAt <= docs /\ FALSE \in BOOLEAN
      /\ batchSize \in Nat /\ batchSize # 1 /\ nReturned \in Nat /\ data \in Nat
      /\ nToReturn \in Nat /\ limit \in Nat
      /\ data <= srvAt
  BY <1>1, CursorAssumption DEF IInv, TypeOK, BatchInv
<1>3. n \in Nat
  BY <1>1, <1>2, BatchSizeFact
<1>4. \/ srvOpen /\ \E a \in Answers(n, srvAt, FALSE) : Served(a, srvAt)
      \/ UNCHANGED <<srvOpen, srvAt>>
  BY DEF MoreFails
<1> HIDE DEF n
<1>5. srvOpen' \in BOOLEAN /\ (srvOpen' => srvOpen)
  <2>1. CASE srvOpen /\ \E a \in Answers(n, srvAt, FALSE) : Served(a, srvAt)
    BY <2>1, Zenon DEF Served
  <2>2. CASE UNCHANGED <<srvOpen, srvAt>>
    BY <2>2 DEF IInv, TypeOK
  <2> QED
    BY <1>4, <2>1, <2>2
<1>6. srvAt' \in Nat /\ srvAt <= srvAt' /\ srvAt' <= docs
  <2>1. ASSUME NEW a \in Answers(n, srvAt, FALSE), Served(a, srvAt)
        PROVE  srvAt' \in Nat /\ srvAt <= srvAt' /\ srvAt' <= docs
    <3>1. a.k \in Nat /\ srvAt + a.k <= docs
      BY <1>2, <1>3, AnswersFact, Zenon
    <3> QED
      BY <1>2, <2>1, <3>1 DEF Served
  <2>2. CASE UNCHANGED <<srvOpen, srvAt>>
    BY <2>2, <1>2
  <2>3. CASE \E a \in Answers(n, srvAt, FALSE) : Served(a, srvAt)
    BY <2>1, <2>3, Zenon
  <2> QED
    BY <1>4, <2>2, <2>3
<1>7. /\ phase = "open" /\ phase' = "open" /\ nToReturn' = remaining
      /\ broken' = TRUE /\ answer' = "none"
      /\ UNCHANGED inputs /\ UNCHANGED batch
      /\ UNCHANGED <<docs, putBack, own, kill, delivered, client>>
  BY DEF MoreFails, RequestMore
<1>8. TypeOK'
  BY CursorAssumption, <1>1, <1>2, <1>5, <1>6, <1>7 DEF IInv, TypeOK, inputs, batch
<1>9. BatchInv'
  BY <1>1, <1>2, <1>6, <1>7 DEF IInv, TypeOK, BatchInv, inputs, batch
<1>10. OrderInv' /\ NoGapInv'
  BY <1>7 DEF IInv, OrderInv, NoGapInv, batch
<1>11. LimitInv'
  BY <1>1, <1>2, <1>7 DEF IInv, TypeOK, LimitInv, Handed, haveLimit, inputs, batch
<1>12. EndInv' /\ KnownInv'
  BY <1>1, <1>5, <1>7 DEF IInv, EndInv, KnownInv, batch
<1> QED
  BY <1>8, <1>9, <1>10, <1>11, <1>12 DEF IInv

LEMMA MoreNotFoundInv == ASSUME IInv, MoreNotFound PROVE IInv'
<1>0. RequestMore /\ ~srvOpen
  BY DEF MoreNotFound
<1>1. /\ remaining \in Nat /\ pos = nReturned /\ cursorId = 1 /\ putBack = <<>>
      /\ haveLimit => remaining > 0 /\ remaining = nToReturn - nReturned
      /\ ~haveLimit => remaining = nToReturn
  BY <1>0, RequestFact
<1>2. /\ phase = "open" /\ phase' = "open" /\ nToReturn' = remaining
      /\ broken' = TRUE /\ cursorId' = 0
      /\ UNCHANGED inputs
      /\ UNCHANGED <<docs, srvOpen, srvAt, putBack, own, kill, delivered, data>>
      /\ client' \in {client, "dangling"}
  BY DEF MoreNotFound, ForgetCursor, RequestMore
<1>3. \/ tailable /\ nReturned' = 0 /\ pos' = 0 /\ answer' = "no"
      \/ ~tailable /\ nReturned' = nReturned /\ pos' = pos /\ answer' = "none"
  BY DEF MoreNotFound
<1>4. TypeOK'
  BY <1>1, <1>2, <1>3 DEF IInv, TypeOK, inputs
<1>5. BatchInv'
  BY <1>1, <1>2, <1>3 DEF IInv, TypeOK, BatchInv, inputs
<1>6. OrderInv' /\ NoGapInv'
  BY <1>2 DEF IInv, OrderInv, NoGapInv
<1>7. LimitInv'
  BY CursorAssumption, <1>1, <1>2, <1>3
  DEF IInv, TypeOK, LimitInv, Handed, haveLimit, inputs
<1>8. EndInv' /\ KnownInv'
  BY <1>0, <1>1, <1>2, <1>3 DEF IInv, EndInv, KnownInv
<1> QED
  BY <1>4, <1>5, <1>6, <1>7, <1>8 DEF IInv

(* What next() appends and pops, and what putBack() moves.                 *)
LEMMA PrefixFact ==
  ASSUME NEW S, NEW s \in Seq(S), NEW n \in 0..Len(s)
  PROVE  /\ SubSeq(s, 1, n) \in Seq(S)
         /\ Len(SubSeq(s, 1, n)) = n
         /\ \A i \in 1..n : SubSeq(s, 1, n)[i] = s[i]
  OBVIOUS

LEMMA FrontFact ==
  ASSUME NEW S, NEW s \in Seq(S), s # <<>>
  PROVE  /\ Len(s) \in Nat /\ Len(s) > 0
         /\ s[Len(s)] \in S
         /\ SubSeq(s, 1, Len(s) - 1) \in Seq(S)
         /\ Len(SubSeq(s, 1, Len(s) - 1)) = Len(s) - 1
         /\ \A i \in 1..(Len(s) - 1) : SubSeq(s, 1, Len(s) - 1)[i] = s[i]
<1>1. Len(s) \in Nat /\ Len(s) > 0 /\ s[Len(s)] \in S
  OBVIOUS
<1>2. Len(s) - 1 \in 0..Len(s)
  BY <1>1
<1>3. /\ SubSeq(s, 1, Len(s) - 1) \in Seq(S)
      /\ Len(SubSeq(s, 1, Len(s) - 1)) = Len(s) - 1
      /\ \A i \in 1..(Len(s) - 1) : SubSeq(s, 1, Len(s) - 1)[i] = s[i]
  BY <1>2, PrefixFact, Zenon
<1> QED
  BY <1>1, <1>3

LEMMA EltFact ==
  ASSUME NEW S, NEW s \in Seq(S)
  PROVE  \A i \in 1..Len(s) : s[i] \in S
  OBVIOUS

LEMMA AppendFact ==
  ASSUME NEW S, NEW s \in Seq(S), NEW e \in S
  PROVE  /\ Append(s, e) \in Seq(S)
         /\ Len(s) \in Nat /\ Len(Append(s, e)) = Len(s) + 1
         /\ \A i \in 1..Len(s) : Append(s, e)[i] = s[i]
         /\ Append(s, e)[Len(s) + 1] = e
  OBVIOUS

LEMMA NextPutBackInv == ASSUME IInv, NextPutBack PROVE IInv'
<1> DEFINE b == Len(putBack)
           m == Len(delivered)
           d == putBack[b]
<1>0. /\ putBack \in Seq(1..MaxDocs) /\ delivered \in Seq(1..MaxDocs) /\ putBack # <<>>
      /\ delivered' = Append(delivered, d)
      /\ putBack' = SubSeq(putBack, 1, b - 1)
  BY DEF IInv, TypeOK, NextPutBack
<1>1. /\ phase = "open" /\ answer' = "none"
      /\ UNCHANGED inputs /\ UNCHANGED batch /\ UNCHANGED server
      /\ UNCHANGED <<nToReturn, own, client, phase, broken, kill>>
  BY DEF NextPutBack
<1>2. /\ b \in Nat /\ b > 0 /\ d \in 1..MaxDocs
      /\ putBack' \in Seq(1..MaxDocs) /\ Len(putBack') = b - 1
      /\ \A i \in 1..(b - 1) : putBack'[i] = putBack[i]
  BY <1>0, FrontFact
<1>3. /\ delivered' \in Seq(1..MaxDocs)
      /\ m \in Nat /\ Len(delivered') = m + 1
      /\ \A i \in 1..m : delivered'[i] = delivered[i]
      /\ delivered'[m + 1] = d
  BY <1>0, <1>2, AppendFact
<1>4. /\ data \in Nat /\ MaxDocs \in Nat
      /\ \A i \in 1..m : delivered[i] \in 1..MaxDocs
      /\ \A k \in 1..b : putBack[k] \in 1..MaxDocs
  BY <1>0, CursorAssumption, EltFact DEF IInv, TypeOK
<1>5. TypeOK'
  BY <1>1, <1>2, <1>3 DEF IInv, TypeOK, inputs, batch, server
<1>6. BatchInv'
  BY <1>1 DEF IInv, BatchInv, inputs, batch, server
<1>o. /\ \A i \in 1..m : delivered[i] <= data
      /\ \A k \in 1..b : putBack[k] <= data
      /\ \A i, j \in 1..m : i < j => delivered[i] < delivered[j]
      /\ \A i \in 1..m, k \in 1..b : delivered[i] < putBack[k]
      /\ \A k, l \in 1..b : k < l => putBack[l] < putBack[k]
  BY DEF IInv, OrderInv
<1>g. ~broken => /\ m + b = data
                 /\ \A i \in 1..m : delivered[i] = i
                 /\ \A k \in 1..b : putBack[k] = data - k + 1
  BY DEF IInv, NoGapInv, Handed
<1> HIDE DEF b, m, d
<1>7. OrderInv'
  <2>1. data' = data
    BY <1>1 DEF batch
  <2>d. d = putBack[b]
    BY DEF d, b
  <2>2. \A i \in 1..(m + 1) : delivered'[i] <= data
    BY <1>2, <1>3, <1>o, <2>d
  <2>3. \A k \in 1..(b - 1) : putBack'[k] <= data
    BY <1>2, <1>o
  <2>4. \A i, j \in 1..(m + 1) : i < j => delivered'[i] < delivered'[j]
    BY <1>2, <1>3, <1>o, <2>d
  <2>5. \A i \in 1..(m + 1), k \in 1..(b - 1) : delivered'[i] < putBack'[k]
    BY <1>2, <1>3, <1>o, <2>d
  <2>6. \A k, l \in 1..(b - 1) : k < l => putBack'[l] < putBack'[k]
    BY <1>2, <1>o
  <2> QED
    BY <1>2, <1>3, <2>1, <2>2, <2>3, <2>4, <2>5, <2>6 DEF OrderInv
<1>8. NoGapInv'
  <2>1. data' = data /\ broken' = broken
    BY <1>1 DEF batch
  <2>d. d = putBack[b]
    BY DEF d, b
  <2>2. ASSUME ~broken
        PROVE  /\ (m + 1) + (b - 1) = data
               /\ \A i \in 1..(m + 1) : delivered'[i] = i
               /\ \A k \in 1..(b - 1) : putBack'[k] = data - k + 1
    <3>1. d = m + 1 /\ m + b = data
      BY <1>2, <1>3, <1>4, <1>g, <2>2, <2>d
    <3>2. \A i \in 1..(m + 1) : delivered'[i] = i
      BY <1>3, <1>g, <2>2, <3>1
    <3>3. \A k \in 1..(b - 1) : putBack'[k] = data - k + 1
      BY <1>2, <1>g, <2>2
    <3> QED
      BY <1>2, <1>3, <3>1, <3>2, <3>3
  <2> QED
    BY <1>2, <1>3, <2>1, <2>2 DEF NoGapInv, Handed
<1>9. Handed' = Handed
  BY <1>2, <1>3 DEF Handed, m, b
<1>10. LimitInv'
  BY <1>1, <1>9 DEF IInv, LimitInv, haveLimit, inputs, batch, server
<1>11. EndInv' /\ KnownInv'
  BY <1>1 DEF IInv, EndInv, KnownInv, haveLimit, inputs, batch, server
<1> QED
  BY <1>5, <1>6, <1>7, <1>8, <1>10, <1>11 DEF IInv

LEMMA NextInBatchInv == ASSUME IInv, NextInBatch PROVE IInv'
<1> DEFINE m == Len(delivered)
<1>1. /\ phase = "open" /\ answer' = "none" /\ putBack = <<>> /\ putBack' = <<>>
      /\ pos < nReturned /\ pos' = pos + 1 /\ data' = data + 1
      /\ UNCHANGED inputs /\ UNCHANGED server /\ UNCHANGED <<cursorId, nReturned>>
      /\ UNCHANGED <<nToReturn, own, client, phase, broken, kill>>
      /\ delivered' = Append(delivered, data + 1)
  BY DEF NextInBatch
<1>2. /\ data \in Nat /\ pos \in Nat /\ nReturned \in Nat /\ MaxDocs \in Nat /\ srvAt \in Nat
      /\ docs \in Nat /\ data + 1 \in 1..MaxDocs
      /\ delivered \in Seq(1..MaxDocs)
  BY <1>1, CursorAssumption DEF IInv, TypeOK, BatchInv
<1>3. /\ delivered' \in Seq(1..MaxDocs)
      /\ m \in Nat /\ Len(delivered') = m + 1
      /\ \A i \in 1..m : delivered'[i] = delivered[i]
      /\ delivered'[m + 1] = data + 1
  BY <1>1, <1>2, AppendFact
<1>4. \A i \in 1..m : delivered[i] \in 1..MaxDocs
  BY <1>2, EltFact
<1>5. TypeOK'
  BY <1>1, <1>2, <1>3 DEF IInv, TypeOK, inputs, server
<1>6. BatchInv'
  BY <1>1, <1>2 DEF IInv, BatchInv, inputs, server
<1>o. /\ \A i \in 1..m : delivered[i] <= data
      /\ \A i, j \in 1..m : i < j => delivered[i] < delivered[j]
  BY DEF IInv, OrderInv
<1>g. ~broken => m = data /\ \A i \in 1..m : delivered[i] = i
  BY <1>1, <1>3 DEF IInv, NoGapInv, Handed
<1>h. Handed = m /\ Handed' = m + 1
  BY <1>1, <1>3 DEF Handed
<1> HIDE DEF m
<1>7. OrderInv'
  <2>1. \A i \in 1..(m + 1) : delivered'[i] <= data + 1
    BY <1>2, <1>3, <1>4, <1>o
  <2>2. \A i, j \in 1..(m + 1) : i < j => delivered'[i] < delivered'[j]
    <3> SUFFICES ASSUME NEW i \in 1..(m + 1), NEW j \in 1..(m + 1), i < j
                 PROVE  delivered'[i] < delivered'[j]
      OBVIOUS
    <3>1. i \in 1..m /\ delivered'[i] = delivered[i] /\ delivered[i] \in 1..MaxDocs
          /\ delivered[i] <= data
      BY <1>3, <1>4, <1>o
    <3>2. CASE j = m + 1
      BY <1>2, <1>3, <3>1, <3>2
    <3>3. CASE j \in 1..m
      BY <1>3, <1>o, <3>1, <3>3
    <3> QED
      BY <1>3, <3>2, <3>3
  <2> QED
    BY <1>1, <1>3, <2>1, <2>2 DEF OrderInv
<1>8. NoGapInv'
  <2>1. ~broken => \A i \in 1..(m + 1) : delivered'[i] = i
    BY <1>2, <1>3, <1>g
  <2>2. \A k \in 1..Len(putBack') : putBack'[k] = data' - k + 1
    BY <1>1
  <2>3. ~broken => Handed' = data'
    BY <1>1, <1>2, <1>g, <1>h
  <2>4. ~broken => \A i \in 1..Len(delivered') : delivered'[i] = i
    BY <1>3, <2>1
  <2> QED
    BY <1>1, <2>2, <2>3, <2>4 DEF NoGapInv
<1>10. LimitInv'
  BY <1>1, <1>2, <1>3, <1>h, CursorAssumption DEF IInv, TypeOK, LimitInv, haveLimit, inputs, server
<1>11. EndInv' /\ KnownInv'
  BY <1>1 DEF IInv, EndInv, KnownInv, haveLimit, inputs, server
<1> QED
  BY <1>5, <1>6, <1>7, <1>8, <1>10, <1>11 DEF IInv

LEMMA PutBackInv == ASSUME IInv, PutBack PROVE IInv'
<1> DEFINE b == Len(putBack)
           m == Len(delivered)
           d == delivered[m]
<1>0. /\ putBack \in Seq(1..MaxDocs) /\ delivered \in Seq(1..MaxDocs) /\ delivered # <<>>
      /\ putBack' = Append(putBack, d)
      /\ delivered' = SubSeq(delivered, 1, m - 1)
  BY DEF IInv, TypeOK, PutBack
<1>1. /\ phase = "open" /\ answer' = "none"
      /\ UNCHANGED inputs /\ UNCHANGED batch /\ UNCHANGED server
      /\ UNCHANGED <<nToReturn, own, client, phase, broken, kill>>
  BY DEF PutBack
<1>2. /\ m \in Nat /\ m > 0 /\ d \in 1..MaxDocs
      /\ delivered' \in Seq(1..MaxDocs) /\ Len(delivered') = m - 1
      /\ \A i \in 1..(m - 1) : delivered'[i] = delivered[i]
  BY <1>0, FrontFact
<1>3. /\ putBack' \in Seq(1..MaxDocs)
      /\ b \in Nat /\ Len(putBack') = b + 1
      /\ \A k \in 1..b : putBack'[k] = putBack[k]
      /\ putBack'[b + 1] = d
  BY <1>0, <1>2, AppendFact
<1>4. /\ data \in Nat /\ MaxDocs \in Nat
      /\ \A i \in 1..m : delivered[i] \in 1..MaxDocs
      /\ \A k \in 1..b : putBack[k] \in 1..MaxDocs
  BY <1>0, CursorAssumption, EltFact DEF IInv, TypeOK
<1>5. TypeOK'
  BY <1>1, <1>2, <1>3 DEF IInv, TypeOK, inputs, batch, server
<1>6. BatchInv'
  BY <1>1 DEF IInv, BatchInv, inputs, batch, server
<1>o. /\ \A i \in 1..m : delivered[i] <= data
      /\ \A k \in 1..b : putBack[k] <= data
      /\ \A i, j \in 1..m : i < j => delivered[i] < delivered[j]
      /\ \A i \in 1..m, k \in 1..b : delivered[i] < putBack[k]
      /\ \A k, l \in 1..b : k < l => putBack[l] < putBack[k]
  BY DEF IInv, OrderInv
<1>g. ~broken => /\ m + b = data
                 /\ \A i \in 1..m : delivered[i] = i
                 /\ \A k \in 1..b : putBack[k] = data - k + 1
  BY DEF IInv, NoGapInv, Handed
<1>9. Handed' = Handed
  BY <1>2, <1>3 DEF Handed
<1>d. d = delivered[m]
  OBVIOUS
<1> HIDE DEF b, m, d
<1>7. OrderInv'
  <2>1. data' = data
    BY <1>1 DEF batch
  <2>2. \A i \in 1..(m - 1) : delivered'[i] <= data
    BY <1>2, <1>o
  <2>3. \A k \in 1..(b + 1) : putBack'[k] <= data
    BY <1>2, <1>3, <1>o, <1>d
  <2>4. \A i, j \in 1..(m - 1) : i < j => delivered'[i] < delivered'[j]
    BY <1>2, <1>o
  <2>5. \A i \in 1..(m - 1), k \in 1..(b + 1) : delivered'[i] < putBack'[k]
    BY <1>2, <1>3, <1>o, <1>d
  <2>6. \A k, l \in 1..(b + 1) : k < l => putBack'[l] < putBack'[k]
    BY <1>2, <1>3, <1>o, <1>d
  <2> QED
    BY <1>2, <1>3, <2>1, <2>2, <2>3, <2>4, <2>5, <2>6 DEF OrderInv
<1>8. NoGapInv'
  <2>1. data' = data /\ broken' = broken
    BY <1>1 DEF batch
  <2>2. ASSUME ~broken
        PROVE  /\ \A i \in 1..(m - 1) : delivered'[i] = i
               /\ \A k \in 1..(b + 1) : putBack'[k] = data - k + 1
    <3>1. d = m /\ m + b = data
      BY <1>2, <1>3, <1>4, <1>g, <2>2, <1>d
    <3>2. \A i \in 1..(m - 1) : delivered'[i] = i
      BY <1>2, <1>g, <2>2
    <3>3. \A k \in 1..(b + 1) : putBack'[k] = data - k + 1
      BY <1>2, <1>3, <1>4, <1>g, <2>2, <3>1, SMTT(30)
    <3> QED
      BY <3>2, <3>3
  <2>3. ~broken => Handed = data
    BY DEF IInv, NoGapInv
  <2> QED
    BY <1>2, <1>3, <1>9, <2>1, <2>2, <2>3 DEF NoGapInv
<1>10. LimitInv'
  BY <1>1, <1>9 DEF IInv, LimitInv, haveLimit, inputs, batch, server
<1>11. EndInv' /\ KnownInv'
  BY <1>1 DEF IInv, EndInv, KnownInv, haveLimit, inputs, batch, server
<1> QED
  BY <1>5, <1>6, <1>7, <1>8, <1>10, <1>11 DEF IInv

(* Actions that leave batch and documents alone.                           *)
LEMMA QuietInv ==
  ASSUME IInv, TypeOK', UNCHANGED inputs, UNCHANGED batch, UNCHANGED <<srvAt, nToReturn>>,
         UNCHANGED <<putBack, delivered, answer, broken>>,
         phase' = "open" => phase = "open",
         phase' = "new" => phase = "new" /\ client' = client,
         srvOpen' => srvOpen,
         docs' = docs \/ (tailable /\ docs' = docs + 1),
         KnownInv'
  PROVE  IInv'
<1>1. docs \in Nat /\ docs' \in 0..MaxDocs /\ srvAt \in Nat /\ srvAt <= docs
  BY CursorAssumption DEF IInv, TypeOK, BatchInv
<1>2. BatchInv'
  BY <1>1, CursorAssumption DEF IInv, BatchInv, inputs, batch
<1>3. OrderInv' /\ NoGapInv' /\ LimitInv'
  BY DEF IInv, OrderInv, NoGapInv, LimitInv, Handed, haveLimit, inputs, batch
<1>4. EndInv'
  BY DEF IInv, EndInv, AtLimit, haveLimit, inputs, batch
<1> QED
  BY <1>2, <1>3, <1>4 DEF IInv

LEMMA AttachInv == ASSUME IInv, Attach PROVE IInv'
<1>1. TypeOK'
  BY DEF IInv, TypeOK, Attach, inputs, batch, server
<1>2. KnownInv'
  BY DEF IInv, KnownInv, Attach, inputs, batch, server
<1> QED
  BY <1>1, <1>2, QuietInv DEF Attach, server

LEMMA DecoupleInv == ASSUME IInv, Decouple PROVE IInv'
<1>1. TypeOK'
  BY DEF IInv, TypeOK, Decouple, inputs, batch, server
<1>2. KnownInv'
  BY DEF IInv, KnownInv, Decouple, inputs, batch, server
<1> QED
  BY <1>1, <1>2, QuietInv DEF Decouple, server

LEMMA DestroyInv == ASSUME IInv, Destroy PROVE IInv'
<1>1. TypeOK'
  BY DEF IInv, TypeOK, Destroy, inputs, batch, server
<1>2. KnownInv'
  BY DEF IInv, TypeOK, KnownInv, Destroy, inputs, batch, server
<1> QED
  BY <1>1, <1>2, QuietInv DEF Destroy, server

LEMMA ServerKillInv == ASSUME IInv, ServerKill PROVE IInv'
<1>1. TypeOK'
  BY DEF IInv, TypeOK, ServerKill, inputs, batch
<1>2. KnownInv'
  BY DEF IInv, KnownInv, ServerKill, batch
<1> QED
  BY <1>1, <1>2, QuietInv DEF ServerKill

LEMMA ServerForgetsInv == ASSUME IInv, ServerForgets PROVE IInv'
<1>1. TypeOK'
  BY ZenonT(30) DEF IInv, TypeOK, ServerForgets, inputs, batch
<1>2. KnownInv'
  BY DEF IInv, KnownInv, ServerForgets, batch
<1> QED
  BY <1>1, <1>2, QuietInv DEF ServerForgets

LEMMA GrowInv == ASSUME IInv, Grow PROVE IInv'
<1>1. TypeOK'
  BY CursorAssumption DEF IInv, TypeOK, Grow, inputs, batch
<1>2. KnownInv'
  BY DEF IInv, KnownInv, Grow, batch
<1> QED
  BY <1>1, <1>2, QuietInv DEF Grow

LEMMA StutterInv == ASSUME IInv, UNCHANGED vars PROVE IInv'
<1>0. /\ UNCHANGED inputs /\ UNCHANGED batch /\ UNCHANGED server
      /\ UNCHANGED <<nToReturn, putBack, own, client, phase, answer, broken, kill, delivered>>
  BY DEF vars
<1>1. TypeOK'
  BY <1>0 DEF IInv, TypeOK, inputs, batch, server
<1>2. KnownInv'
  BY <1>0 DEF IInv, KnownInv, batch, server
<1> QED
  BY <1>0, <1>1, <1>2, QuietInv DEF server

(* IInv is inductive.                                                      *)
LEMMA NextInv == ASSUME IInv, [Next]_vars PROVE IInv'
  BY QueryInv, QueryFailsInv, MoreLocalInv, MoreReceivedInv, MoreFailsInv, MoreNotFoundInv,
     NextPutBackInv, NextInBatchInv, PutBackInv, AttachInv, DecoupleInv, DestroyInv,
     ServerKillInv, ServerForgetsInv, GrowInv, StutterInv, Zenon
  DEF Next, More

LEMMA InvInductive == Spec => []IInv
  BY InitInv, NextInv, PTL DEF Spec

(* Type correctness: more() never lets the unsigned remainder of the limit *)
(* go below zero, and no document is numbered outside the collection.      *)
THEOREM TypeCorrect == Spec => []TypeOK
<1>1. IInv => TypeOK
  BY DEF IInv
<1> QED
  BY <1>1, InvInductive, PTL

(* The limit holds for every limit and batch size, after exceptions too:   *)
(* requestMore's assert (dbclientcursor.cpp:70-73) cannot fire.            *)
THEOREM LimitIsHeld == Spec => []LimitHeld
<1>1. IInv => LimitHeld
  BY DEF IInv, LimitInv, LimitHeld, Handed
<1> QED
  BY <1>1, InvInductive, PTL

(* The pointer to a deleted connection that a failed getMore leaves in an  *)
(* attached cursor (dbclientcursor.cpp:91-97) is never followed.           *)
THEOREM DanglingNeverUsed == Spec => []DanglingUnused
<1>1. IInv => DanglingUnused
  BY DEF IInv, KnownInv, DanglingUnused
<1> QED
  BY <1>1, InvInductive, PTL

(* A destroyed cursor that owns a live server cursor has asked the server  *)
(* to close it (dbclientcursor.cpp:218-245).                               *)
THEOREM NoCursorLeaks == Spec => []NoLeakedCursor
<1>1. IInv => NoLeakedCursor
  BY DEF IInv, KnownInv, NoLeakedCursor
<1> QED
  BY <1>1, InvInductive, PTL

-----------------------------------------------------------------------------
(* Refinement: every step of the cursor is a step of ResultStream or       *)
(* leaves the mapped variables alone.                                      *)

Wanted == IF haveLimit THEN limit ELSE 0
Status == IF Cut THEN "failed" ELSE IF answer = "no" THEN "end" ELSE "open"
Step   == [Stream!Next]_(Stream!svars)

(* The steps of ResultStream in terms of the mapping.                      *)
LEMMA MapStutter ==
  ASSUME Wanted' = Wanted, docs' = docs, delivered' = delivered, Status' = Status
  PROVE  Step
  BY DEF Step, Stream!svars, Wanted, Status, Cut

LEMMA MapFail ==
  ASSUME Wanted' = Wanted, docs' = docs, delivered' = delivered, Status' = "failed"
  PROVE  Step
  BY DEF Step, Stream!Next, Stream!Fail, Wanted, Status, Cut

LEMMA MapReopen ==
  ASSUME Wanted' = Wanted, docs' = docs, delivered' = delivered, Status = "end", Status' = "open"
  PROVE  Step
  BY DEF Step, Stream!Next, Stream!Reopen, Wanted, Status, Cut

LEMMA MapEnd ==
  ASSUME Wanted' = Wanted, docs' = docs, delivered' = delivered, Status = "open", Status' = "end",
         Len(delivered) = IF Wanted > 0 /\ Wanted < docs THEN Wanted ELSE docs
  PROVE  Step
  BY DEF Step, Stream!Next, Stream!End, Stream!Full, Wanted, Status, Cut

LEMMA MapRead ==
  ASSUME Wanted' = Wanted, docs' = docs, Status = "open", Status' = "open",
         Len(delivered) < IF Wanted > 0 /\ Wanted < docs THEN Wanted ELSE docs,
         delivered' = Append(delivered, Len(delivered) + 1)
  PROVE  Step
  BY DEF Step, Stream!Next, Stream!Read, Stream!Full, Wanted, Status, Cut

LEMMA MapReadOn ==
  ASSUME Wanted' = Wanted, docs' = docs, Status = "failed", Status' = "failed",
         NEW d \in 1..docs, \A i \in 1..Len(delivered) : delivered[i] < d,
         delivered' = Append(delivered, d)
  PROVE  Step
  BY DEF Step, Stream!Next, Stream!ReadOn, Wanted, Status, Cut

LEMMA MapUnread ==
  ASSUME Wanted' = Wanted, docs' = docs, delivered # <<>>,
         delivered' = SubSeq(delivered, 1, Len(delivered) - 1),
         Status' = IF Status = "end" THEN "open" ELSE Status
  PROVE  Step
  BY DEF Step, Stream!Next, Stream!Unread, Wanted, Status, Cut

LEMMA MapGrow ==
  ASSUME Wanted' = Wanted, docs' = docs + 1, delivered' = delivered, Status' = Status
  PROVE  Step
  BY DEF Step, Stream!Next, Stream!Grow, Wanted, Status, Cut

(* more() says no only when the caller has everything it asked for.        *)
LEMMA NoMeansAll ==
  ASSUME IInv, ~broken, putBack = <<>>, pos = nReturned,
         srvAt = docs \/ (haveLimit /\ pos >= nToReturn)
  PROVE  Len(delivered) = IF Wanted > 0 /\ Wanted < docs THEN Wanted ELSE docs
<1>1. /\ docs \in Nat /\ srvAt \in Nat /\ data \in Nat /\ nReturned \in Nat /\ nToReturn \in Nat
      /\ limit \in Nat /\ srvAt <= docs /\ data = srvAt
  BY CursorAssumption DEF IInv, TypeOK, BatchInv
<1>2. Len(delivered) = data /\ Handed = data
  <2>1. Handed = data
    BY DEF IInv, NoGapInv
  <2>2. Len(putBack) = 0 /\ Len(delivered) \in Nat
    BY DEF IInv, TypeOK
  <2> QED
    BY <2>1, <2>2 DEF Handed
<1>3. haveLimit => data <= limit /\ data - nReturned + nToReturn = limit /\ nReturned <= nToReturn
  BY <1>2 DEF IInv, LimitInv
<1>4. haveLimit => limit > 0
  BY DEF haveLimit
<1>5. CASE haveLimit
  BY <1>1, <1>2, <1>3, <1>4, <1>5 DEF Wanted
<1>6. CASE ~haveLimit
  BY <1>1, <1>2, <1>6 DEF Wanted
<1> QED
  BY <1>5, <1>6

LEMMA QuerySim == ASSUME IInv, Query \/ QueryFails PROVE Step
<1>1. Wanted' = Wanted /\ docs' = docs /\ delivered' = delivered
  <2>1. UNCHANGED inputs /\ docs' = docs /\ delivered' = delivered
    BY Zenon DEF Query, QueryFails
  <2> QED
    BY <2>1 DEF Wanted, haveLimit, inputs
<1>2. Status = "open" /\ Status' \in {"open", "failed"}
  BY DEF IInv, BatchInv, Query, QueryFails, Status, Cut, isDead
<1> QED
  BY <1>1, <1>2, MapStutter, MapFail

LEMMA MoreLocalSim == ASSUME IInv, MoreLocal PROVE Step
<1>0. /\ UNCHANGED inputs /\ UNCHANGED batch /\ UNCHANGED server
      /\ UNCHANGED <<nToReturn, putBack, own, client, phase, broken, kill, delivered>>
      /\ answer' \in {"yes", "no"} /\ phase = "open"
      /\ putBack # <<>> \/ AtLimit \/ pos < nReturned \/ cursorId = 0
      /\ answer' = "no" => putBack = <<>> /\ (AtLimit \/ ~(pos < nReturned))
  BY DEF MoreLocal
<1>1. Wanted' = Wanted /\ docs' = docs /\ delivered' = delivered
  BY <1>0 DEF Wanted, haveLimit, inputs, server
<1>2. Cut' = Cut
  BY <1>0 DEF Cut, isDead, inputs, batch
<1>3. CASE Cut \/ Status' = Status
  BY <1>1, <1>2, <1>3, MapStutter DEF Status
<1>4. CASE ~Cut /\ Status = "end" /\ Status' = "open"
  BY <1>1, <1>4, MapReopen
<1>5. CASE ~Cut /\ Status = "open" /\ Status' = "end"
  <2>1. answer' = "no" /\ ~broken /\ ~isDead
    BY <1>2, <1>5 DEF Status, Cut
  <2>2. putBack = <<>> /\ (AtLimit \/ (cursorId = 0 /\ ~(pos < nReturned)))
    BY <1>0, <2>1
  <2>3. /\ pos = nReturned
        /\ srvAt = docs \/ (haveLimit /\ pos >= nToReturn)
    BY <1>0, <2>1, <2>2, CursorAssumption
    DEF IInv, TypeOK, BatchInv, LimitInv, EndInv, AtLimit, isDead
  <2> QED
    BY <1>1, <1>5, <2>1, <2>2, <2>3, NoMeansAll, MapEnd
<1> QED
  BY <1>2, <1>3, <1>4, <1>5 DEF Status

LEMMA MoreReceivedSim == ASSUME IInv, MoreReceived PROVE Step
<1>0. RequestMore /\ phase = "open" /\ phase' = "open" /\ UNCHANGED inputs
      /\ UNCHANGED <<docs, delivered, broken>>
  BY DEF MoreReceived, RequestMore
<1>1. pos = nReturned /\ cursorId = 1 /\ putBack = <<>>
  BY <1>0, RequestFact
<1>2. Wanted' = Wanted /\ docs' = docs /\ delivered' = delivered
  BY <1>0 DEF Wanted, haveLimit, inputs
<1>3. PICK a \in Answers(nextBatchSize(remaining), srvAt, FALSE) :
         /\ dataReceived(a.id, a.k, srvAt)
         /\ answer' = IF a.k > 0 THEN "yes" ELSE "no"
  BY DEF MoreReceived
<1>4. Cut' = Cut
  BY <1>0, <1>1, <1>3 DEF Cut, isDead, dataReceived, inputs
<1>5. answer' \in {"yes", "no"} /\ (answer' = "no" => srvAt = docs)
  <2>1. docs \in Nat /\ srvAt \in Nat /\ srvAt <= docs
    BY CursorAssumption DEF IInv, TypeOK, BatchInv
  <2>2. a.k \in 0..(docs - srvAt) /\ (a.k = 0 => docs - srvAt = 0)
    BY <1>3 DEF Answers, Batches
  <2> QED
    BY <1>3, <2>1, <2>2
<1>6. CASE Cut \/ Status' = Status
  BY <1>2, <1>4, <1>6, MapStutter DEF Status
<1>7. CASE ~Cut /\ Status = "end" /\ Status' = "open"
  BY <1>2, <1>7, MapReopen
<1>8. CASE ~Cut /\ Status = "open" /\ Status' = "end"
  <2>1. answer' = "no" /\ ~broken
    BY <1>4, <1>8 DEF Status, Cut
  <2> QED
    BY <1>1, <1>2, <1>5, <1>8, <2>1, NoMeansAll, MapEnd
<1> QED
  BY <1>4, <1>6, <1>7, <1>8 DEF Status

LEMMA MoreThrowsSim == ASSUME IInv, MoreFails \/ MoreNotFound PROVE Step
<1>1. Wanted' = Wanted /\ docs' = docs /\ delivered' = delivered
  <2>1. UNCHANGED inputs /\ docs' = docs /\ delivered' = delivered
    BY Zenon DEF MoreFails, MoreNotFound, RequestMore
  <2> QED
    BY <2>1 DEF Wanted, haveLimit, inputs
<1>2. Status' = "failed"
  BY DEF MoreFails, MoreNotFound, Status, Cut
<1> QED
  BY <1>1, <1>2, MapFail

LEMMA NextPutBackSim == ASSUME IInv, NextPutBack PROVE Step
<1> DEFINE b == Len(putBack)
           m == Len(delivered)
           d == putBack[b]
<1>0. /\ UNCHANGED inputs /\ UNCHANGED batch /\ UNCHANGED server /\ UNCHANGED <<phase, broken>>
      /\ answer' = "none" /\ putBack # <<>> /\ phase = "open"
      /\ delivered' = Append(delivered, d)
  BY DEF NextPutBack
<1>1. Wanted' = Wanted /\ docs' = docs
  BY <1>0 DEF Wanted, haveLimit, inputs, server
<1>2. Cut' = Cut
  BY <1>0 DEF Cut, isDead, inputs, batch
<1>3. b \in Nat /\ b > 0 /\ m \in Nat /\ d \in 1..MaxDocs
  <2>1. putBack \in Seq(1..MaxDocs) /\ m \in Nat
    BY DEF IInv, TypeOK
  <2> QED
    BY <1>0, <2>1, FrontFact
<1>4. /\ docs \in Nat /\ data \in Nat /\ limit \in Nat /\ d <= data /\ data <= docs
      /\ \A i \in 1..m : delivered[i] < d
  <2>1. d <= data /\ \A i \in 1..m : delivered[i] < d
    BY <1>3 DEF IInv, OrderInv
  <2>2. docs \in Nat /\ data \in Nat /\ limit \in Nat /\ data <= docs
    BY CursorAssumption DEF IInv, TypeOK, BatchInv
  <2> QED
    BY <2>1, <2>2
<1>5. CASE Cut
  <2>1. d \in 1..docs
    BY <1>3, <1>4
  <2>2. Status = "failed" /\ Status' = "failed"
    BY <1>2, <1>5 DEF Status
  <2> QED
    BY <1>0, <1>1, <1>4, <2>1, <2>2, MapReadOn
<1>6. CASE ~Cut
  <2>1. Status = "open" /\ Status' = "open"
    BY <1>0, <1>2, <1>6 DEF Status, IInv, EndInv
  <2>2. m + b = data /\ d = data - b + 1
    BY <1>3, <1>6 DEF IInv, NoGapInv, Handed, Cut
  <2>3. haveLimit => m + b <= limit
    BY DEF IInv, LimitInv, Handed
  <2>4. m < IF Wanted > 0 /\ Wanted < docs THEN Wanted ELSE docs
    BY <1>3, <1>4, <2>2, <2>3 DEF Wanted
  <2>5. d = m + 1
    BY <1>3, <1>4, <2>2
  <2> QED
    BY <1>0, <1>1, <2>1, <2>4, <2>5, MapRead
<1> QED
  BY <1>5, <1>6

LEMMA NextInBatchSim == ASSUME IInv, NextInBatch PROVE Step
<1> DEFINE m == Len(delivered)
<1>0. /\ UNCHANGED inputs /\ UNCHANGED server /\ UNCHANGED <<cursorId, phase, broken>>
      /\ answer' = "none" /\ putBack = <<>> /\ phase = "open" /\ pos < nReturned
      /\ delivered' = Append(delivered, data + 1)
  BY DEF NextInBatch
<1>1. Wanted' = Wanted /\ docs' = docs
  BY <1>0 DEF Wanted, haveLimit, inputs, server
<1>2. Cut' = Cut
  BY <1>0 DEF Cut, isDead, inputs
<1>3. /\ docs \in Nat /\ data \in Nat /\ limit \in Nat /\ pos \in Nat /\ nReturned \in Nat
      /\ nToReturn \in Nat /\ data + 1 \in 1..docs
  BY <1>0, CursorAssumption DEF IInv, TypeOK, BatchInv
<1>4. m \in Nat /\ Handed = m
  BY <1>0 DEF IInv, TypeOK, Handed
<1>5. CASE Cut
  <2>1. \A i \in 1..m : delivered[i] < data + 1
    <3> SUFFICES ASSUME NEW i \in 1..m PROVE delivered[i] < data + 1
      OBVIOUS
    <3>1. delivered[i] \in 1..MaxDocs
      BY EltFact DEF IInv, TypeOK
    <3>2. delivered[i] <= data
      BY DEF IInv, OrderInv
    <3> QED
      BY <1>3, <3>1, <3>2
  <2>2. Status = "failed" /\ Status' = "failed"
    BY <1>2, <1>5 DEF Status
  <2> QED
    BY <1>0, <1>1, <1>3, <2>1, <2>2, MapReadOn
<1>6. CASE ~Cut
  <2>1. /\ m = data
        /\ haveLimit => m - pos + nToReturn = limit /\ nReturned <= nToReturn
    BY <1>4, <1>6 DEF IInv, NoGapInv, LimitInv, Cut
  <2>2. ~AtLimit
    BY <1>0, <1>3, <2>1 DEF AtLimit
  <2>3. Status = "open" /\ Status' = "open"
    BY <1>0, <1>2, <1>3, <1>6, <2>2 DEF Status, IInv, EndInv
  <2>4. m < IF Wanted > 0 /\ Wanted < docs THEN Wanted ELSE docs
    BY <1>0, <1>3, <1>4, <2>1 DEF Wanted
  <2> QED
    BY <1>0, <1>1, <2>1, <2>3, <2>4, MapRead
<1> QED
  BY <1>5, <1>6

LEMMA PutBackSim == ASSUME IInv, PutBack PROVE Step
<1>1. Wanted' = Wanted /\ docs' = docs
  BY DEF PutBack, Wanted, haveLimit, inputs, server
<1>2. Cut' = Cut
  BY DEF PutBack, Cut, isDead, inputs, batch
<1>3. Status' = IF Status = "end" THEN "open" ELSE Status
  BY <1>2 DEF PutBack, Status
<1> QED
  BY <1>1, <1>3, MapUnread DEF PutBack

LEMMA QuietSim ==
  ASSUME IInv, \/ Attach \/ Decouple \/ Destroy \/ ServerKill \/ ServerForgets \/ UNCHANGED vars
  PROVE  Step
<1>1. /\ UNCHANGED inputs /\ UNCHANGED batch /\ UNCHANGED <<docs, answer, broken, delivered>>
      /\ phase' = phase \/ (phase # "new" /\ phase' # "new")
  BY DEF Attach, Decouple, Destroy, ServerKill, ServerForgets, vars, server
<1>2. Wanted' = Wanted /\ docs' = docs /\ delivered' = delivered
  BY <1>1 DEF Wanted, haveLimit, inputs
<1>3. Status' = Status
  BY <1>1 DEF Status, Cut, isDead, inputs, batch
<1> QED
  BY <1>2, <1>3, MapStutter

LEMMA GrowSim == ASSUME IInv, Grow PROVE Step
<1>1. Wanted' = Wanted /\ docs' = docs + 1 /\ delivered' = delivered
  BY DEF Grow, Wanted, haveLimit, inputs
<1>2. Status' = Status
  BY DEF Grow, Status, Cut, isDead, inputs, batch
<1> QED
  BY <1>1, <1>2, MapGrow

LEMMA StepSim == ASSUME IInv, [Next]_vars PROVE Step
  BY QuerySim, MoreLocalSim, MoreReceivedSim, MoreThrowsSim, NextPutBackSim, NextInBatchSim,
     PutBackSim, QuietSim, GrowSim, Zenon
  DEF Next, More

LEMMA InitSim == Init => Stream!Init
<1> SUFFICES ASSUME Init PROVE Stream!Init
  OBVIOUS
<1>1. limit \in Nat /\ docs \in Nat /\ delivered = <<>> /\ ~broken /\ ~isDead /\ answer = "none"
  BY CursorAssumption DEF Init, isDead
<1> QED
  BY <1>1 DEF Stream!Init

(* DBClientCursor implements ResultStream: for every limit, batch size and *)
(* collection the caller sees each document once and in order, and more()  *)
(* is false only when it has all it asked for, unless the transport failed *)
(* or the tailable cursor is dead (dbclientcursor.cpp:67-175).             *)
THEOREM ImplementsStream == Spec => KeepsPromise
<1>2. Init => Stream!Init
  BY InitSim
<1>3. ASSUME IInv, [Next]_vars PROVE [Stream!Next]_(Stream!svars)
  BY <1>3, StepSim DEF Step
<1> QED
  BY <1>2, <1>3, InvInductive, PTL DEF Spec, KeepsPromise, Stream!Spec

=============================================================================
