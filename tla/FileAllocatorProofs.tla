------------------------ MODULE FileAllocatorProofs ------------------------
(***************************************************************************)
(* TLAPS proofs about FileAllocator: the thread pops what it made, an      *)
(* allocateAsap that returns has its file, the first size asked for wins.  *)
(***************************************************************************)
EXTENDS FileAllocator, SequenceTheorems, TLAPS

Working == at \in {"alloc", "pop", "fail"}

(* The file that the thread has touched and not taken off the list.        *)
Touched(n) == at \in {"pop", "fail", "end"} /\ n = name

(* The list and the sizes agree, and the thread has the size of the front. *)
SizeInv ==
    /\ \A n \in Names : inProgress(n) <=> pendingSize[n] # 0
    /\ Working => size = pendingSize[name]

(* A file is missing as long as its name is on the list, except the one at *)
(* work; it has the first size asked for when its name is off the list.    *)
DiskInv ==
    /\ first \in [Names -> 0..MaxSize]
    /\ \A n \in Names : inProgress(n) => first[n] = pendingSize[n]
    /\ \A n \in Names : ~inProgress(n) => disk[n] = first[n]
    /\ \A n \in Names : inProgress(n) /\ ~Touched(n) => disk[n] = 0
    /\ at = "pop" => disk[name] = size

(* allocateAsap waits for the size it will report.                         *)
CallInv ==
    /\ pc \in {"asap", "asapWait"} => /\ arg.name \in Names /\ arg.size \in Sizes
                                      /\ arg = [name |-> arg.name, size |-> arg.size]
                                      /\ first[arg.name] = arg.size
    /\ got # Nothing => /\ got.name \in Names
                        /\ ~inProgress(got.name) /\ disk[got.name] = got.size

IInv == FATypeOK /\ FrontIsMine /\ SizeInv /\ DiskInv /\ CallInv

-----------------------------------------------------------------------------
(* Lists of names.                                                         *)

LEMMA RangeFact ==
  ASSUME NEW S, NEW s \in Seq(S), NEW e
  PROVE  e \in Range(s) <=> \E i \in 1..Len(s) : s[i] = e
  BY LenProperties DEF Range

LEMMA InjectiveFact ==
  ASSUME NEW S, NEW s \in Seq(S)
  PROVE  IsInjective(s) <=> \A i, j \in 1..Len(s) : s[i] = s[j] => i = j
  BY LenProperties DEF IsInjective

(* RemoveFirst on a list without repetitions.                              *)
LEMMA RemoveFact ==
  ASSUME NEW S, NEW s \in Seq(S), IsInjective(s), NEW e
  PROVE  /\ RemoveFirst(s, e) \in Seq(S) /\ IsInjective(RemoveFirst(s, e))
         /\ \A x : x \in Range(RemoveFirst(s, e)) <=> x \in Range(s) /\ x # e
<1>0. Len(s) \in Nat /\ s \in [1..Len(s) -> S]
  BY LenProperties
<1>i. \A i, j \in 1..Len(s) : s[i] = s[j] => i = j
  BY InjectiveFact
<1>1. CASE ~ \E i \in 1..Len(s) : s[i] = e
  <2>1. RemoveFirst(s, e) = s
    BY <1>1 DEF RemoveFirst
  <2>2. e \notin Range(s)
    BY <1>1, RangeFact
  <2> QED
    BY <2>1, <2>2
<1>2. CASE \E i \in 1..Len(s) : s[i] = e
  <2>1. PICK k \in 1..Len(s) : s[k] = e
    BY <1>2
  <2>2. {i \in 1..Len(s) : s[i] = e} = {k}
    BY <1>i, <2>1
  <2>3. Min({k}) = k
    BY <1>0, <2>1 DEF Min
  <2>4. SelectInSeq(s, LAMBDA v : v = e) = k
    BY <2>2, <2>3 DEF SelectInSeq
  <2>5. RemoveFirst(s, e) = SubSeq(s, 1, k - 1) \o SubSeq(s, k + 1, Len(s))
    BY <1>2, <2>4 DEF RemoveFirst, RemoveAt
  <2> DEFINE a == SubSeq(s, 1, k - 1)
             b == SubSeq(s, k + 1, Len(s))
             r == a \o b
  <2>6. /\ a \in Seq(S) /\ Len(a) = k - 1 /\ \A i \in 1..(k - 1) : a[i] = s[i]
    <3>1. \A i \in 1..(k - 1) : s[i] \in S
      BY <1>0
    <3>2. 1 \in Int /\ k - 1 \in Int /\ k >= 1
      BY <1>0
    <3>3. /\ SubSeq(s, 1, k - 1) \in Seq(S)
          /\ Len(SubSeq(s, 1, k - 1)) = IF 1 <= k - 1 THEN k - 1 - 1 + 1 ELSE 0
          /\ \A i \in 1..(k - 1 - 1 + 1) : SubSeq(s, 1, k - 1)[i] = s[1 + i - 1]
      BY <3>1, <3>2, SubSeqProperties
    <3> QED
      BY <3>2, <3>3
  <2>7. /\ b \in Seq(S) /\ Len(b) = Len(s) - k /\ \A i \in 1..(Len(s) - k) : b[i] = s[k + i]
    <3>1. \A i \in (k + 1)..Len(s) : s[i] \in S
      BY <1>0
    <3>2. k + 1 \in Int /\ Len(s) \in Int /\ k <= Len(s)
      BY <1>0
    <3>3. /\ SubSeq(s, k + 1, Len(s)) \in Seq(S)
          /\ Len(SubSeq(s, k + 1, Len(s))) = IF k + 1 <= Len(s) THEN Len(s) - (k + 1) + 1 ELSE 0
          /\ \A i \in 1..(Len(s) - (k + 1) + 1) : SubSeq(s, k + 1, Len(s))[i] = s[(k + 1) + i - 1]
      BY <3>1, <3>2, SubSeqProperties
    <3> QED
      BY <3>2, <3>3
  <2> HIDE DEF a, b
  <2>8. /\ r \in Seq(S) /\ Len(r) = Len(a) + Len(b)
        /\ \A i \in 1..(Len(a) + Len(b)) : r[i] = IF i <= Len(a) THEN a[i] ELSE b[i - Len(a)]
    BY <2>6, <2>7, ConcatProperties
  <2>9. /\ Len(r) = Len(s) - 1
        /\ \A i \in 1..Len(r) : r[i] = IF i < k THEN s[i] ELSE s[i + 1]
    BY <1>0, <2>6, <2>7, <2>8
  <2> HIDE DEF r
  <2>10. \A i, j \in 1..Len(r) : r[i] = r[j] => i = j
    BY <1>0, <1>i, <2>9
  <2>11. ASSUME NEW x PROVE x \in Range(r) <=> x \in Range(s) /\ x # e
    <3>1. ASSUME NEW i \in 1..Len(r), r[i] = x
          PROVE  x # e /\ \E j \in 1..Len(s) : s[j] = x
      <4>1. CASE i < k
        BY <1>0, <1>i, <2>1, <2>9, <3>1, <4>1
      <4>2. CASE ~(i < k)
        <5>1. i + 1 \in 1..Len(s) /\ i + 1 # k /\ s[i + 1] = x
          BY <1>0, <2>9, <3>1, <4>2
        <5> QED
          BY <1>i, <2>1, <5>1
      <4> QED
        BY <4>1, <4>2
    <3>2. ASSUME NEW j \in 1..Len(s), s[j] = x, x # e
          PROVE  \E i \in 1..Len(r) : r[i] = x
      <4>1. CASE j < k
        <5>1. j \in 1..Len(r) /\ r[j] = x
          BY <1>0, <2>9, <3>2, <4>1
        <5> QED
          BY <5>1
      <4>2. CASE ~(j < k)
        <5>1. j # k
          BY <2>1, <3>2
        <5>2. j - 1 \in 1..Len(r) /\ r[j - 1] = x
          BY <1>0, <2>9, <3>2, <4>2, <5>1
        <5> QED
          BY <5>2
      <4> QED
        BY <4>1, <4>2
    <3>3. x \in Range(r) <=> \E i \in 1..Len(r) : r[i] = x
      BY <2>8, RangeFact
    <3>4. x \in Range(s) <=> \E i \in 1..Len(s) : s[i] = x
      BY RangeFact
    <3> QED
      BY <3>1, <3>2, <3>3, <3>4
  <2>12. RemoveFirst(s, e) = r
    BY <2>5 DEF r, a, b
  <2> QED
    BY <2>8, <2>10, <2>11, <2>12, InjectiveFact
<1> QED
  BY <1>1, <1>2

(* A new name at the end, and the list without its front.                  *)
LEMMA AppendFact ==
  ASSUME NEW S, NEW s \in Seq(S), IsInjective(s), NEW e \in S, e \notin Range(s)
  PROVE  /\ Append(s, e) \in Seq(S) /\ IsInjective(Append(s, e)) /\ Append(s, e) # <<>>
         /\ \A x : x \in Range(Append(s, e)) <=> x \in Range(s) \/ x = e
         /\ s # <<>> => Head(Append(s, e)) = Head(s)
<1> DEFINE r == Append(s, e)
<1>0. /\ Len(s) \in Nat /\ r \in Seq(S) /\ r # <<>> /\ Len(r) = Len(s) + 1
      /\ \A i \in 1..Len(s) : r[i] = s[i]
      /\ r[Len(s) + 1] = e
  BY LenProperties, AppendProperties
<1>1. s # <<>> => Head(r) = Head(s)
  BY HeadTailAppend
<1> HIDE DEF r
<1>2. \A i \in 1..Len(s) : s[i] # e
  BY RangeFact
<1>3. \A i, j \in 1..Len(s) : s[i] = s[j] => i = j
  BY InjectiveFact
<1>4. \A i \in 1..Len(r) : i \in 1..Len(s) \/ i = Len(s) + 1
  BY <1>0
<1>5. \A i, j \in 1..Len(r) : r[i] = r[j] => i = j
  BY <1>0, <1>2, <1>3, <1>4
<1>6. ASSUME NEW x PROVE x \in Range(r) <=> x \in Range(s) \/ x = e
  <2>1. x \in Range(r) <=> \E i \in 1..Len(r) : r[i] = x
    BY <1>0, RangeFact
  <2>2. x \in Range(s) <=> \E i \in 1..Len(s) : s[i] = x
    BY RangeFact
  <2>3. Len(s) + 1 \in 1..Len(r) /\ \A i \in 1..Len(s) : i \in 1..Len(r)
    BY <1>0
  <2> QED
    BY <1>0, <1>4, <2>1, <2>2, <2>3
<1>7. IsInjective(r)
  BY <1>0, <1>5, InjectiveFact
<1> QED
  BY <1>0, <1>1, <1>6, <1>7 DEF r

LEMMA TailFact ==
  ASSUME NEW S, NEW s \in Seq(S), IsInjective(s), s # <<>>
  PROVE  /\ Tail(s) \in Seq(S) /\ IsInjective(Tail(s))
         /\ Head(s) \in S /\ Head(s) \in Range(s)
         /\ \A x : x \in Range(Tail(s)) <=> x \in Range(s) /\ x # Head(s)
<1> DEFINE r == Tail(s)
<1>0. /\ Len(s) \in Nat \ {0} /\ r \in Seq(S) /\ Len(r) = Len(s) - 1
      /\ \A i \in 1..Len(r) : r[i] = s[i + 1]
      /\ Head(s) = s[1] /\ Head(s) \in S
  BY HeadTailProperties, EmptySeq
<1> HIDE DEF r
<1>1. \A i, j \in 1..Len(s) : s[i] = s[j] => i = j
  BY InjectiveFact
<1>2. \A i, j \in 1..Len(r) : r[i] = r[j] => i = j
  BY <1>0, <1>1
<1>3. Head(s) \in Range(s)
  BY <1>0, RangeFact
<1>4. ASSUME NEW x PROVE x \in Range(r) <=> x \in Range(s) /\ x # Head(s)
  <2>1. x \in Range(r) <=> \E i \in 1..Len(r) : r[i] = x
    BY <1>0, RangeFact
  <2>2. x \in Range(s) <=> \E i \in 1..Len(s) : s[i] = x
    BY RangeFact
  <2>3. ASSUME NEW i \in 1..Len(r), r[i] = x
        PROVE  x # Head(s) /\ \E j \in 1..Len(s) : s[j] = x
    <3>1. i + 1 \in 1..Len(s) /\ s[i + 1] = x /\ 1 \in 1..Len(s) /\ i + 1 # 1
      BY <1>0, <2>3
    <3> QED
      BY <1>0, <1>1, <3>1
  <2>4. ASSUME NEW j \in 1..Len(s), s[j] = x, x # Head(s)
        PROVE  \E i \in 1..Len(r) : r[i] = x
    <3>1. j # 1
      BY <1>0, <2>4
    <3>2. j - 1 \in 1..Len(r) /\ r[j - 1] = x
      BY <1>0, <2>4, <3>1
    <3> QED
      BY <3>2
  <2> QED
    BY <2>1, <2>2, <2>3, <2>4
<1>5. IsInjective(r)
  BY <1>0, <1>2, InjectiveFact
<1> QED
  BY <1>0, <1>3, <1>4, <1>5 DEF r

(* allocateAsap moves a name forward and leaves the front where it is.     *)
LEMMA SoonerFact ==
  ASSUME pending \in Seq(Names), IsInjective(pending), NEW n \in Names
  PROVE  /\ Sooner(n) \in Seq(Names) /\ IsInjective(Sooner(n)) /\ Sooner(n) # <<>>
         /\ \A x : x \in Range(Sooner(n)) <=> x \in Range(pending) \/ x = n
         /\ pending # <<>> => Head(Sooner(n)) = Head(pending)
<1>1. CASE pending = <<>>
  <2>1. Sooner(n) = Append(pending, n)
    BY <1>1 DEF Sooner
  <2>2. Len(pending) = 0
    BY <1>1
  <2>3. n \notin Range(pending)
    <3>1. n \in Range(pending) <=> \E i \in 1..Len(pending) : pending[i] = n
      BY RangeFact
    <3> QED
      BY <2>2, <3>1
  <2>4. /\ Append(pending, n) \in Seq(Names) /\ IsInjective(Append(pending, n))
        /\ Append(pending, n) # <<>>
        /\ \A x : x \in Range(Append(pending, n)) <=> x \in Range(pending) \/ x = n
    BY <2>3, AppendFact
  <2> QED
    BY <1>1, <2>1, <2>4
<1>2. CASE pending # <<>> /\ Head(pending) = n
  <2>1. Sooner(n) = pending
    BY <1>2 DEF Sooner
  <2>2. n \in Range(pending)
    BY <1>2, TailFact
  <2> QED
    BY <1>2, <2>1, <2>2
<1>3. CASE pending # <<>> /\ Head(pending) # n
  <2> DEFINE h == Head(pending)
             q == RemoveFirst(Tail(pending), n)
             r == <<h, n>> \o q
  <2>1. /\ Tail(pending) \in Seq(Names) /\ IsInjective(Tail(pending)) /\ h \in Names
        /\ h \in Range(pending)
        /\ \A x : x \in Range(Tail(pending)) <=> x \in Range(pending) /\ x # h
    BY <1>3, TailFact
  <2>2. /\ q \in Seq(Names) /\ IsInjective(q)
        /\ \A x : x \in Range(q) <=> x \in Range(Tail(pending)) /\ x # n
    BY <2>1, RemoveFact
  <2>3. Sooner(n) = r
    BY <1>3 DEF Sooner
  <2>4. Len(q) \in Nat
    BY <2>2
  <2> HIDE DEF h, q
  <2>5. /\ r \in Seq(Names) /\ Len(r) = 2 + Len(q)
        /\ r[1] = h /\ r[2] = n
        /\ \A i \in 3..Len(r) : r[i] = q[i - 2]
    <3>1. <<h, n>> \in Seq(Names) /\ Len(<<h, n>>) = 2 /\ <<h, n>>[1] = h /\ <<h, n>>[2] = n
      BY <2>1
    <3>2. /\ r \in Seq(Names) /\ Len(r) = Len(<<h, n>>) + Len(q)
          /\ \A i \in 1..(Len(<<h, n>>) + Len(q)) :
                r[i] = IF i <= Len(<<h, n>>) THEN <<h, n>>[i] ELSE q[i - Len(<<h, n>>)]
      BY <2>2, <3>1, ConcatProperties
    <3> QED
      BY <2>4, <3>1, <3>2
  <2> HIDE DEF r
  <2>6. \A i \in 1..Len(r) : i = 1 \/ i = 2 \/ (i - 2 \in 1..Len(q) /\ r[i] = q[i - 2])
    BY <2>4, <2>5
  <2>7. \A i \in 1..Len(q) : q[i] # h /\ q[i] # n
    <3> SUFFICES ASSUME NEW i \in 1..Len(q) PROVE q[i] # h /\ q[i] # n
      OBVIOUS
    <3>1. q[i] \in Range(q)
      BY <2>2, RangeFact
    <3> QED
      BY <2>1, <2>2, <3>1
  <2>8. \A i, j \in 1..Len(q) : q[i] = q[j] => i = j
    BY <2>2, InjectiveFact
  <2>9. h # n
    BY <1>3 DEF h
  <2>10. \A i, j \in 1..Len(r) : r[i] = r[j] => i = j
    <3> SUFFICES ASSUME NEW i \in 1..Len(r), NEW j \in 1..Len(r), r[i] = r[j] PROVE i = j
      OBVIOUS
    <3>1. CASE i \in {1, 2} \/ j \in {1, 2}
      BY <2>5, <2>6, <2>7, <2>9, <3>1
    <3>2. CASE i \notin {1, 2} /\ j \notin {1, 2}
      <4>1. i - 2 \in 1..Len(q) /\ j - 2 \in 1..Len(q) /\ q[i - 2] = q[j - 2]
        BY <2>6, <3>2
      <4>2. i - 2 = j - 2
        BY <2>8, <4>1
      <4> QED
        BY <4>2, <2>4, <2>5
    <3> QED
      BY <3>1, <3>2
  <2>11. ASSUME NEW x PROVE x \in Range(r) <=> x = h \/ x = n \/ x \in Range(q)
    <3>1. x \in Range(r) <=> \E i \in 1..Len(r) : r[i] = x
      BY <2>5, RangeFact
    <3>2. x \in Range(q) <=> \E i \in 1..Len(q) : q[i] = x
      BY <2>2, RangeFact
    <3>3. \A i \in 1..Len(q) : i + 2 \in 1..Len(r) /\ r[i + 2] = q[i]
      BY <2>4, <2>5
    <3>4. 1 \in 1..Len(r) /\ 2 \in 1..Len(r)
      BY <2>4, <2>5
    <3> QED
      BY <2>5, <2>6, <3>1, <3>2, <3>3, <3>4
  <2>12. IsInjective(r) /\ r # <<>> /\ Head(r) = h
    BY <2>4, <2>5, <2>10, InjectiveFact, EmptySeq
  <2>13. \A x : x \in Range(r) <=> x \in Range(pending) \/ x = n
    BY <2>1, <2>2, <2>11
  <2> QED
    BY <2>3, <2>5, <2>12, <2>13 DEF h
<1> QED
  BY <1>1, <1>2, <1>3

-----------------------------------------------------------------------------
(* The actions.                                                            *)

LEMMA InitInv == Init => IInv
<1> SUFFICES ASSUME Init PROVE IInv
  OBVIOUS
<1>1. pending \in Seq(Names) /\ Len(pending) = 0
  BY DEF Init
<1>2. \A n : ~inProgress(n)
  <2> SUFFICES ASSUME NEW n PROVE n \notin Range(pending)
    BY DEF inProgress
  <2>1. n \in Range(pending) <=> \E i \in 1..Len(pending) : pending[i] = n
    BY <1>1, RangeFact
  <2> QED
    BY <1>1, <2>1
<1>3. FATypeOK
  <2>1. failed \in BOOLEAN
    BY Zenon DEF Init
  <2>2. IsInjective(pending)
    <3>1. \A i, j \in 1..Len(pending) : pending[i] = pending[j] => i = j
      BY <1>1
    <3> QED
      BY <1>1, <3>1, InjectiveFact
  <2> QED
    BY <1>1, <2>1, <2>2, AllocatorAssumption DEF Init, FATypeOK
<1>4. FrontIsMine /\ SizeInv /\ DiskInv /\ CallInv
  BY <1>2, AllocatorAssumption DEF Init, FrontIsMine, SizeInv, DiskInv, CallInv, Working, Nothing
<1> QED
  BY <1>3, <1>4 DEF IInv

(* Steps that leave list, files and sizes alone; a call may return.        *)
LEMMA QuietStep ==
  ASSUME IInv, UNCHANGED <<pending, pendingSize, disk, first, name, size>>,
         failed' \in BOOLEAN, pc' \in {"idle", "asap", "asapWait", "wait", "waitAsleep"},
         at' = at \/ (at \in {"start", "asleep", "pick"} /\ at' \in {"start", "asleep", "pick"})
                  \/ (at = "fail" /\ at' = "end"),
         pc' \in {"asap", "asapWait"} => pc \in {"asap", "asapWait"} /\ arg' = arg,
         \/ got' = got \/ got' = Nothing
         \/ got'.name \in Names /\ ~inProgress(got'.name) /\ disk[got'.name] = got'.size
  PROVE  IInv'
<1>0. FATypeOK /\ FrontIsMine /\ SizeInv /\ DiskInv /\ CallInv
  BY DEF IInv
<1>1. \A n : inProgress(n)' <=> inProgress(n)
  BY DEF inProgress
<1>2. \A n : Touched(n) => Touched(n)'
  BY DEF Touched
<1>3. FATypeOK'
  BY <1>0 DEF FATypeOK
<1>4. FrontIsMine' /\ SizeInv'
  BY <1>0, <1>1 DEF FrontIsMine, SizeInv, Working
<1>5. DiskInv'
  BY <1>0, <1>1, <1>2 DEF DiskInv
<1>6. CallInv'
  BY <1>0, <1>1 DEF CallInv
<1> QED
  BY <1>3, <1>4, <1>5, <1>6 DEF IInv

(* A name is put on the list, or moved forward, behind the front.          *)
LEMMA ListStep ==
  ASSUME IInv, NEW n \in Names, NEW s \in Sizes,
         prevSize(n) = 0 \/ inProgress(n),
         pending' \in Seq(Names), IsInjective(pending'), pending' # <<>>,
         \A x : x \in Range(pending') <=> x \in Range(pending) \/ x = n,
         pending # <<>> => Head(pending') = Head(pending),
         pendingSize' = [pendingSize EXCEPT ![n] = OldSize(n, s)],
         Asked(n, s), got' = Nothing,
         at' = IF at = "asleep" THEN "pick" ELSE at,
         UNCHANGED <<disk, failed, name, size>>,
         \/ pc' = "asapWait" /\ arg' = [name |-> n, size |-> OldSize(n, s)]
         \/ pc' = "idle"
  PROVE  IInv'
<1>0. FATypeOK /\ FrontIsMine /\ SizeInv /\ DiskInv /\ CallInv
  BY DEF IInv
<1>1. \A x : inProgress(x)' <=> inProgress(x) \/ x = n
  BY DEF inProgress
<1>2. /\ inProgress(n) => pendingSize[n] # 0 /\ OldSize(n, s) = pendingSize[n] /\ first[n] # 0
      /\ ~inProgress(n) => /\ pendingSize[n] = 0 /\ disk[n] = 0 /\ first[n] = 0
                           /\ OldSize(n, s) = s
  BY <1>0 DEF SizeInv, DiskInv, OldSize, prevSize, FATypeOK
<1>3. OldSize(n, s) \in Sizes /\ OldSize(n, s) # 0
  BY <1>0, <1>2, AllocatorAssumption DEF FATypeOK, Sizes
<1>4. first' = [first EXCEPT ![n] = OldSize(n, s)]
  BY <1>0, <1>2 DEF Asked, DiskInv
<1>5. \A x \in Names : (Touched(x) <=> Touched(x)') /\ (Working <=> Working')
  BY DEF Touched, Working
<1>6. Working => inProgress(name) /\ name \in Names
  BY <1>0, TailFact DEF FrontIsMine, FATypeOK, Working, inProgress
<1>7. FATypeOK'
  BY <1>0, <1>3, SMTT(30) DEF FATypeOK, Sizes
<1>8. FrontIsMine'
  BY <1>0 DEF FrontIsMine
<1>9. SizeInv'
  BY <1>0, <1>1, <1>2, <1>3, <1>5, <1>6 DEF SizeInv, FATypeOK
<1>10. DiskInv'
  <2>1. first' \in [Names -> 0..MaxSize]
    BY <1>0, <1>3, <1>4 DEF DiskInv, Sizes
  <2>2. ~inProgress(n) /\ ~Touched(n) => disk[n] = 0
    BY <1>2
  <2> QED
    BY <1>0, <1>1, <1>2, <1>4, <1>5, <2>1, <2>2 DEF DiskInv, FATypeOK
<1>11. CallInv'
  BY <1>0, <1>3, <1>4 DEF CallInv, DiskInv
<1> QED
  BY <1>7, <1>8, <1>9, <1>10, <1>11 DEF IInv

LEMMA RequestInv ==
  ASSUME IInv, NEW n \in Names, NEW s \in Sizes, RequestAllocation(n, s)
  PROVE  IInv'
<1>0. FATypeOK /\ SizeInv /\ DiskInv
  BY DEF IInv
<1>1. CASE failed \/ prevSize(n) # 0
  BY <1>0, <1>1, QuietStep DEF RequestAllocation, listVars, thrVars, FATypeOK
<1>2. CASE ~(failed \/ prevSize(n) # 0)
  <2>1. n \notin Range(pending) /\ OldSize(n, s) = s
    BY <1>0, <1>2 DEF prevSize, SizeInv, inProgress, OldSize
  <2>2. /\ pending' = Append(pending, n)
        /\ pendingSize' = [pendingSize EXCEPT ![n] = OldSize(n, s)]
        /\ Asked(n, s) /\ got' = Nothing
        /\ at' = IF at = "asleep" THEN "pick" ELSE at
        /\ UNCHANGED <<disk, failed, name, size>>
        /\ pc' = "idle"
    BY <1>2, <2>1 DEF RequestAllocation, NotifyAll
  <2>3. /\ pending' \in Seq(Names) /\ IsInjective(pending') /\ pending' # <<>>
        /\ \A x : x \in Range(pending') <=> x \in Range(pending) \/ x = n
        /\ pending # <<>> => Head(pending') = Head(pending)
    BY <1>0, <2>1, <2>2, AppendFact DEF FATypeOK
  <2> QED
    BY <1>2, <2>2, <2>3, ListStep
<1> QED
  BY <1>1, <1>2

LEMMA AsapInv ==
  ASSUME IInv, NEW n \in Names, NEW s \in Sizes, AllocateAsap(n, s)
  PROVE  IInv'
<1>0. FATypeOK /\ SizeInv /\ DiskInv /\ pc = "idle" /\ UNCHANGED disk
  BY DEF IInv, AllocateAsap
<1>1. CASE /\ prevSize(n) # 0 /\ ~inProgress(n)
           /\ got' = [name |-> n, size |-> prevSize(n)]
           /\ UNCHANGED <<listVars, thrVars, pc, arg, first>>
  <2>1. disk[n] = prevSize(n)
    BY <1>0, <1>1 DEF prevSize, SizeInv
  <2> QED
    BY <1>0, <1>1, <2>1, QuietStep DEF listVars, thrVars, FATypeOK
<1>2. CASE got' = Nothing /\ UNCHANGED <<listVars, thrVars, pc, arg, first>>
  BY <1>0, <1>2, QuietStep DEF listVars, thrVars, FATypeOK
<1>3. CASE /\ prevSize(n) = 0 \/ inProgress(n)
           /\ pendingSize' = [pendingSize EXCEPT ![n] = OldSize(n, s)]
           /\ pending' = Sooner(n)
           /\ arg' = [name |-> n, size |-> OldSize(n, s)]
           /\ Asked(n, s)
           /\ at' = IF at = "asleep" THEN "pick" ELSE at
           /\ pc' = "asapWait"
           /\ got' = Nothing
           /\ UNCHANGED <<failed, name, size>>
  <2>1. /\ pending' \in Seq(Names) /\ IsInjective(pending') /\ pending' # <<>>
        /\ \A x : x \in Range(pending') <=> x \in Range(pending) \/ x = n
        /\ pending # <<>> => Head(pending') = Head(pending)
    BY <1>0, <1>3, SoonerFact DEF FATypeOK
  <2> QED
    BY <1>0, <1>3, <2>1, ListStep
<1> QED
  BY <1>1, <1>2, <1>3 DEF AllocateAsap

LEMMA InCallInv == ASSUME IInv, InCall \/ WaitUntilFinished PROVE IInv'
<1>0. /\ FATypeOK /\ SizeInv /\ DiskInv /\ CallInv
      /\ UNCHANGED <<pending, pendingSize, failed, disk, at, name, size, first>>
  BY DEF IInv, InCall, AsapLoop, WaitLoop, WaitUntilFinished, listVars, thrVars
<1>1. CASE AsapLoop
  <2>1. CASE ~inProgress(arg.name) /\ pc' = "idle" /\ got' = arg
    <3>1. arg.name \in Names /\ first[arg.name] = arg.size
      BY <1>0, <1>1 DEF AsapLoop, CallInv
    <3>2. disk[arg.name] = arg.size
      BY <1>0, <2>1, <3>1 DEF DiskInv
    <3> QED
      BY <1>0, <2>1, <3>1, <3>2, QuietStep DEF FATypeOK
  <2>2. CASE pc' = "idle" /\ UNCHANGED got
    BY <1>0, <2>2, QuietStep DEF FATypeOK
  <2>3. CASE pc' = "asapWait" /\ UNCHANGED <<got, arg>>
    BY <1>0, <1>1, <2>3, QuietStep DEF FATypeOK, AsapLoop
  <2> QED
    BY <1>1, <2>1, <2>2, <2>3 DEF AsapLoop
<1>2. CASE WaitLoop
  BY <1>0, <1>2, QuietStep DEF FATypeOK, WaitLoop
<1>3. CASE WaitUntilFinished
  BY <1>0, <1>3, QuietStep DEF FATypeOK, WaitUntilFinished
<1> QED
  BY <1>1, <1>2, <1>3 DEF InCall

-----------------------------------------------------------------------------

LEMMA StartInv == ASSUME IInv, Start PROVE IInv'
  BY QuietStep DEF Start, IInv, FATypeOK, listVars, callVars

(* Where notify_all finds the caller.                                      *)
LEMMA NotifyFact ==
  ASSUME pc \in {"idle", "asap", "asapWait", "wait", "waitAsleep"},
         pc' = CASE pc = "asapWait" -> "asap" [] pc = "waitAsleep" -> "wait" [] OTHER -> pc
  PROVE  /\ pc' \in {"idle", "asap", "asapWait", "wait", "waitAsleep"}
         /\ pc' \in {"asap", "asapWait"} => pc \in {"asap", "asapWait"}
  OBVIOUS

LEMMA FailInv == ASSUME IInv, Fail PROVE IInv'
<1>1. failed' \in BOOLEAN
  BY Zenon DEF Fail
<1>2. /\ pc' \in {"idle", "asap", "asapWait", "wait", "waitAsleep"}
      /\ pc' \in {"asap", "asapWait"} => pc \in {"asap", "asapWait"}
  BY NotifyFact DEF Fail, IInv, FATypeOK
<1> QED
  BY <1>1, <1>2, QuietStep DEF Fail

LEMMA PickInv == ASSUME IInv, Pick PROVE IInv'
<1>0. /\ FATypeOK /\ FrontIsMine /\ SizeInv /\ DiskInv /\ CallInv
      /\ UNCHANGED <<pending, pendingSize, failed, disk, pc, arg, got, first>>
      /\ at = "pick"
  BY DEF IInv, Pick, listVars, callVars
<1>1. CASE pending = <<>>
  BY <1>0, <1>1, QuietStep DEF Pick, FATypeOK
<1>2. CASE pending # <<>>
  <2>1. at' = "alloc" /\ name' = Head(pending) /\ size' = pendingSize[Head(pending)]
    BY <1>2 DEF Pick
  <2>2. Head(pending) \in Names /\ inProgress(Head(pending))
    BY <1>0, <1>2, TailFact DEF FATypeOK, inProgress
  <2>3. size' \in Sizes
    BY <1>0, <2>1, <2>2 DEF FATypeOK, SizeInv, Sizes
  <2>4. \A n : (inProgress(n)' <=> inProgress(n)) /\ ~Touched(n) /\ ~Touched(n)'
    BY <1>0, <2>1 DEF inProgress, Touched
  <2>5. FATypeOK'
    BY <1>0, <2>1, <2>2, <2>3 DEF FATypeOK
  <2>6. FrontIsMine' /\ SizeInv'
    BY <1>0, <1>2, <2>1, <2>4 DEF FrontIsMine, SizeInv, Working
  <2>7. DiskInv' /\ CallInv'
    BY <1>0, <2>1, <2>4 DEF DiskInv, CallInv
  <2> QED
    BY <2>5, <2>6, <2>7 DEF IInv
<1> QED
  BY <1>1, <1>2

LEMMA AllocateInv == ASSUME IInv, Allocate PROVE IInv'
<1>0. /\ FATypeOK /\ FrontIsMine /\ SizeInv /\ DiskInv /\ CallInv
      /\ UNCHANGED <<pending, pendingSize, failed, name, size, pc, arg, got, first>>
      /\ at = "alloc" /\ name \in Names /\ size \in Sizes
  BY DEF IInv, Allocate, listVars, callVars, FATypeOK
<1>1. inProgress(name)
  BY <1>0, TailFact DEF FrontIsMine, FATypeOK, inProgress
<1>2. PICK left \in 0..MaxSize : /\ disk' = [disk EXCEPT ![name] = left]
                                 /\ (at' = "pop" /\ left = size) \/ at' = "fail"
  <2>1. size \in 0..MaxSize /\ \A left \in 0..(size - 1) : left \in 0..MaxSize
    BY <1>0, AllocatorAssumption DEF Sizes
  <2> QED
    BY <2>1 DEF Allocate
<1>3. \A n : /\ inProgress(n)' <=> inProgress(n)
             /\ ~Touched(n) /\ (Touched(n)' <=> n = name)
  BY <1>0, <1>2 DEF inProgress, Touched
<1>4. FATypeOK'
  BY <1>0, <1>2 DEF FATypeOK
<1>5. FrontIsMine' /\ SizeInv'
  BY <1>0, <1>2, <1>3 DEF FrontIsMine, SizeInv, Working
<1>6. DiskInv' /\ CallInv'
  BY <1>0, <1>1, <1>2, <1>3 DEF DiskInv, CallInv, FATypeOK
<1> QED
  BY <1>4, <1>5, <1>6 DEF IInv

LEMMA PopInv == ASSUME IInv, Pop PROVE IInv'
<1>0. /\ FATypeOK /\ FrontIsMine /\ SizeInv /\ DiskInv /\ CallInv
      /\ UNCHANGED <<failed, disk, arg, got, first>>
      /\ at = "pop" /\ name \in Names /\ size \in Sizes
      /\ pending # <<>> /\ Head(pending) = name
      /\ pendingSize' = [pendingSize EXCEPT ![name] = 0]
      /\ pending' = Tail(pending)
      /\ at' = "pick" /\ name' = "none" /\ size' = 0
  BY DEF IInv, Pop, FATypeOK, FrontIsMine
<1>1. /\ pending' \in Seq(Names) /\ IsInjective(pending')
      /\ \A x : inProgress(x)' <=> inProgress(x) /\ x # name
      /\ inProgress(name)
  BY <1>0, TailFact DEF FATypeOK, inProgress
<1>2. /\ pc' \in {"idle", "asap", "asapWait", "wait", "waitAsleep"}
      /\ pc' \in {"asap", "asapWait"} => pc \in {"asap", "asapWait"}
  BY <1>0, NotifyFact DEF Pop, FATypeOK
<1>3. disk[name] = first[name]
  BY <1>0, <1>1 DEF DiskInv, SizeInv, Working
<1>4. \A n : ~Touched(n)' /\ (Touched(n) => n = name)
  BY <1>0 DEF Touched
<1>5. FATypeOK'
  BY <1>0, <1>1, <1>2, AllocatorAssumption DEF FATypeOK
<1>6. FrontIsMine' /\ SizeInv'
  BY <1>0, <1>1 DEF FrontIsMine, SizeInv, Working, FATypeOK
<1>7. DiskInv'
  BY <1>0, <1>1, <1>3, <1>4 DEF DiskInv, FATypeOK
<1>8. CallInv'
  BY <1>0, <1>1, <1>2 DEF CallInv
<1> QED
  BY <1>5, <1>6, <1>7, <1>8 DEF IInv

LEMMA NextInv == ASSUME IInv, [Next]_vars PROVE IInv'
<1>1. CASE UNCHANGED vars
  BY <1>1, QuietStep DEF vars, listVars, thrVars, callVars, IInv, FATypeOK
<1>2. CASE Allocator
  BY <1>2, StartInv, PickInv, AllocateInv, FailInv, PopInv DEF Allocator
<1> QED
  BY <1>1, <1>2, InCallInv, RequestInv, AsapInv DEF Next

LEMMA InvInductive == Spec => []IInv
<1>1. Init => IInv
  BY InitInv
<1>2. IInv /\ [Next]_vars => IInv'
  BY NextInv
<1> QED
  BY <1>1, <1>2, PTL DEF Spec

-----------------------------------------------------------------------------

(* The list has no name twice, and what the thread pops is what it has     *)
(* allocated, whatever was moved forward meanwhile (FileAllocator::run and *)
(* allocateAsap, file_allocator.cpp:98-121, :197-270).                     *)
THEOREM FrontStays == Spec => []ListInv
<1>1. IInv => ListInv
  BY DEF IInv, ListInv
<1> QED
  BY <1>1, InvInductive, PTL

(* When allocateAsap has returned, the file is there with the size that it *)
(* reported.                                                               *)
THEOREM AsapAllocates == Spec => []AsapMeansAllocated
<1>1. IInv => AsapMeansAllocated
  BY DEF IInv, CallInv, AsapMeansAllocated
<1> QED
  BY <1>1, InvInductive, PTL

(* The first size asked for is the size of the file, whatever later        *)
(* requests say.                                                           *)
THEOREM FirstSizeWins == Spec => []FirstSizeUsed
<1>1. IInv => FirstSizeUsed
  <2> SUFFICES ASSUME IInv, NEW n \in Names
               PROVE  disk[n] \in {0, first[n]} \/ (at \in {"fail", "end"} /\ n = name)
    BY DEF FirstSizeUsed
  <2>1. CASE Touched(n) /\ at = "pop" /\ inProgress(n)
    BY <2>1 DEF IInv, DiskInv, SizeInv, Working, Touched
  <2>2. CASE ~Touched(n) \/ at # "pop" \/ ~inProgress(n)
    BY <2>2 DEF IInv, DiskInv, Touched
  <2> QED
    BY <2>1, <2>2
<1> QED
  BY <1>1, InvInductive, PTL

=============================================================================
