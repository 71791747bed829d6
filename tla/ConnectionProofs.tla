-------------------------- MODULE ConnectionProofs --------------------------
(***************************************************************************)
(* Theorems about DBClientConnection, for every number of ports, messages, *)
(* cached credentials and every size of the piggy-back buffer, and about   *)
(* the R binding that runs on it (MongoR).                                 *)
(***************************************************************************)
EXTENDS MongoR, SequenceTheorems, TLAPS

-----------------------------------------------------------------------------
(* The inductive invariant.                                                *)

(* A port that was not made yet has seen nothing; the replies an exhaust   *)
(* query is owed have its number.                                          *)
FreshInv ==
    /\ \A g \in Ports : g > gen => /\ up[g] = <<>> /\ down[g] = <<>>
                                   /\ blast[g].left = 0 /\ authed[g] = "no"
    /\ \A i \in 1..Len(served) : served[i][1] <= gen
    /\ \A g \in Ports : blast[g].left > 0 => blast[g].to > 0

(* What the place of the thread says of the request it is in.              *)
CallInv ==
    /\ pc \in {"recv", "exhaust"} => call \in Message /\ call.op \in ReplyOps
    /\ pc = "exhaust" => call.op = "exhaust"
    /\ pc = "recv" /\ call.op = "auth" => authLeft > 0 /\ ~failed
    /\ pc \in {"auth", "checked"} => ~failed

(* Only a say() that threw leaves more than killCursors in the buffer.     *)
BufferInv ==
    \A i \in 1..Len(piggy) : piggy[i].op # "kill" => failed /\ piggy[i].id \in thrown

(* At rest a usable connection has nothing under way; in a call it has one *)
(* request, or what the server has written of its replies.                 *)
AtRest ==
    /\ \A i \in 1..Len(up[gen]) : up[gen][i].op \notin ReplyOps
    /\ down[gen] = <<>>
    /\ blast[gen].left = 0

Waiting ==
    /\ \A i \in 1..Len(up[gen]) :
          up[gen][i].op \in ReplyOps
          => /\ pc = "recv" /\ up[gen][i] = call
             /\ down[gen] = <<>> /\ blast[gen].left = 0
    /\ \A i, j \in 1..Len(up[gen]) :
          up[gen][i].op \in ReplyOps /\ up[gen][j].op \in ReplyOps => i = j
    /\ blast[gen].left > 0 => blast[gen].to = call.id
    /\ \A i \in 1..Len(down[gen]) :
          /\ down[gen][i].to = call.id
          /\ down[gen][i].last => i = Len(down[gen]) /\ blast[gen].left = 0
          /\ ~down[gen][i].last => call.op = "exhaust"
    /\ blast[gen].left > 0 => call.op = "exhaust"

ReplyInv ==
    ~failed => IF pc \in {"recv", "exhaust"} THEN Waiting ELSE AtRest

(* Writes and requests on their way, handled, or kept in the buffer.       *)
OnUp(g)     == {up[g][i] : i \in 1..Len(up[g])}
Handled(g)  == {served[i][2] : i \in {j \in 1..Len(served) : served[j][1] = g}}
Buffered(g) == IF g = gen THEN {piggy[i] : i \in 1..Len(piggy)} ELSE {}
Held(g)     == {m \in OnUp(g) \cup Handled(g) \cup Buffered(g) : m.op # "kill"}

(* m comes before n: in the order of their numbers unless both threw.      *)
Before(m, n) ==
    m.op # "kill" /\ n.op # "kill" /\ ~(m.id \in thrown /\ n.id \in thrown) => m.id < n.id

(* Numbers grow with time, so also from one port to the next.              *)
NumberInv ==
    /\ \A x \in thrown : x < nextId
    /\ \A g \in Ports : \A m \in Held(g) : m.id < nextId
    /\ \A g, h \in Ports : \A m \in Held(g), n \in Held(h) : g < h => m.id < n.id

(* The order along a port: handled, then on the way, then in the buffer.   *)
OrderInv ==
    /\ \A i, j \in 1..Len(served) :
          i < j /\ served[i][1] = served[j][1] => Before(served[i][2], served[j][2])
    /\ \A g \in Ports : \A m \in Handled(g), n \in OnUp(g) : Before(m, n)
    /\ \A g \in Ports : \A i, j \in 1..Len(up[g]) : i < j => Before(up[g][i], up[g][j])
    /\ \A m \in OnUp(gen) \cup Handled(gen), n \in Buffered(gen) : Before(m, n)

(* A port whose credentials were not presented carries no checked message. *)
AuthInv ==
    /\ gen > 1 /\ authed[gen] = "no" =>
          failed \/ pc = "auth" \/ (pc = "recv" /\ call.op = "auth")
    /\ \A g \in Ports : \A m \in Held(g) :
          g > 1 /\ m.op \in CheckedOps => authed[g] # "no"

IInv == TypeOK /\ FreshInv /\ CallInv /\ BufferInv /\ ReplyInv /\ NumberInv /\ OrderInv /\ AuthInv

-----------------------------------------------------------------------------
(* Facts about the socket.                                                 *)

(* t is q followed by a beginning of msgs.                                 *)
Prolongs(t, q, msgs) ==
    /\ t \in Seq(Message)
    /\ Len(t) \in Len(q)..(Len(q) + Len(msgs))
    /\ \A i \in 1..Len(q) : t[i] = q[i]
    /\ \A i \in 1..Len(t) : i > Len(q) => t[i] = msgs[i - Len(q)]

LEMMA Prefix ==
  ASSUME NEW S, NEW s \in Seq(S), NEW n \in 0..Len(s)
  PROVE  /\ SubSeq(s, 1, n) \in Seq(S) /\ Len(SubSeq(s, 1, n)) = n
         /\ \A i \in 1..n : SubSeq(s, 1, n)[i] = s[i]
<1>1. Len(s) \in Nat /\ n \in Int /\ n >= 0 /\ n <= Len(s)
  BY LenProperties
<1>2. \A i \in 1..n : s[i] \in S
  BY <1>1, ElementOfSeq
<1>3. /\ SubSeq(s, 1, n) \in Seq(S)
      /\ Len(SubSeq(s, 1, n)) = IF 1 <= n THEN n - 1 + 1 ELSE 0
      /\ \A i \in 1..(n - 1 + 1) : SubSeq(s, 1, n)[i] = s[1 + i - 1]
  <2>1. 1 \in Int /\ n \in Int
    BY <1>1
  <2> QED
    BY <1>2, <2>1, SubSeqProperties
<1>4. Len(SubSeq(s, 1, n)) = n
  BY <1>1, <1>3
<1>5. \A i \in 1..n : SubSeq(s, 1, n)[i] = s[i]
  <2> SUFFICES ASSUME NEW i \in 1..n PROVE SubSeq(s, 1, n)[i] = s[i]
    OBVIOUS
  <2>1. i \in 1..(n - 1 + 1) /\ 1 + i - 1 = i
    BY <1>1
  <2> QED
    BY <1>3, <2>1
<1> QED
  BY <1>3, <1>4, <1>5

LEMMA ProlongedBy ==
  ASSUME NEW q \in Seq(Message), NEW msgs \in Seq(Message), NEW n \in 0..Len(msgs)
  PROVE  Prolongs(q \o SubSeq(msgs, 1, n), q, msgs) /\ Len(q \o SubSeq(msgs, 1, n)) = Len(q) + n
<1> DEFINE e == SubSeq(msgs, 1, n)
           t == q \o e
<1>1. Len(q) \in Nat /\ Len(msgs) \in Nat /\ n \in Nat
  BY LenProperties
<1>2. \A i \in 1..n : i \in 1..Len(msgs) /\ msgs[i] \in Message
  BY <1>1, ElementOfSeq
<1>3. e \in Seq(Message) /\ Len(e) = n /\ \A i \in 1..n : e[i] = msgs[i]
  BY Prefix
<1> HIDE DEF e
<1>4. /\ t \in Seq(Message) /\ Len(t) = Len(q) + n
      /\ \A i \in 1..(Len(q) + n) : t[i] = IF i <= Len(q) THEN q[i] ELSE e[i - Len(q)]
  BY <1>3, ConcatProperties
<1> HIDE DEF t
<1>5. Len(t) \in Len(q)..(Len(q) + Len(msgs)) /\ \A i \in 1..Len(q) : t[i] = q[i]
  BY <1>1, <1>4
<1>6. ASSUME NEW i \in 1..Len(t), i > Len(q) PROVE t[i] = msgs[i - Len(q)]
  <2>1. i - Len(q) \in 1..n
    BY <1>1, <1>4, <1>6
  <2> QED
    BY <1>1, <1>3, <1>4, <1>6, <2>1
<1>7. Prolongs(t, q, msgs) /\ Len(t) = Len(q) + n
  BY <1>4, <1>5, <1>6 DEF Prolongs
<1> QED
  BY <1>7 DEF t, e

(* What send writes is a beginning of msgs, all of it only when it works.  *)
LEMMA SendResult ==
  ASSUME NEW s \in Sockets, NEW q \in Seq(Message), NEW msgs \in Seq(Message),
         Len(msgs) > 0, NEW w \in send(s, q, msgs)
  PROVE  /\ w.sock \in Sockets /\ w.ok \in BOOLEAN
         /\ Prolongs(w.up, q, msgs)
         /\ ~w.ok => Len(w.up) < Len(q) + Len(msgs)
<1> DEFINE Good == /\ w.sock \in Sockets /\ w.ok \in BOOLEAN
                   /\ Prolongs(w.up, q, msgs)
                   /\ ~w.ok => Len(w.up) < Len(q) + Len(msgs)
<1>1. Len(q) \in Nat /\ Len(msgs) \in Nat
  BY LenProperties
<1>2. ASSUME w = [sock |-> "open", up |-> q \o msgs, ok |-> TRUE] PROVE Good
  <2>1. w.sock = "open" /\ w.up = q \o msgs /\ w.ok = TRUE
    BY <1>2
  <2>2. SubSeq(msgs, 1, Len(msgs)) = msgs /\ Len(msgs) \in 0..Len(msgs)
    BY <1>1, SubSeqFull
  <2>3. Prolongs(w.up, q, msgs)
    <3>1. Prolongs(q \o SubSeq(msgs, 1, Len(msgs)), q, msgs)
      BY <2>2, ProlongedBy
    <3> QED
      BY <2>1, <2>2, <3>1
  <2>4. w.ok /\ w.ok \in BOOLEAN /\ w.sock \in Sockets
    BY <2>1, Zenon DEF Sockets
  <2> QED
    BY <2>3, <2>4, Zenon
<1>3. ASSUME NEW t \in {"open", "reset"}, NEW n \in 0..(Len(msgs) - 1),
             w = [sock |-> t, up |-> q \o SubSeq(msgs, 1, n), ok |-> FALSE]
      PROVE  Good
  <2>1. w.sock = t /\ w.up = q \o SubSeq(msgs, 1, n) /\ w.ok = FALSE
    BY <1>3
  <2>2. n \in 0..Len(msgs) /\ n < Len(msgs)
    BY <1>1
  <2>3. Prolongs(w.up, q, msgs) /\ Len(w.up) = Len(q) + n
    BY <2>1, <2>2, ProlongedBy
  <2>4. w.ok \in BOOLEAN /\ w.sock \in Sockets
    BY <2>1, Zenon DEF Sockets
  <2>5. Len(w.up) < Len(q) + Len(msgs)
    BY <1>1, <2>2, <2>3
  <2> QED
    BY <2>3, <2>4, <2>5, Zenon
<1>4. ASSUME NEW b \in {FALSE, s = "reset"}, w = [sock |-> s, up |-> q, ok |-> b] PROVE Good
  <2>1. w.sock = s /\ w.up = q /\ w.ok = b
    BY <1>4
  <2>2. w.ok \in BOOLEAN
    BY <2>1, Zenon
  <2>3. Prolongs(w.up, q, msgs)
    BY <1>1, <2>1 DEF Prolongs
  <2> QED
    BY <1>1, <2>1, <2>2, <2>3
<1>5. \/ w = [sock |-> "open", up |-> q \o msgs, ok |-> TRUE]
      \/ \E t \in {"open", "reset"}, n \in 0..(Len(msgs) - 1) :
             w = [sock |-> t, up |-> q \o SubSeq(msgs, 1, n), ok |-> FALSE]
      \/ \E b \in {FALSE, s = "reset"} : w = [sock |-> s, up |-> q, ok |-> b]
  <2>1. CASE s = "open"
    <3>1. w \in {[sock |-> "open", up |-> q \o msgs, ok |-> TRUE]}
                \cup UNION {{[sock |-> t, up |-> q \o SubSeq(msgs, 1, n), ok |-> FALSE] :
                                t \in {"open", "reset"}} : n \in 0..(Len(msgs) - 1)}
      BY <2>1 DEF send
    <3> QED
      BY <3>1
  <2>2. CASE s # "open"
    <3>1. w \in {[sock |-> s, up |-> q, ok |-> b] : b \in {FALSE, s = "reset"}}
      BY <2>2 DEF send
    <3> QED
      BY <3>1, Zenon
  <2> QED
    BY <2>1, <2>2
<1>6. Good
  BY <1>2, <1>3, <1>4, <1>5, Zenon
<1> QED
  BY <1>6

(* The messages kept in the buffer.                                        *)
Kept == {piggy[i] : i \in 1..Len(piggy)}

(* t is the output of the current port with some of the buffer added to    *)
(* it and, when the call works, perhaps m at the end.                      *)
Written(t, m, ok) ==
    /\ t \in Seq(Message)
    /\ Len(t) >= Len(up[gen])
    /\ \A i \in 1..Len(up[gen]) : t[i] = up[gen][i]
    /\ \A i \in 1..Len(t) :
          i > Len(up[gen]) => t[i] \in Kept \/ (ok /\ i = Len(t) /\ t[i] = m)

LEMMA SendWritten ==
  ASSUME up[gen] \in Seq(Message), piggy \in Seq(Message), piggy # <<>>, sock[gen] \in Sockets,
         NEW m, NEW w \in send(sock[gen], up[gen], piggy)
  PROVE  w.sock \in Sockets /\ w.ok \in BOOLEAN /\ Written(w.up, m, FALSE)
<1>1. Len(piggy) > 0 /\ Len(piggy) \in Nat /\ Len(up[gen]) \in Nat
  BY EmptySeq, LenProperties
<1>2. w.sock \in Sockets /\ w.ok \in BOOLEAN /\ Prolongs(w.up, up[gen], piggy)
  BY <1>1, SendResult
<1>3. ASSUME NEW i \in 1..Len(w.up), i > Len(up[gen]) PROVE w.up[i] \in Kept
  <2>1. i - Len(up[gen]) \in 1..Len(piggy)
    BY <1>1, <1>2, <1>3 DEF Prolongs
  <2> QED
    BY <1>2, <1>3, <2>1 DEF Kept, Prolongs
<1> QED
  BY <1>1, <1>2, <1>3 DEF Written, Prolongs

(* The outcome of a say(): it may leave the buffer as it was, emptied or   *)
(* with m in it, and m reaches the output only when it works.              *)
SayOutcome(w, m) ==
    /\ w.sock \in Sockets
    /\ w.ok \in BOOLEAN
    /\ Written(w.up, m, w.ok)
    /\ w.piggy \in {<<>>, piggy, Append(piggy, m)}
    /\ w.ok => w.piggy = <<>>

LEMMA AloneResult ==
  ASSUME NEW s \in Sockets, NEW m \in Message, NEW q, Written(q, m, FALSE),
         Len(up[gen]) \in Nat, NEW w \in Alone(s, q, m)
  PROVE  SayOutcome(w, m)
<1> DEFINE one == <<m>>
<1>1. one \in Seq(Message) /\ Len(one) = 1 /\ one[1] = m
  OBVIOUS
<1>2. PICK v \in send(s, q, one) :
         w = [sock |-> v.sock, up |-> v.up, ok |-> v.ok, piggy |-> <<>>]
  BY DEF Alone
<1> HIDE DEF one
<1>3. w.sock = v.sock /\ w.up = v.up /\ w.ok = v.ok /\ w.piggy = <<>>
  BY <1>2
<1>4. q \in Seq(Message) /\ Len(q) \in Nat
  BY LenProperties DEF Written
<1>a. Len(one) > 0
  BY <1>1
<1>5. /\ v.sock \in Sockets /\ v.ok \in BOOLEAN
      /\ Prolongs(v.up, q, one)
      /\ ~v.ok => Len(v.up) < Len(q) + Len(one)
  BY <1>1, <1>4, <1>a, SendResult
<1>6. /\ v.up \in Seq(Message) /\ Len(v.up) \in Len(q)..(Len(q) + 1)
      /\ \A i \in 1..Len(q) : v.up[i] = q[i]
      /\ Len(q) >= Len(up[gen])
  BY <1>1, <1>4, <1>5 DEF Prolongs, Written
<1>7. \A i \in 1..Len(up[gen]) : v.up[i] = up[gen][i]
  <2>1. \A i \in 1..Len(up[gen]) : i \in 1..Len(q) /\ q[i] = up[gen][i]
    BY <1>4, <1>6 DEF Written
  <2> QED
    BY <1>6, <2>1
<1>8. ASSUME NEW i \in 1..Len(v.up), i > Len(up[gen])
      PROVE  v.up[i] \in Kept \/ (v.ok /\ i = Len(v.up) /\ v.up[i] = m)
  <2>1. CASE i <= Len(q)
    BY <1>4, <1>6, <1>8, <2>1 DEF Written
  <2>2. CASE i > Len(q)
    <3>1. i = Len(q) + 1 /\ i = Len(v.up) /\ i - Len(q) = 1
      BY <1>4, <1>6, <2>2
    <3>2. v.up[i] = m
      BY <1>1, <1>5, <2>2, <3>1 DEF Prolongs
    <3>3. ~(Len(v.up) < Len(q) + Len(one))
      BY <1>1, <1>4, <3>1
    <3> QED
      BY <1>5, <3>1, <3>2, <3>3, Zenon
  <2> QED
    BY <1>4, <2>1, <2>2
<1>9. Written(v.up, m, v.ok)
  BY <1>4, <1>6, <1>7, <1>8 DEF Written
<1> QED
  BY <1>3, <1>5, <1>9 DEF SayOutcome

LEMMA SayResult ==
  ASSUME up[gen] \in Seq(Message), piggy \in Seq(Message), sock[gen] \in Sockets,
         NEW m \in Message, NEW w \in say(m)
  PROVE  SayOutcome(w, m)
<1>1. Len(up[gen]) \in Nat /\ Len(piggy) \in Nat /\ Written(up[gen], m, FALSE)
  BY LenProperties DEF Written
<1>2. ASSUME w \in Alone(sock[gen], up[gen], m) PROVE SayOutcome(w, m)
  BY <1>1, <1>2, AloneResult
<1>3. ASSUME piggy # <<>>, w \in Apart(m) PROVE SayOutcome(w, m)
  <2>1. PICK v \in send(sock[gen], up[gen], piggy) :
           w \in IF v.ok THEN Alone(v.sock, v.up, m)
                 ELSE {[sock |-> v.sock, up |-> v.up, ok |-> FALSE, piggy |-> piggy]}
    BY <1>3 DEF Apart
  <2>2. v.sock \in Sockets /\ v.ok \in BOOLEAN /\ Written(v.up, m, FALSE)
    BY <1>3, SendWritten
  <2>3. CASE w \in Alone(v.sock, v.up, m)
    BY <1>1, <2>2, <2>3, AloneResult
  <2>4. CASE w = [sock |-> v.sock, up |-> v.up, ok |-> FALSE, piggy |-> piggy]
    <3>1. w.sock = v.sock /\ w.up = v.up /\ w.ok = FALSE /\ w.piggy = piggy
      BY <2>4
    <3> QED
      BY <2>2, <3>1, Zenon DEF SayOutcome
  <2> QED
    BY <2>1, <2>2, <2>3, <2>4
<1>4. ASSUME w \in Together(m) PROVE SayOutcome(w, m)
  <2> DEFINE all == Append(piggy, m)
  <2>1. PICK v \in send(sock[gen], up[gen], all) :
           w = [sock |-> v.sock, up |-> v.up, ok |-> v.ok,
                piggy |-> IF v.ok THEN <<>> ELSE all]
    BY <1>4 DEF Together
  <2>2. /\ all \in Seq(Message) /\ Len(all) = Len(piggy) + 1
        /\ \A i \in 1..Len(piggy) : all[i] = piggy[i]
        /\ all[Len(piggy) + 1] = m
    BY AppendProperties
  <2>a. Len(all) = Len(piggy) + 1
    BY <2>2
  <2>3. w.sock = v.sock /\ w.up = v.up /\ w.ok = v.ok /\ w.piggy = IF v.ok THEN <<>> ELSE all
    BY <2>1
  <2>4. Len(all) > 0
    BY <1>1, <2>2
  <2>5. w.piggy \in {<<>>, piggy, Append(piggy, m)}
    BY <2>3
  <2> HIDE DEF all
  <2>6. /\ v.sock \in Sockets /\ v.ok \in BOOLEAN
        /\ Prolongs(v.up, up[gen], all)
        /\ ~v.ok => Len(v.up) < Len(up[gen]) + Len(all)
    BY <2>2, <2>4, SendResult
  <2>7. ASSUME NEW i \in 1..Len(v.up), i > Len(up[gen])
        PROVE  v.up[i] \in Kept \/ (v.ok /\ i = Len(v.up) /\ v.up[i] = m)
    <3>0. v.up[i] = all[i - Len(up[gen])]
      BY <2>6, <2>7 DEF Prolongs
    <3> DEFINE L == Len(v.up)
               U == Len(up[gen])
               P == Len(piggy)
    <3>1. L \in U..(U + Len(all)) /\ L \in Nat /\ U \in Nat /\ P \in Nat /\ i \in 1..L /\ i > U
      BY <1>1, <2>6, <2>7, LenProperties DEF Prolongs
    <3>2. CASE i - U \in 1..P
      BY <2>2, <3>0, <3>2 DEF Kept
    <3>3. CASE i - U = P + 1
      <4>1. v.up[i] = m
        BY <2>2, <3>0, <3>3
      <4> HIDE DEF L, U, P
      <4>2. i = L /\ ~(L < U + (P + 1))
        BY <2>a, <3>1, <3>3 DEF P
      <4>3. i = Len(v.up) /\ ~(Len(v.up) < Len(up[gen]) + Len(all))
        BY <2>a, <4>2 DEF L, U, P
      <4> QED
        BY <2>6, <4>1, <4>3, Zenon
    <3>4. i - U \in 1..P \/ i - U = P + 1
      <4>1. L \in U..(U + (P + 1))
        BY <2>a, <3>1
      <4> HIDE DEF L, U, P
      <4> QED
        BY <3>1, <4>1
    <3> QED
      BY <3>2, <3>3, <3>4
  <2>8. Written(v.up, m, v.ok)
    BY <1>1, <2>6, <2>7 DEF Written, Prolongs
  <2> QED
    BY <2>3, <2>5, <2>6, <2>8 DEF SayOutcome
<1> QED
  BY <1>2, <1>3, <1>4 DEF say

(* The outcome of a flush.                                                 *)
LEMMA FlushResult ==
  ASSUME up[gen] \in Seq(Message), piggy \in Seq(Message), sock[gen] \in Sockets,
         NEW m, NEW w \in flush
  PROVE  w.sock \in Sockets /\ w.ok \in BOOLEAN /\ Written(w.up, m, FALSE)
<1>1. CASE piggy = <<>>
  <2>1. w = [sock |-> sock[gen], up |-> up[gen], ok |-> TRUE]
    BY <1>1 DEF flush
  <2>2. w.sock = sock[gen] /\ w.up = up[gen] /\ w.ok = TRUE
    BY <2>1
  <2>3. Written(up[gen], m, FALSE)
    BY LenProperties DEF Written
  <2> QED
    BY <2>2, <2>3
<1>2. CASE piggy # <<>>
  <2>1. w \in send(sock[gen], up[gen], piggy)
    BY <1>2 DEF flush
  <2> QED
    BY <1>2, <2>1, SendWritten
<1> QED
  BY <1>1, <1>2

-----------------------------------------------------------------------------
(* What steps do to the messages of the ports.                             *)

Mail(g) == OnUp(g) \cup Handled(g) \cup Buffered(g)

(* The numbers of messages are numbers, and only ports made have any.      *)
LEMMA MailTypes ==
  ASSUME TypeOK, FreshInv
  PROVE  /\ \A g \in Ports : \A x \in Mail(g) : x \in Message /\ x.id \in Nat
         /\ \A g \in Ports : g > gen => Mail(g) = {}
         /\ nextId \in Nat /\ gen \in Nat /\ Ports \subseteq Nat
<1>1. /\ up \in [Ports -> Seq(Message)] /\ piggy \in Seq(Message)
      /\ served \in Seq(Ports \X Message) /\ gen \in Ports
  BY DEF TypeOK
<1>2. nextId \in Nat /\ gen \in Nat /\ Ports \subseteq Nat /\ MaxId \in Nat
  BY <1>1, ConnectionAssumption DEF TypeOK, Ports
<1>3. \A x \in Message : x.id \in Nat
  BY <1>2 DEF Message
<1>4. ASSUME NEW g \in Ports, NEW x \in Mail(g) PROVE x \in Message
  <2>1. ASSUME x \in OnUp(g) PROVE x \in Message
    BY <1>1, <2>1, ElementOfSeq DEF OnUp
  <2>2. ASSUME x \in Handled(g) PROVE x \in Message
    <3>1. PICK i \in 1..Len(served) : x = served[i][2]
      BY <2>2 DEF Handled
    <3>2. served[i] \in Ports \X Message
      BY <1>1, ElementOfSeq
    <3> QED
      BY <3>1, <3>2
  <2>3. ASSUME x \in Buffered(g) PROVE x \in Message
    BY <1>1, <2>3, ElementOfSeq DEF Buffered
  <2> QED
    BY <2>1, <2>2, <2>3 DEF Mail
<1>5. ASSUME NEW g \in Ports, g > gen PROVE Mail(g) = {}
  <2>1. up[g] = <<>>
    BY <1>5 DEF FreshInv
  <2>2. OnUp(g) = {}
    BY <2>1 DEF OnUp
  <2>3. Handled(g) = {}
    BY <1>2, <1>5 DEF Handled, FreshInv
  <2>4. Buffered(g) = {}
    BY <1>2, <1>5 DEF Buffered
  <2> QED
    BY <2>2, <2>3, <2>4 DEF Mail
<1> QED
  BY <1>2, <1>3, <1>4, <1>5

(* A write to the current port, as say, sayPiggyBack and flush make it;    *)
(* m is the message it was made for.                                       *)
LEMMA PushMessages ==
  ASSUME TypeOK, FreshInv, BufferInv, NumberInv, OrderInv,
         NEW m, m.id = nextId, NEW ok \in BOOLEAN,
         NEW t, Written(t, m, ok), up' = [up EXCEPT ![gen] = t],
         \A i \in 1..Len(piggy') : piggy'[i] \in Kept \/ piggy'[i] = m,
         ok => piggy' = <<>>,
         thrown' = thrown \/ thrown' = thrown \cup {nextId},
         served' = served,
         \/ nextId' = nextId + 1
         \/ nextId' = nextId /\ ok = FALSE /\ piggy' = <<>> /\ thrown' = thrown,
         gen' = gen \/ (gen' = gen + 1 /\ piggy' = <<>>)
  PROVE  /\ NumberInv' /\ OrderInv'
         /\ \A g \in Ports : \A x \in Held(g)' :
               x \in Held(g) \/ (g = gen /\ x = m /\ (ok \/ piggy' # <<>>))
<1>0. /\ up \in [Ports -> Seq(Message)] /\ gen \in Ports /\ up[gen] \in Seq(Message)
      /\ Len(up[gen]) \in Nat
  <2>1. up \in [Ports -> Seq(Message)] /\ gen \in Ports /\ up[gen] \in Seq(Message)
    BY DEF TypeOK
  <2> QED
    BY <2>1, LenProperties
<1>1. /\ \A g \in Ports : \A x \in Mail(g) : x.id \in Nat
      /\ \A g \in Ports : g > gen => Mail(g) = {}
      /\ nextId \in Nat /\ gen \in Nat /\ Ports \subseteq Nat
  BY MailTypes
<1>2. PICK G \in Ports : G = gen
  BY <1>0
<1>3. up'[G] = t /\ \A g \in Ports : g # G => up'[g] = up[g]
  BY <1>0, <1>2
<1>4. \A g \in Ports : Handled(g)' = Handled(g)
  BY DEF Handled
<1>5. \A g \in Ports : g # G => OnUp(g)' = OnUp(g)
  BY <1>3 DEF OnUp
<1>6. Kept = Buffered(G) /\ \A g \in Ports : g # G => Buffered(g) = {}
  BY <1>2 DEF Kept, Buffered
<1>7. \A x \in OnUp(G)' : x \in OnUp(G) \/ x \in Kept \/ (ok /\ x = m)
  <2> TAKE x \in OnUp(G)'
  <2>1. PICK i \in 1..Len(t) : x = t[i]
    BY <1>3 DEF OnUp
  <2>2. Len(t) \in Nat
    BY LenProperties DEF Written
  <2>3. CASE i <= Len(up[gen])
    <3>1. i \in 1..Len(up[gen])
      BY <1>0, <2>2, <2>3
    <3> QED
      BY <1>2, <2>1, <3>1 DEF Written, OnUp
  <2>4. CASE i > Len(up[gen])
    BY <2>1, <2>4 DEF Written
  <2> QED
    BY <1>0, <2>2, <2>3, <2>4
<1>8. /\ \A x \in Buffered(G)' : gen' = gen /\ (x \in Kept \/ x = m)
      /\ \A g \in Ports : g # G => Buffered(g)' = {}
      /\ piggy' = <<>> => Buffered(G)' = {}
  <2>0. piggy' = <<>> => \A g \in Ports : Buffered(g)' = {}
    BY DEF Buffered
  <2>1. gen' # gen => \A g \in Ports : Buffered(g)' = {}
    BY <2>0, <1>1
  <2>2. gen' = gen => \A g \in Ports : g # G => Buffered(g)' = {}
    BY <1>2 DEF Buffered
  <2>3. gen' = gen => \A x \in Buffered(G)' : x \in Kept \/ x = m
    BY <1>2 DEF Buffered
  <2> QED
    BY <2>0, <2>1, <2>2, <2>3
<1>9. \A x \in Kept : x.op # "kill" => x.id \in thrown
  BY DEF Kept, BufferInv
<1>10. \A g \in Ports : \A x \in Mail(g) : x.op # "kill" => x.id < nextId
  BY DEF Mail, Held, NumberInv
<1>11. thrown \subseteq thrown' /\ \A x \in Nat : x < nextId /\ x \in thrown' => x \in thrown
  BY <1>1
<1>12. ASSUME NEW g \in Ports, NEW x \in Mail(g), NEW y \in Mail(g), Before(x, y)
       PROVE  Before(x, y)'
  BY <1>1, <1>10, <1>11, <1>12 DEF Before
<1>13. ASSUME NEW g \in Ports, NEW x \in Mail(g) PROVE Before(x, m)'
  BY <1>1, <1>10 DEF Before
<1>14. ASSUME NEW x \in Kept, NEW y \in Kept PROVE Before(x, y)'
  BY <1>9, <1>11 DEF Before
<1>15. \A x \in OnUp(G) \cup Handled(G), y \in Kept : Before(x, y)
  BY <1>2, <1>6 DEF OrderInv
<1>16. \A g \in Ports : \A x \in Held(g)' :
         x \in Held(g) \/ (g = gen /\ x = m /\ (ok \/ piggy' # <<>>))
  <2> SUFFICES ASSUME NEW g \in Ports, NEW x \in Held(g)'
               PROVE  x \in Held(g) \/ (g = gen /\ x = m /\ (ok \/ piggy' # <<>>))
    OBVIOUS
  <2>1. x.op # "kill" /\ (x \in OnUp(g)' \/ x \in Handled(g)' \/ x \in Buffered(g)')
    BY DEF Held
  <2>2. CASE g # G
    BY <1>4, <1>5, <1>8, <2>1, <2>2 DEF Held
  <2>3. CASE g = G
    BY <1>2, <1>4, <1>6, <1>7, <1>8, <2>1, <2>3 DEF Held
  <2> QED
    BY <2>2, <2>3
<1>17. NumberInv'
  <2>1. \A x \in thrown' : x < nextId'
    <3>1. thrown \subseteq Nat
      BY DEF TypeOK
    <3>2. \A x \in thrown : x \in Nat /\ x < nextId
      BY <3>1 DEF NumberInv
    <3>3. CASE nextId' = nextId + 1
      BY <1>1, <3>2, <3>3
    <3>4. CASE nextId' = nextId /\ thrown' = thrown
      BY <3>2, <3>4
    <3> QED
      BY <3>3, <3>4
  <2>2. \A g \in Ports : \A x \in Held(g) : x.id \in Nat /\ x.id < nextId
    BY <1>1 DEF Mail, Held, NumberInv
  <2>3. ok \/ piggy' # <<>> => nextId' = nextId + 1
    OBVIOUS
  <2>4. ASSUME NEW g \in Ports, NEW x \in Held(g)' PROVE x.id < nextId'
    <3>1. CASE x \in Held(g)
      BY <1>1, <2>2, <3>1
    <3>2. CASE x = m /\ (ok \/ piggy' # <<>>)
      BY <1>1, <2>3, <3>2
    <3> QED
      BY <1>16, <3>1, <3>2
  <2>5. \A g \in Ports : g > gen => Held(g) = {}
    BY <1>1 DEF Mail, Held
  <2>6. ASSUME NEW g \in Ports, NEW h \in Ports, NEW x \in Held(g)', NEW y \in Held(h)', g < h
        PROVE  x.id < y.id
    <3>1. CASE y \in Held(h) /\ x \in Held(g)
      BY <2>6, <3>1 DEF NumberInv
    <3>2. CASE y \in Held(h) /\ g = gen
      BY <1>1, <2>5, <2>6, <3>2
    <3>3. CASE h = gen /\ y = m /\ x \in Held(g)
      BY <2>2, <3>3
    <3>4. CASE h = gen /\ g = gen
      BY <1>1, <2>6, <3>4
    <3> QED
      BY <1>16, <2>6, <3>1, <3>2, <3>3, <3>4
  <2> QED
    BY <2>1, <2>4, <2>6 DEF NumberInv
<1>18. OrderInv'
  <2>1. ASSUME NEW i \in 1..Len(served), NEW j \in 1..Len(served),
               i < j, served[i][1] = served[j][1]
        PROVE  Before(served[i][2], served[j][2])'
    <3>0. served[i] \in Ports \X Message
      BY ElementOfSeq DEF TypeOK
    <3>1. PICK g \in Ports : served[i][1] = g
      BY <3>0
    <3>2. served[i][2] \in Mail(g) /\ served[j][2] \in Mail(g)
      BY <2>1, <3>1 DEF Mail, Handled
    <3>3. Before(served[i][2], served[j][2])
      BY <2>1 DEF OrderInv
    <3>4. PICK x, y : x = served[i][2] /\ y = served[j][2]
      OBVIOUS
    <3>5. Before(x, y)'
      BY <1>12, <3>2, <3>3, <3>4
    <3> QED
      BY <3>4, <3>5
  <2>2. ASSUME NEW g \in Ports, NEW x \in Handled(g)', NEW y \in OnUp(g)' PROVE Before(x, y)'
    <3>1. x \in Handled(g) /\ x \in Mail(g)
      BY <1>4 DEF Mail
    <3>2. CASE y \in OnUp(g)
      <4>1. Before(x, y) /\ y \in Mail(g)
        BY <3>1, <3>2 DEF OrderInv, Mail
      <4> QED
        BY <1>12, <3>1, <4>1
    <3>3. CASE g = G /\ y \in Kept
      <4>1. Before(x, y) /\ y \in Mail(g)
        BY <1>6, <1>15, <3>1, <3>3 DEF Mail
      <4> QED
        BY <1>12, <3>1, <4>1
    <3>4. CASE y = m
      BY <1>13, <3>1, <3>4
    <3> QED
      BY <1>5, <1>7, <3>2, <3>3, <3>4
  <2>3. ASSUME NEW g \in Ports, NEW i \in 1..Len(up[g]), NEW j \in 1..Len(up[g]), i < j,
               NEW x, NEW y, x = up[g][i], y = up[g][j]
        PROVE  Before(x, y)'
    <3>1. Before(x, y) /\ x \in Mail(g) /\ y \in Mail(g)
      BY <2>3 DEF OrderInv, Mail, OnUp
    <3> QED
      BY <1>12, <3>1
  <2>4. ASSUME NEW i \in 1..Len(t), NEW j \in 1..Len(t), i < j,
               NEW x, NEW y, x = t[i], y = t[j]
        PROVE  Before(x, y)'
    <3> DEFINE U == Len(up[gen])
               L == Len(t)
    <3>0. L \in Nat /\ U \in Nat /\ i \in 1..L /\ j \in 1..L /\ i < j
      BY <1>0, <2>4, LenProperties DEF Written
    <3>a. /\ i <= U => i \in 1..U
          /\ j <= U => j \in 1..U
          /\ i <= U \/ i > U
          /\ j <= U \/ j > U
          /\ i > U => j > U
          /\ i # L
      <4> HIDE DEF U, L
      <4> QED
        BY <3>0
    <3>1. CASE i <= U /\ j <= U
      <4>1. x = up[G][i] /\ y = up[G][j] /\ i \in 1..Len(up[G]) /\ j \in 1..Len(up[G])
        BY <1>2, <2>4, <3>1, <3>a DEF Written
      <4> QED
        BY <2>3, <2>4, <4>1
    <3>2. y \in Kept \/ y = m \/ j <= U
      BY <2>4, <3>a DEF Written
    <3>3. x \in Kept \/ x \in OnUp(G)
      <4>1. CASE i <= U
        BY <1>2, <2>4, <3>a, <4>1 DEF Written, OnUp
      <4>2. CASE i > U
        BY <2>4, <3>a, <4>2 DEF Written
      <4> QED
        BY <3>a, <4>1, <4>2
    <3>4. x \in Mail(G)
      BY <1>6, <3>3 DEF Mail
    <3>5. CASE y = m
      BY <1>13, <3>4, <3>5
    <3>6. CASE y \in Kept
      <4>1. y \in Mail(G)
        BY <1>6, <3>6 DEF Mail
      <4>2. CASE x \in Kept
        BY <1>14, <3>6, <4>2
      <4>3. CASE x \in OnUp(G)
        <5>1. Before(x, y)
          BY <1>15, <3>6, <4>3
        <5> QED
          BY <1>12, <3>4, <4>1, <5>1
      <4> QED
        BY <3>3, <4>2, <4>3
    <3> QED
      BY <3>1, <3>2, <3>5, <3>6, <3>a
  <2>5. ASSUME NEW g \in Ports, NEW i \in 1..Len(up'[g]), NEW j \in 1..Len(up'[g]), i < j
        PROVE  Before(up[g][i], up[g][j])'
    <3>1. PICK x, y : x = up'[g][i] /\ y = up'[g][j]
      OBVIOUS
    <3>2. CASE g # G
      BY <1>3, <2>3, <2>5, <3>1, <3>2
    <3>3. CASE g = G
      BY <1>3, <2>4, <2>5, <3>1, <3>3
    <3> QED
      BY <3>2, <3>3
  <2>6. ASSUME NEW x \in OnUp(G)' \cup Handled(G)', NEW y \in Buffered(G)' PROVE Before(x, y)'
    <3>1. x \in OnUp(G) \/ x \in Handled(G) \/ x \in Kept
      BY <1>4, <1>7, <1>8
    <3>2. x \in Mail(G)
      BY <1>6, <3>1 DEF Mail
    <3>3. CASE y = m
      BY <1>13, <3>2, <3>3
    <3>4. CASE y \in Kept
      <4>1. y \in Mail(G)
        BY <1>6, <3>4 DEF Mail
      <4>2. CASE x \in Kept
        BY <1>14, <3>4, <4>2
      <4>3. CASE x \in OnUp(G) \/ x \in Handled(G)
        <5>1. Before(x, y)
          BY <1>15, <3>4, <4>3
        <5> QED
          BY <1>12, <3>2, <4>1, <5>1
      <4> QED
        BY <3>1, <4>2, <4>3
    <3> QED
      BY <1>8, <3>3, <3>4
  <2>7. ASSUME NEW x \in (OnUp(gen) \cup Handled(gen))', NEW y \in Buffered(gen)' PROVE Before(x, y)'
    <3>1. CASE gen' = gen
      <4>1. x \in OnUp(G)' \cup Handled(G)' /\ y \in Buffered(G)'
        BY <1>2, <3>1 DEF OnUp, Handled, Buffered
      <4> QED
        BY <2>6, <4>1
    <3>2. CASE gen' # gen
      BY <3>2 DEF Buffered
    <3> QED
      BY <3>1, <3>2
  <2> QED
    BY <2>1, <2>2, <2>5, <2>7 DEF OrderInv
<1> QED
  BY <1>16, <1>17, <1>18

(* The server takes the first message of a port.                           *)
LEMMA ServeMessages ==
  ASSUME TypeOK, FreshInv, NumberInv, OrderInv, NEW g \in Ports, up[g] # <<>>,
         up' = [up EXCEPT ![g] = Tail(up[g])],
         served' = Append(served, <<g, Head(up[g])>>),
         UNCHANGED <<gen, piggy, nextId, thrown>>
  PROVE  /\ NumberInv' /\ OrderInv'
         /\ \A h \in Ports : \A x \in Held(h)' : x \in Held(h)
         /\ Head(up[g]) \in OnUp(g) /\ g <= gen
         /\ up' \in [Ports -> Seq(Message)] /\ served' \in Seq(Ports \X Message)
         /\ \A i \in 1..Len(served') : \/ i \in 1..Len(served) /\ served'[i] = served[i]
                                       \/ i = Len(served) + 1 /\ served'[i] = <<g, Head(up[g])>>
<1> DEFINE m == Head(up[g])
           s == up[g]
           t == Tail(up[g])
<1>0. /\ up \in [Ports -> Seq(Message)] /\ s \in Seq(Message) /\ gen \in Ports
      /\ served \in Seq(Ports \X Message)
  BY DEF TypeOK
<1>1. /\ m \in Message /\ t \in Seq(Message) /\ m = s[1]
      /\ Len(s) \in Nat \ {0} /\ Len(t) = Len(s) - 1
      /\ \A i \in 1..Len(t) : t[i] = s[i + 1]
  BY <1>0, HeadTailProperties, EmptySeq
<1>2. up' = [up EXCEPT ![g] = t] /\ served' = Append(served, <<g, m>>) /\ <<g, m>> \in Ports \X Message
  BY <1>1
<1> HIDE DEF m, t
<1>3. 1 \in 1..Len(s) /\ \A i \in 1..Len(t) : i + 1 \in 1..Len(s)
  BY <1>1
<1>4. up'[g] = t /\ \A h \in Ports : h # g => up'[h] = up[h]
  BY <1>0, <1>2
<1>5. /\ served' \in Seq(Ports \X Message) /\ Len(served') = Len(served) + 1 /\ Len(served) \in Nat
      /\ \A i \in 1..Len(served) : served'[i] = served[i]
      /\ served'[Len(served) + 1] = <<g, m>>
  BY <1>0, <1>2, AppendProperties, LenProperties
<1>6. \A i \in 1..Len(served') : \/ i \in 1..Len(served) /\ served'[i] = served[i]
                                 \/ i = Len(served) + 1 /\ served'[i] = <<g, m>>
  BY <1>5
<1>7. m \in OnUp(g) /\ \A x \in OnUp(g)' : x \in OnUp(g)
  BY <1>1, <1>3, <1>4 DEF OnUp
<1>8. \A h \in Ports : h # g => OnUp(h)' = OnUp(h)
  BY <1>4 DEF OnUp
<1>9. /\ \A x \in Handled(g)' : x \in Handled(g) \/ x = m
      /\ \A h \in Ports : h # g => \A x \in Handled(h)' : x \in Handled(h)
  <2> SUFFICES ASSUME NEW h \in Ports, NEW x \in Handled(h)'
               PROVE  x \in Handled(h) \/ (h = g /\ x = m)
    OBVIOUS
  <2>1. PICK i \in 1..Len(served') : served'[i][1] = h /\ x = served'[i][2]
    BY DEF Handled
  <2> QED
    BY <1>6, <2>1 DEF Handled
<1>10. \A h \in Ports : Buffered(h)' = Buffered(h)
  BY DEF Buffered
<1>11. \A x, y : Before(x, y)' <=> Before(x, y)
  BY DEF Before
<1>12. \A h \in Ports : \A x \in Held(h)' : x \in Held(h)
  <2> SUFFICES ASSUME NEW h \in Ports, NEW x \in Held(h)' PROVE x \in Held(h)
    OBVIOUS
  <2>1. CASE h = g
    BY <1>7, <1>9, <1>10, <2>1 DEF Held
  <2>2. CASE h # g
    BY <1>8, <1>9, <1>10, <2>2 DEF Held
  <2> QED
    BY <2>1, <2>2
<1>13. NumberInv'
  BY <1>12 DEF NumberInv
<1>14. g <= gen
  <2>1. gen \in Nat /\ g \in Nat
    BY <1>0 DEF Ports
  <2> QED
    BY <2>1 DEF FreshInv
<1>15. OrderInv'
  <2>1. ASSUME NEW i \in 1..Len(served'), NEW j \in 1..Len(served'),
               i < j, served'[i][1] = served'[j][1]
        PROVE  Before(served[i][2], served[j][2])'
    <3>1. i \in 1..Len(served) /\ served'[i] = served[i]
      BY <1>5, <2>1
    <3>2. CASE j \in 1..Len(served) /\ served'[j] = served[j]
      BY <1>11, <2>1, <3>1, <3>2 DEF OrderInv
    <3>3. CASE served'[j] = <<g, m>>
      <4>1. served[i][1] = g /\ served[i][2] \in Handled(g) /\ served'[j][2] = m
        BY <2>1, <3>1, <3>3 DEF Handled
      <4>2. Before(served[i][2], m)
        BY <1>7, <4>1 DEF OrderInv
      <4> QED
        BY <1>11, <3>1, <4>1, <4>2
    <3> QED
      BY <1>6, <3>2, <3>3
  <2>2. ASSUME NEW h \in Ports, NEW x \in Handled(h)', NEW y \in OnUp(h)' PROVE Before(x, y)
    <3>1. CASE x \in Handled(h)
      <4>1. y \in OnUp(h)
        BY <1>7, <1>8
      <4> QED
        BY <3>1, <4>1 DEF OrderInv
    <3>2. CASE h = g /\ x = m
      <4>1. PICK i \in 1..Len(t) : y = t[i]
        BY <1>4, <3>2 DEF OnUp
      <4>2. i + 1 \in 1..Len(s) /\ y = s[i + 1] /\ 1 < i + 1
        BY <1>1, <1>3, <4>1
      <4> QED
        BY <1>1, <1>3, <3>2, <4>2 DEF OrderInv
    <3> QED
      BY <1>9, <3>1, <3>2
  <2>3. ASSUME NEW h \in Ports, NEW i \in 1..Len(up'[h]), NEW j \in 1..Len(up'[h]), i < j
        PROVE  Before(up'[h][i], up'[h][j])
    <3>1. CASE h # g
      BY <1>4, <2>3, <3>1 DEF OrderInv
    <3>2. CASE h = g
      <4>1. /\ up'[h][i] = s[i + 1] /\ up'[h][j] = s[j + 1] /\ i + 1 < j + 1
            /\ i + 1 \in 1..Len(s) /\ j + 1 \in 1..Len(s)
        BY <1>1, <1>3, <1>4, <2>3, <3>2
      <4> QED
        BY <4>1 DEF OrderInv
    <3> QED
      BY <3>1, <3>2
  <2>4. ASSUME NEW x \in (OnUp(gen) \cup Handled(gen))', NEW y \in Buffered(gen)' PROVE Before(x, y)
    <3>1. PICK G \in Ports : G = gen
      BY <1>0
    <3>2. x \in OnUp(G)' \cup Handled(G)' /\ y \in Buffered(G)
      BY <1>10, <3>1 DEF OnUp, Handled, Buffered
    <3>3. x \in OnUp(G) \cup Handled(G)
      BY <1>7, <1>8, <1>9, <3>2
    <3> QED
      BY <3>1, <3>2, <3>3 DEF OrderInv
  <2> QED
    BY <1>11, <2>1, <2>2, <2>3, <2>4 DEF OrderInv
<1>16. up' \in [Ports -> Seq(Message)]
  BY <1>0, <1>1, <1>2
<1> QED
  BY <1>5, <1>6, <1>7, <1>12, <1>13, <1>14, <1>15, <1>16 DEF m

(* What a port had on its way is cut off at some point.                    *)
LEMMA CutMessages ==
  ASSUME TypeOK, NumberInv, OrderInv, NEW g \in Ports, NEW n \in 0..Len(up[g]),
         up' = [up EXCEPT ![g] = SubSeq(up[g], 1, n)],
         UNCHANGED <<gen, piggy, nextId, thrown, served>>
  PROVE  /\ NumberInv' /\ OrderInv'
         /\ \A h \in Ports : \A x \in Held(h)' : x \in Held(h)
         /\ up' \in [Ports -> Seq(Message)]
         /\ \A h \in Ports : /\ Len(up'[h]) <= Len(up[h])
                             /\ \A i \in 1..Len(up'[h]) : i \in 1..Len(up[h]) /\ up'[h][i] = up[h][i]
<1> DEFINE s == up[g]
           t == SubSeq(up[g], 1, n)
<1>0. /\ up \in [Ports -> Seq(Message)] /\ s \in Seq(Message) /\ gen \in Ports
  BY DEF TypeOK
<1>1. Len(s) \in Nat /\ n \in Nat /\ n <= Len(s)
  BY <1>0, LenProperties
<1>2. \A i \in 1..n : i \in 1..Len(s) /\ s[i] \in Message
  BY <1>0, <1>1, ElementOfSeq
<1>3. t \in Seq(Message) /\ Len(t) = n /\ \A i \in 1..n : t[i] = s[i]
  BY <1>0, Prefix
<1> HIDE DEF t
<1>4. up'[g] = t /\ \A h \in Ports : h # g => up'[h] = up[h]
  BY <1>0 DEF t
<1>5. \A h \in Ports : /\ Len(up'[h]) <= Len(up[h])
                       /\ \A i \in 1..Len(up'[h]) : i \in 1..Len(up[h]) /\ up'[h][i] = up[h][i]
  <2> TAKE h \in Ports
  <2>1. CASE h = g
    BY <1>1, <1>2, <1>3, <1>4, <2>1
  <2>2. CASE h # g
    <3>1. Len(up[h]) \in Nat
      BY <1>0, LenProperties
    <3> QED
      BY <1>4, <2>2, <3>1
  <2> QED
    BY <2>1, <2>2
<1>6. /\ \A h \in Ports : Handled(h)' = Handled(h) /\ Buffered(h)' = Buffered(h)
      /\ \A h \in Ports : \A x \in OnUp(h)' : x \in OnUp(h)
      /\ \A x, y : Before(x, y)' <=> Before(x, y)
  <2>1. \A h \in Ports : Handled(h)' = Handled(h) /\ Buffered(h)' = Buffered(h)
    BY DEF Handled, Buffered
  <2>2. \A h \in Ports : \A x \in OnUp(h)' : x \in OnUp(h)
    BY <1>5 DEF OnUp
  <2>3. \A x, y : Before(x, y)' <=> Before(x, y)
    BY DEF Before
  <2> QED
    BY <2>1, <2>2, <2>3
<1>7. \A h \in Ports : \A x \in Held(h)' : x \in Held(h)
  BY <1>6 DEF Held
<1>8. NumberInv'
  BY <1>7 DEF NumberInv
<1>9. OrderInv'
  <2>1. ASSUME NEW i \in 1..Len(served), NEW j \in 1..Len(served),
               i < j, served[i][1] = served[j][1]
        PROVE  Before(served[i][2], served[j][2])'
    BY <1>6, <2>1 DEF OrderInv
  <2>2. ASSUME NEW h \in Ports, NEW x \in Handled(h)', NEW y \in OnUp(h)' PROVE Before(x, y)
    BY <1>6 DEF OrderInv
  <2>3. ASSUME NEW h \in Ports, NEW i \in 1..Len(up'[h]), NEW j \in 1..Len(up'[h]), i < j
        PROVE  Before(up'[h][i], up'[h][j])
    BY <1>5, <2>3 DEF OrderInv
  <2>4. ASSUME NEW x \in (OnUp(gen) \cup Handled(gen))', NEW y \in Buffered(gen)' PROVE Before(x, y)
    <3>1. PICK G \in Ports : G = gen
      BY <1>0
    <3>2. x \in OnUp(G)' \cup Handled(G)' /\ y \in Buffered(G)
      BY <1>6, <3>1 DEF OnUp, Handled, Buffered
    <3>3. x \in OnUp(G) \cup Handled(G)
      BY <1>6, <3>2
    <3> QED
      BY <3>1, <3>2, <3>3 DEF OrderInv
  <2> QED
    BY <1>6, <2>1, <2>2, <2>3, <2>4 DEF OrderInv
<1>10. up' \in [Ports -> Seq(Message)]
  BY <1>0, <1>3 DEF t
<1> QED
  BY <1>5, <1>7, <1>8, <1>9, <1>10

(* Steps that move no message.                                             *)
LEMMA SameMessages ==
  ASSUME NumberInv, OrderInv, UNCHANGED <<up, gen, piggy, nextId, thrown, served>>
  PROVE  NumberInv' /\ OrderInv' /\ \A h \in Ports : Held(h)' = Held(h)
BY DEF NumberInv, OrderInv, Held, OnUp, Handled, Buffered, Before

-----------------------------------------------------------------------------
(* The invariant holds initially.                                          *)

LEMMA InitInv == Init => IInv
<1> SUFFICES ASSUME Init PROVE IInv
  OBVIOUS
<1>1. /\ up = [g \in Ports |-> <<>>] /\ down = [g \in Ports |-> <<>>]
      /\ blast = [g \in Ports |-> [to |-> 0, left |-> 0]]
      /\ gen = 1 /\ piggy = <<>> /\ served = <<>> /\ thrown = {}
      /\ authed = [g \in Ports |-> "no"] /\ pc = "idle" /\ call = NoMsg
  BY DEF Init
<1>2. 1 \in Ports /\ Len(piggy) = 0 /\ Len(served) = 0 /\ \A g \in Ports : Len(up[g]) = 0
  BY <1>1, ConnectionAssumption DEF Ports
<1>3. \A g \in Ports : Held(g) = {} /\ OnUp(g) = {} /\ Handled(g) = {}
  BY <1>1, <1>2 DEF Held, OnUp, Handled, Buffered
<1>4. TypeOK
  <2>1. failed \in BOOLEAN
    BY ConnectionAssumption, Zenon DEF Init
  <2>2. sock \in [Ports -> Sockets]
    BY DEF Init, Sockets
  <2>3. up \in [Ports -> Seq(Message)] /\ down \in [Ports -> Seq(Reply)]
    BY <1>1
  <2>4. blast \in [Ports -> [to : 0..MaxId, left : 0..MaxBlast]]
    BY <1>1, ConnectionAssumption
  <2>5. /\ gen \in Ports /\ piggy \in Seq(Message) /\ served \in Seq(Ports \X Message)
        /\ authed \in [Ports -> {"no", "yes", "threw"}] /\ thrown \in SUBSET (1..MaxId)
    BY <1>1, <1>2
  <2>6. /\ lastTry \in 0..MaxTime /\ now \in 1..MaxTime /\ nextId \in 1..(MaxId + 1)
        /\ authLeft \in 0..(2 * AuthEntries) /\ cursors \in Nat
    BY ConnectionAssumption DEF Init
  <2>7. /\ pc \in {"idle", "auth", "checked", "recv", "exhaust", "deleted"}
        /\ call \in Message \cup {NoMsg} /\ todo \in CheckedOps \cup {"none"}
        /\ outcome \in {"none", "ok", "threw", "wrongId"}
    BY DEF Init
  <2> QED
    BY <2>1, <2>2, <2>3, <2>4, <2>5, <2>6, <2>7 DEF TypeOK
<1>5. FreshInv
  BY <1>1, <1>2 DEF FreshInv
<1>6. CallInv /\ BufferInv
  BY <1>1, <1>2 DEF CallInv, BufferInv
<1>7. ReplyInv
  BY <1>1, <1>2 DEF ReplyInv, AtRest
<1>8. NumberInv
  BY <1>1, <1>3 DEF NumberInv
<1>9. OrderInv
  BY <1>1, <1>2, <1>3 DEF OrderInv, Buffered
<1>10. AuthInv
  BY <1>1, <1>3 DEF AuthInv
<1> QED
  BY <1>4, <1>5, <1>6, <1>7, <1>8, <1>9, <1>10 DEF IInv

-----------------------------------------------------------------------------
(* The operations that send.                                               *)

(* The part of AuthInv about messages.                                     *)
MailAuthed ==
    \A g \in Ports : \A m \in Held(g) : g > 1 /\ m.op \in CheckedOps => authed[g] # "no"

(* The part of TypeOK a say() changes.                                     *)
PortTypes ==
    /\ sock \in [Ports -> Sockets]
    /\ up \in [Ports -> Seq(Message)]
    /\ piggy \in Seq(Message)
    /\ failed \in BOOLEAN
    /\ nextId \in 1..(MaxId + 1)
    /\ thrown \in SUBSET (1..MaxId)

LEMMA SaidInv ==
  ASSUME IInv, NEW op \in Ops,
         op \in CheckedOps /\ gen > 1 => authed[gen] # "no",
         NEW w \in say([op |-> op, id |-> nextId]), Said(w)
  PROVE  /\ PortTypes' /\ FreshInv' /\ BufferInv' /\ NumberInv' /\ OrderInv' /\ MailAuthed'
         /\ [op |-> op, id |-> nextId] \in Message
         /\ w.ok \in BOOLEAN /\ failed' = (failed \/ ~w.ok)
         /\ ~failed' => \A i \in 1..Len(up'[gen]) :
               \/ i \in 1..Len(up[gen]) /\ up'[gen][i] = up[gen][i]
               \/ up'[gen][i].op = "kill"
               \/ i = Len(up'[gen]) /\ up'[gen][i] = [op |-> op, id |-> nextId]
         /\ Len(up'[gen]) \in Nat /\ Len(up'[gen]) >= Len(up[gen])
<1> DEFINE m == [op |-> op, id |-> nextId]
<1>0. TypeOK /\ FreshInv /\ BufferInv /\ NumberInv /\ OrderInv /\ MailAuthed
  BY DEF IInv, AuthInv, MailAuthed
<1>1. /\ up \in [Ports -> Seq(Message)] /\ up[gen] \in Seq(Message) /\ piggy \in Seq(Message)
      /\ sock \in [Ports -> Sockets] /\ sock[gen] \in Sockets /\ gen \in Ports
      /\ failed \in BOOLEAN /\ nextId \in 1..(MaxId + 1) /\ thrown \in SUBSET (1..MaxId)
  BY <1>0 DEF TypeOK
<1>2. /\ nextId <= MaxId /\ nextId' = nextId + 1
      /\ sock' = [sock EXCEPT ![gen] = w.sock]
      /\ up' = [up EXCEPT ![gen] = w.up]
      /\ piggy' = w.piggy
      /\ thrown' = IF w.ok THEN thrown ELSE thrown \cup {nextId}
      /\ failed' = (failed \/ ~w.ok)
      /\ UNCHANGED <<down, blast, gen, lastTry, authed, now, served, cursors>>
  BY DEF Said
<1>3. MaxId \in Nat /\ nextId \in 1..MaxId /\ nextId \in Nat
  BY <1>1, <1>2, ConnectionAssumption
<1>4. m \in Message /\ m.id = nextId /\ m.op = op
  BY <1>3 DEF Message
<1> HIDE DEF m
<1>5. SayOutcome(w, m)
  BY <1>1, <1>4, SayResult DEF m
<1>6. /\ w.sock \in Sockets /\ w.ok \in BOOLEAN /\ Written(w.up, m, w.ok)
      /\ w.piggy \in {<<>>, piggy, Append(piggy, m)} /\ (w.ok => w.piggy = <<>>)
  BY <1>5 DEF SayOutcome
<1>7. w.piggy \in Seq(Message) /\ \A i \in 1..Len(w.piggy) : w.piggy[i] \in Kept \/ w.piggy[i] = m
  <2>1. CASE w.piggy = <<>>
    BY <2>1
  <2>2. CASE w.piggy = piggy
    BY <1>1, <2>2 DEF Kept
  <2>3. CASE w.piggy = Append(piggy, m)
    <3> DEFINE q == Append(piggy, m)
    <3>1. /\ q \in Seq(Message) /\ Len(q) = Len(piggy) + 1 /\ Len(piggy) \in Nat
          /\ \A i \in 1..Len(piggy) : q[i] = piggy[i]
          /\ q[Len(piggy) + 1] = m
      BY <1>1, <1>4, AppendProperties, LenProperties
    <3>2. w.piggy = q
      BY <2>3
    <3> HIDE DEF q
    <3>3. \A i \in 1..Len(q) : i \in 1..Len(piggy) \/ i = Len(piggy) + 1
      BY <3>1
    <3>4. \A i \in 1..Len(q) : q[i] \in Kept \/ q[i] = m
      BY <3>1, <3>3 DEF Kept
    <3> QED
      BY <3>1, <3>2, <3>4
  <2> QED
    BY <1>6, <2>1, <2>2, <2>3
<1>8. thrown' = thrown \/ thrown' = thrown \cup {nextId}
  BY <1>2, <1>6
<1>9. /\ NumberInv' /\ OrderInv'
      /\ \A g \in Ports : \A x \in Held(g)' :
            x \in Held(g) \/ (g = gen /\ x = m /\ (w.ok \/ piggy' # <<>>))
  <2>1. PICK ok \in BOOLEAN : ok = w.ok
    BY <1>6
  <2>t. PICK t : t = w.up
    OBVIOUS
  <2>2. Written(t, m, ok) /\ up' = [up EXCEPT ![gen] = t] /\ (ok => piggy' = <<>>)
    BY <1>2, <1>6, <2>1, <2>t
  <2>3. \A i \in 1..Len(piggy') : piggy'[i] \in Kept \/ piggy'[i] = m
    BY <1>2, <1>7
  <2>4. nextId' = nextId + 1 /\ served' = served /\ gen' = gen
    BY <1>2
  <2>5. /\ NumberInv' /\ OrderInv'
        /\ \A g \in Ports : \A x \in Held(g)' :
              x \in Held(g) \/ (g = gen /\ x = m /\ (ok \/ piggy' # <<>>))
    BY <1>0, <1>4, <1>8, <2>2, <2>3, <2>4, PushMessages, ZenonT(30)
  <2> QED
    BY <2>1, <2>5
<1>10. MailAuthed'
  BY <1>0, <1>2, <1>4, <1>9 DEF MailAuthed
<1>11. PortTypes'
  <2>1. failed' \in BOOLEAN
    BY <1>2, Zenon
  <2>2. sock' \in [Ports -> Sockets] /\ up' \in [Ports -> Seq(Message)] /\ piggy' \in Seq(Message)
    BY <1>1, <1>2, <1>6, <1>7 DEF Written
  <2>3. nextId' \in 1..(MaxId + 1) /\ thrown' \in SUBSET (1..MaxId)
    BY <1>1, <1>2, <1>3, <1>8
  <2> QED
    BY <2>1, <2>2, <2>3 DEF PortTypes
<1>12. FreshInv'
  <2>1. \A g \in Ports : g > gen => up'[g] = up[g]
    <3>1. gen \in Nat
      BY <1>1 DEF Ports
    <3> QED
      BY <1>1, <1>2, <3>1
  <2> QED
    BY <1>0, <1>2, <2>1 DEF FreshInv
<1>13. BufferInv'
  <2> SUFFICES ASSUME NEW i \in 1..Len(piggy'), piggy'[i].op # "kill"
               PROVE  failed' /\ piggy'[i].id \in thrown'
    BY DEF BufferInv
  <2>1. ~w.ok
    <3>1. piggy' = <<>> => Len(piggy') = 0
      OBVIOUS
    <3> QED
      BY <1>2, <1>6, <3>1
  <2>2. failed' /\ thrown \subseteq thrown' /\ nextId \in thrown'
    BY <1>2, <2>1
  <2>3. \A x \in Kept : x.op # "kill" => x.id \in thrown
    BY <1>0 DEF Kept, BufferInv
  <2> QED
    BY <1>2, <1>4, <1>7, <2>2, <2>3
<1>14. up'[gen] = w.up /\ Len(up'[gen]) \in Nat /\ Len(up'[gen]) >= Len(up[gen])
  <2>1. up'[gen] = w.up
    BY <1>1, <1>2
  <2>2. Len(w.up) \in Nat /\ Len(w.up) >= Len(up[gen])
    BY <1>6, LenProperties DEF Written
  <2> QED
    BY <2>1, <2>2
<1>15. ASSUME ~failed', NEW i \in 1..Len(up'[gen])
       PROVE  \/ i \in 1..Len(up[gen]) /\ up'[gen][i] = up[gen][i]
              \/ up'[gen][i].op = "kill"
              \/ i = Len(up'[gen]) /\ up'[gen][i] = m
  <2>1. ~failed
    BY <1>2, <1>15
  <2>2. \A x \in Kept : x.op = "kill"
    BY <1>0, <2>1 DEF Kept, BufferInv
  <2>3. Len(up[gen]) \in Nat
    BY <1>1, LenProperties
  <2>4. CASE i <= Len(up[gen])
    <3>1. i \in 1..Len(up[gen])
      BY <1>14, <2>3, <2>4
    <3> QED
      BY <1>6, <1>14, <3>1 DEF Written
  <2>5. CASE i > Len(up[gen])
    BY <1>6, <1>14, <2>2, <2>5 DEF Written
  <2> QED
    BY <1>14, <2>3, <2>4, <2>5
<1> QED
  BY <1>2, <1>4, <1>6, <1>9, <1>10, <1>11, <1>12, <1>13, <1>14, <1>15 DEF m

(* TypeOK of a step that only says something, by its parts.                *)
LEMMA SaidTypes ==
  ASSUME TypeOK, PortTypes', NEW w, Said(w), UNCHANGED <<authLeft, todo>>,
         pc' \in {"idle", "recv"}, call' \in Message \cup {NoMsg},
         outcome' \in {"none", "ok", "threw", "wrongId"}
  PROVE  TypeOK'
BY DEF TypeOK, PortTypes, Said

LEMMA CallSendInv ==
  ASSUME IInv, NEW op \in ReplyOps, CallSend(op), pc \in {"idle", "auth", "checked"},
         op = "auth" => pc = "auth" /\ authLeft > 0,
         op \in CheckedOps /\ gen > 1 => authed[gen] # "no",
         pc = "auth" => op = "auth"
  PROVE  IInv'
<1>0. TypeOK /\ CallInv /\ ReplyInv /\ AuthInv /\ op \in Ops
  BY DEF IInv, Ops
<1>1. PICK w \in say([op |-> op, id |-> nextId]) :
         /\ Said(w)
         /\ IF w.ok
            THEN pc' = "recv" /\ call' = [op |-> op, id |-> nextId] /\ UNCHANGED outcome
            ELSE pc' = "idle" /\ outcome' = "threw" /\ UNCHANGED call
         /\ UNCHANGED <<authLeft, todo>>
  BY DEF CallSend
<1> DEFINE m == [op |-> op, id |-> nextId]
<1>2. m.op = op
  OBVIOUS
<1> HIDE DEF m
<1>3. /\ PortTypes' /\ FreshInv' /\ BufferInv' /\ NumberInv' /\ OrderInv' /\ MailAuthed'
      /\ m \in Message
      /\ w.ok \in BOOLEAN /\ failed' = (failed \/ ~w.ok)
      /\ ~failed' => \A i \in 1..Len(up'[gen]) :
            \/ i \in 1..Len(up[gen]) /\ up'[gen][i] = up[gen][i]
            \/ up'[gen][i].op = "kill"
            \/ i = Len(up'[gen]) /\ up'[gen][i] = m
      /\ Len(up'[gen]) \in Nat
  BY <1>0, <1>1, SaidInv DEF m
<1>4. /\ w.ok => pc' = "recv" /\ call' = m /\ UNCHANGED outcome
      /\ ~w.ok => pc' = "idle" /\ outcome' = "threw" /\ UNCHANGED call
      /\ UNCHANGED <<authLeft, todo, gen, authed, down, blast>>
  BY <1>1, <1>3 DEF m, Said
<1>5. TypeOK'
  <2>1. pc' \in {"idle", "recv"} /\ call' \in Message \cup {NoMsg}
    BY <1>0, <1>3, <1>4 DEF TypeOK
  <2>2. outcome' \in {"none", "ok", "threw", "wrongId"}
    BY <1>0, <1>3, <1>4 DEF TypeOK
  <2> QED
    BY <1>0, <1>1, <1>3, <2>1, <2>2, SaidTypes
<1>6. CallInv'
  <2>1. CASE w.ok
    BY <1>0, <1>2, <1>3, <1>4, <2>1 DEF CallInv
  <2>2. CASE ~w.ok
    BY <1>4, <2>2 DEF CallInv
  <2> QED
    BY <2>1, <2>2
<1>7. ReplyInv'
  <2> SUFFICES ASSUME ~failed' PROVE pc' = "recv" /\ Waiting'
    BY DEF ReplyInv
  <2>1. ~failed /\ w.ok /\ pc' = "recv" /\ call' = m
    BY <1>3, <1>4
  <2>2. AtRest
    BY <1>0, <2>1 DEF ReplyInv
  <2>3. \A i \in 1..Len(up'[gen]) : up'[gen][i].op \in ReplyOps => i = Len(up'[gen]) /\ up'[gen][i] = m
    <3>1. "kill" \notin ReplyOps
      BY DEF ReplyOps
    <3> QED
      BY <1>3, <2>2, <3>1 DEF AtRest
  <2>4. down'[gen] = <<>> /\ blast'[gen].left = 0 /\ Len(down'[gen]) = 0 /\ gen' = gen
    BY <1>4, <2>2 DEF AtRest
  <2> QED
    BY <2>1, <2>3, <2>4 DEF Waiting
<1>8. AuthInv'
  <2>1. CASE failed
    BY <1>3, <2>1 DEF AuthInv, MailAuthed
  <2>2. CASE ~w.ok
    BY <1>3, <2>2 DEF AuthInv, MailAuthed
  <2>3. CASE ~failed /\ w.ok
    <3>1. pc' = "recv" /\ call'.op = op
      BY <1>2, <1>4, <2>3
    <3>2. ASSUME gen > 1, authed[gen] = "no" PROVE op = "auth"
      BY <1>0, <2>3, <3>2 DEF AuthInv
    <3> QED
      BY <1>3, <1>4, <3>1, <3>2 DEF AuthInv, MailAuthed
  <2> QED
    BY <1>3, <2>1, <2>2, <2>3
<1> QED
  BY <1>3, <1>5, <1>6, <1>7, <1>8 DEF IInv

LEMMA AuthSendInv == ASSUME IInv, AuthSend PROVE IInv'
<1>1. /\ pc = "auth" /\ authLeft > 0 /\ CallSend("auth")
      /\ "auth" \in ReplyOps /\ "auth" \notin CheckedOps
  BY DEF AuthSend, ReplyOps, CheckedOps
<1> QED
  BY <1>1, CallSendInv

LEMMA CheckedAuthed ==
  ASSUME IInv, NEW op, Checked(op)
  PROVE  pc \in {"idle", "checked"} /\ ~failed /\ (gen > 1 => authed[gen] # "no")
BY DEF IInv, AuthInv, CallInv, Checked

LEMMA QueryInv == ASSUME IInv, NEW op \in {"query", "exhaust"}, Query(op) PROVE IInv'
<1>1. op \in ReplyOps /\ Checked(op) /\ CallSend(op)
  BY DEF Query, ReplyOps
<1>2. pc \in {"idle", "checked"} /\ (gen > 1 => authed[gen] # "no")
  BY <1>1, CheckedAuthed
<1> QED
  BY <1>1, <1>2, CallSendInv

LEMMA GetMoreInv == ASSUME IInv, GetMore PROVE IInv'
<1>1. /\ pc = "idle" /\ CallSend("getMore")
      /\ "getMore" \in ReplyOps /\ "getMore" \notin CheckedOps
  BY DEF GetMore, ReplyOps, CheckedOps
<1> QED
  BY <1>1, CallSendInv

LEMMA InsertInv == ASSUME IInv, Insert PROVE IInv'
<1>0. TypeOK /\ CallInv /\ ReplyInv /\ AuthInv /\ "insert" \in Ops
  BY DEF IInv, Ops, CheckedOps
<1>a. /\ Checked("insert") /\ pc' = "idle" /\ UNCHANGED <<call, authLeft, todo>>
      /\ \E w \in say([op |-> "insert", id |-> nextId]) :
            Said(w) /\ outcome' = IF w.ok THEN "ok" ELSE "threw"
  BY DEF Insert
<1>1. PICK w \in say([op |-> "insert", id |-> nextId]) :
         Said(w) /\ outcome' = IF w.ok THEN "ok" ELSE "threw"
  BY <1>a
<1>2. pc \in {"idle", "checked"} /\ ~failed /\ (gen > 1 => authed[gen] # "no")
  BY <1>a, CheckedAuthed
<1> DEFINE m == [op |-> "insert", id |-> nextId]
<1>3. m.op \notin ReplyOps
  BY DEF ReplyOps
<1> HIDE DEF m
<1>4. /\ PortTypes' /\ FreshInv' /\ BufferInv' /\ NumberInv' /\ OrderInv' /\ MailAuthed'
      /\ w.ok \in BOOLEAN /\ failed' = (failed \/ ~w.ok)
      /\ ~failed' => \A i \in 1..Len(up'[gen]) :
            \/ i \in 1..Len(up[gen]) /\ up'[gen][i] = up[gen][i]
            \/ up'[gen][i].op = "kill"
            \/ i = Len(up'[gen]) /\ up'[gen][i] = m
  BY <1>0, <1>1, <1>2, SaidInv DEF m
<1>5. UNCHANGED <<gen, authed, down, blast>>
  BY <1>1 DEF Said
<1>6. TypeOK'
  <2>1. call' \in Message \cup {NoMsg} /\ pc' \in {"idle", "recv"}
    BY <1>0, <1>a DEF TypeOK
  <2>2. outcome' \in {"none", "ok", "threw", "wrongId"}
    BY <1>1
  <2> QED
    BY <1>0, <1>1, <1>4, <1>a, <2>1, <2>2, SaidTypes
<1>7. CallInv'
  BY <1>a DEF CallInv
<1>8. ReplyInv'
  <2> SUFFICES ASSUME ~failed' PROVE AtRest'
    BY <1>a DEF ReplyInv
  <2>1. AtRest
    BY <1>0, <1>2 DEF ReplyInv
  <2>2. \A i \in 1..Len(up'[gen]) : up'[gen][i].op \notin ReplyOps
    <3>1. "kill" \notin ReplyOps
      BY DEF ReplyOps
    <3> QED
      BY <1>3, <1>4, <2>1, <3>1 DEF AtRest
  <2> QED
    BY <1>5, <2>1, <2>2 DEF AtRest
<1>9. AuthInv'
  BY <1>2, <1>4, <1>5 DEF AuthInv, MailAuthed
<1> QED
  BY <1>4, <1>6, <1>7, <1>8, <1>9 DEF IInv

-----------------------------------------------------------------------------
(* The operations that touch the buffer without a request.                 *)

LEMMA BufferStep ==
  ASSUME IInv, NEW m, m.op = "kill", m.id = nextId, NEW t, Written(t, m, FALSE),
         up' = [up EXCEPT ![gen] = t],
         \A i \in 1..Len(piggy') : piggy'[i] \in Kept \/ piggy'[i] = m,
         UNCHANGED <<thrown, served, authed>>,
         nextId' = nextId + 1 \/ (nextId' = nextId /\ piggy' = <<>>),
         gen' = gen \/ (gen' = gen + 1 /\ piggy' = <<>>),
         (failed => failed') \/ piggy' = <<>>
  PROVE  /\ BufferInv' /\ NumberInv' /\ OrderInv' /\ MailAuthed'
         /\ up' \in [Ports -> Seq(Message)]
         /\ \A g \in Ports : g # gen => up'[g] = up[g]
         /\ ~failed => \A i \in 1..Len(up'[gen]) :
               \/ i \in 1..Len(up[gen]) /\ up'[gen][i] = up[gen][i]
               \/ up'[gen][i].op = "kill"
<1>0. /\ TypeOK /\ FreshInv /\ BufferInv /\ NumberInv /\ OrderInv /\ MailAuthed
      /\ up \in [Ports -> Seq(Message)] /\ gen \in Ports /\ up[gen] \in Seq(Message)
  BY DEF IInv, AuthInv, MailAuthed, TypeOK
<1>1. up' \in [Ports -> Seq(Message)] /\ up'[gen] = t /\ \A g \in Ports : g # gen => up'[g] = up[g]
  BY <1>0 DEF Written
<1>2. /\ NumberInv' /\ OrderInv'
      /\ \A g \in Ports : \A x \in Held(g)' :
            x \in Held(g) \/ (g = gen /\ x = m /\ (FALSE \/ piggy' # <<>>))
  <2>1. PICK ok \in BOOLEAN : ok = FALSE
    OBVIOUS
  <2>2. /\ NumberInv' /\ OrderInv'
        /\ \A g \in Ports : \A x \in Held(g)' :
              x \in Held(g) \/ (g = gen /\ x = m /\ (ok \/ piggy' # <<>>))
    BY <1>0, <2>1, PushMessages
  <2> QED
    BY <2>1, <2>2
<1>3. \A g \in Ports : \A x \in Held(g)' : x.op # "kill"
  BY DEF Held
<1>4. MailAuthed'
  BY <1>0, <1>2, <1>3 DEF MailAuthed
<1>5. \A x \in Kept : x.op # "kill" => failed /\ x.id \in thrown
  BY <1>0 DEF Kept, BufferInv
<1>6. BufferInv'
  <2>1. CASE piggy' = <<>>
    <3>1. Len(piggy') = 0
      BY <2>1
    <3> QED
      BY <3>1 DEF BufferInv
  <2>2. CASE failed => failed'
    BY <1>5, <2>2 DEF BufferInv
  <2> QED
    BY <2>1, <2>2
<1>7. ASSUME ~failed, NEW i \in 1..Len(up'[gen])
      PROVE  \/ i \in 1..Len(up[gen]) /\ up'[gen][i] = up[gen][i]
             \/ up'[gen][i].op = "kill"
  <2>1. Len(up[gen]) \in Nat /\ Len(t) \in Nat
    BY <1>0, LenProperties DEF Written
  <2>2. CASE i <= Len(up[gen])
    <3>1. i \in 1..Len(up[gen])
      BY <1>1, <2>1, <2>2
    <3> QED
      BY <1>1, <3>1 DEF Written
  <2>3. CASE i > Len(up[gen])
    BY <1>1, <1>5, <1>7, <2>3 DEF Written
  <2> QED
    BY <1>1, <2>1, <2>2, <2>3
<1> QED
  BY <1>1, <1>2, <1>4, <1>6, <1>7

(* A killCursors message joins the buffer.                                 *)
LEMMA BufferAppend ==
  ASSUME up \in [Ports -> Seq(Message)], gen \in Ports, piggy \in Seq(Message),
         NEW m \in Message, piggy' = Append(piggy, m), up' = up
  PROVE  /\ Written(up[gen], m, FALSE) /\ up' = [up EXCEPT ![gen] = up[gen]]
         /\ piggy' \in Seq(Message)
         /\ \A i \in 1..Len(piggy') : piggy'[i] \in Kept \/ piggy'[i] = m
<1>1. Written(up[gen], m, FALSE) /\ up' = [up EXCEPT ![gen] = up[gen]]
  BY LenProperties DEF Written
<1>2. /\ piggy' \in Seq(Message) /\ Len(piggy') = Len(piggy) + 1 /\ Len(piggy) \in Nat
      /\ \A i \in 1..Len(piggy) : piggy'[i] = piggy[i]
      /\ piggy'[Len(piggy) + 1] = m
  BY AppendProperties, LenProperties
<1>3. \A i \in 1..Len(piggy') : i \in 1..Len(piggy) \/ i = Len(piggy) + 1
  BY <1>2
<1>4. \A i \in 1..Len(piggy') : piggy'[i] \in Kept \/ piggy'[i] = m
  BY <1>2, <1>3 DEF Kept
<1> QED
  BY <1>1, <1>2, <1>4

LEMMA KillInv == ASSUME IInv, Kill PROVE IInv'
<1> DEFINE m == [op |-> "kill", id |-> nextId]
<1>0. /\ TypeOK /\ FreshInv /\ CallInv /\ BufferInv /\ ReplyInv /\ AuthInv
      /\ up \in [Ports -> Seq(Message)] /\ up[gen] \in Seq(Message) /\ piggy \in Seq(Message)
      /\ sock \in [Ports -> Sockets] /\ sock[gen] \in Sockets /\ gen \in Ports
      /\ nextId \in 1..(MaxId + 1) /\ MaxId \in Nat
  BY ConnectionAssumption DEF IInv, TypeOK
<1>1. /\ pc = "idle" /\ cursors > 0 /\ nextId <= MaxId /\ nextId' = nextId + 1
      /\ cursors' = cursors - 1 /\ SayPiggyBack(m)
      /\ UNCHANGED <<down, blast, gen, failed, lastTry, authed, pc, call,
                     authLeft, todo, outcome, now, served, thrown>>
  BY DEF Kill
<1>2. m.op = "kill" /\ m.id = nextId /\ m \in Message
  <2>1. nextId \in 1..MaxId
    BY <1>0, <1>1
  <2> QED
    BY <2>1 DEF Message, Ops
<1> HIDE DEF m
<1>3. \E t : /\ Written(t, m, FALSE) /\ up' = [up EXCEPT ![gen] = t]
             /\ sock' \in [Ports -> Sockets] /\ piggy' \in Seq(Message)
             /\ \A i \in 1..Len(piggy') : piggy'[i] \in Kept \/ piggy'[i] = m
  <2>1. CASE piggy' = Append(piggy, m) /\ UNCHANGED <<sock, up>>
    BY <1>0, <1>2, <2>1, BufferAppend
  <2>2. ASSUME NEW w \in flush, sock' = [sock EXCEPT ![gen] = w.sock],
               up' = [up EXCEPT ![gen] = w.up], piggy' = IF w.ok THEN <<m>> ELSE piggy
        PROVE  \E t : /\ Written(t, m, FALSE) /\ up' = [up EXCEPT ![gen] = t]
                      /\ sock' \in [Ports -> Sockets] /\ piggy' \in Seq(Message)
                      /\ \A i \in 1..Len(piggy') : piggy'[i] \in Kept \/ piggy'[i] = m
    <3>1. w.sock \in Sockets /\ w.ok \in BOOLEAN /\ Written(w.up, m, FALSE)
      BY <1>0, FlushResult
    <3>2. CASE piggy' = <<m>>
      <4>1. piggy' \in Seq(Message) /\ Len(piggy') = 1 /\ piggy'[1] = m
        BY <1>2, <3>2
      <4>2. \A i \in 1..Len(piggy') : piggy'[i] \in Kept \/ piggy'[i] = m
        BY <4>1
      <4>3. sock' \in [Ports -> Sockets]
        BY <1>0, <2>2, <3>1
      <4> QED
        BY <2>2, <3>1, <4>1, <4>2, <4>3
    <3>3. CASE piggy' = piggy
      BY <1>0, <2>2, <3>1, <3>3 DEF Kept
    <3> QED
      BY <2>2, <3>2, <3>3
  <2> QED
    BY <1>1, <2>1, <2>2 DEF SayPiggyBack
<1>4. PICK t : /\ Written(t, m, FALSE) /\ up' = [up EXCEPT ![gen] = t]
               /\ sock' \in [Ports -> Sockets] /\ piggy' \in Seq(Message)
               /\ \A i \in 1..Len(piggy') : piggy'[i] \in Kept \/ piggy'[i] = m
  BY <1>3
<1>5. /\ BufferInv' /\ NumberInv' /\ OrderInv' /\ MailAuthed'
      /\ up' \in [Ports -> Seq(Message)]
      /\ \A g \in Ports : g # gen => up'[g] = up[g]
      /\ ~failed => \A i \in 1..Len(up'[gen]) :
            \/ i \in 1..Len(up[gen]) /\ up'[gen][i] = up[gen][i]
            \/ up'[gen][i].op = "kill"
  BY <1>1, <1>2, <1>4, BufferStep
<1>6. TypeOK'
  <2>1. nextId' \in 1..(MaxId + 1) /\ cursors' \in Nat
    BY <1>0, <1>1 DEF TypeOK
  <2> QED
    BY <1>0, <1>1, <1>4, <1>5, <2>1 DEF TypeOK
<1>7. FreshInv'
  <2>1. gen \in Nat /\ \A g \in Ports : g > gen => g # gen
    BY <1>0 DEF Ports
  <2>2. \A g \in Ports : g > gen => up'[g] = up[g]
    BY <1>5, <2>1
  <2> QED
    BY <1>0, <1>1, <2>2 DEF FreshInv
<1>8. CallInv'
  BY <1>1 DEF CallInv
<1>9. ReplyInv'
  <2> SUFFICES ASSUME ~failed PROVE AtRest'
    BY <1>1 DEF ReplyInv
  <2>1. AtRest
    BY <1>0, <1>1 DEF ReplyInv
  <2>2. \A i \in 1..Len(up'[gen]) : up'[gen][i].op \notin ReplyOps
    <3>1. "kill" \notin ReplyOps
      BY DEF ReplyOps
    <3> QED
      BY <1>5, <2>1, <3>1 DEF AtRest
  <2> QED
    BY <1>1, <2>1, <2>2 DEF AtRest
<1>10. AuthInv'
  BY <1>0, <1>1, <1>5 DEF AuthInv, MailAuthed
<1> QED
  BY <1>5, <1>6, <1>7, <1>8, <1>9, <1>10 DEF IInv

(* The flush of ~MessagingPort.                                            *)
LEMMA FlushStep ==
  ASSUME IInv, NEW w \in flush, up' = [up EXCEPT ![gen] = w.up], piggy' = <<>>,
         UNCHANGED <<nextId, thrown, served, authed>>, gen' = gen \/ gen' = gen + 1
  PROVE  /\ BufferInv' /\ NumberInv' /\ OrderInv' /\ MailAuthed'
         /\ up' \in [Ports -> Seq(Message)]
         /\ \A g \in Ports : g # gen => up'[g] = up[g]
         /\ ~failed => \A i \in 1..Len(up'[gen]) :
               \/ i \in 1..Len(up[gen]) /\ up'[gen][i] = up[gen][i]
               \/ up'[gen][i].op = "kill"
<1>1. up[gen] \in Seq(Message) /\ piggy \in Seq(Message) /\ sock[gen] \in Sockets
  BY DEF IInv, TypeOK
<1> DEFINE m == [op |-> "kill", id |-> nextId]
<1>2. m.op = "kill" /\ m.id = nextId
  OBVIOUS
<1> HIDE DEF m
<1>3. Written(w.up, m, FALSE)
  BY <1>1, FlushResult
<1>4. Len(piggy') = 0
  OBVIOUS
<1>5. \A i \in 1..Len(piggy') : piggy'[i] \in Kept \/ piggy'[i] = m
  BY <1>4
<1> QED
  BY <1>2, <1>3, <1>5, BufferStep

LEMMA DeleteInv == ASSUME IInv, Delete PROVE IInv'
<1>0. /\ TypeOK /\ FreshInv /\ ReplyInv /\ AuthInv /\ CallInv
      /\ sock \in [Ports -> Sockets] /\ gen \in Ports
  BY DEF IInv, TypeOK
<1>1. /\ pc = "idle" /\ pc' = "deleted" /\ piggy' = <<>>
      /\ sock' = [sock EXCEPT ![gen] = "closed"]
      /\ UNCHANGED <<down, blast, gen, failed, lastTry, nextId, authed, call,
                     authLeft, todo, cursors, outcome, now, served, thrown>>
      /\ \E w \in flush : up' = [up EXCEPT ![gen] = w.up]
  BY DEF Delete
<1>2. /\ BufferInv' /\ NumberInv' /\ OrderInv' /\ MailAuthed'
      /\ up' \in [Ports -> Seq(Message)]
      /\ \A g \in Ports : g # gen => up'[g] = up[g]
      /\ ~failed => \A i \in 1..Len(up'[gen]) :
            \/ i \in 1..Len(up[gen]) /\ up'[gen][i] = up[gen][i]
            \/ up'[gen][i].op = "kill"
  BY <1>1, FlushStep
<1>3. TypeOK'
  <2>1. sock' \in [Ports -> Sockets]
    BY <1>0, <1>1 DEF Sockets
  <2> QED
    BY <1>0, <1>1, <1>2, <2>1, SMTT(30) DEF TypeOK
<1>4. FreshInv'
  <2>1. gen \in Nat
    BY <1>0 DEF Ports
  <2>2. \A g \in Ports : g > gen => up'[g] = up[g]
    BY <1>2, <2>1 DEF Ports
  <2>3. UNCHANGED <<gen, down, blast, authed, served>>
    BY <1>1
  <2> QED
    BY <1>0, <2>2, <2>3 DEF FreshInv
<1>5. CallInv'
  BY <1>1 DEF CallInv
<1>6. ReplyInv'
  <2> SUFFICES ASSUME ~failed PROVE AtRest'
    BY <1>1 DEF ReplyInv
  <2>1. AtRest
    BY <1>0, <1>1 DEF ReplyInv
  <2>2. \A i \in 1..Len(up'[gen]) : up'[gen][i].op \notin ReplyOps
    <3>1. "kill" \notin ReplyOps
      BY DEF ReplyOps
    <3> QED
      BY <1>2, <2>1, <3>1 DEF AtRest
  <2> QED
    BY <1>1, <2>1, <2>2 DEF AtRest
<1>7. AuthInv'
  BY <1>0, <1>1, <1>2 DEF AuthInv, MailAuthed
<1> QED
  BY <1>2, <1>3, <1>4, <1>5, <1>6, <1>7 DEF IInv

(* A new port starts with nothing under way.                               *)
LEMMA ReconnectInv ==
  ASSUME IInv, NEW t \in {"open", "closed"}, Reconnect(t),
         \/ t = "closed" /\ pc' = "idle" /\ UNCHANGED <<authLeft, todo>> /\ outcome' = "threw"
         \/ /\ t = "open" /\ pc' = "auth" /\ authLeft' = 2 * AuthEntries
            /\ todo' \in CheckedOps /\ UNCHANGED outcome
  PROVE  IInv'
<1>0. /\ TypeOK /\ FreshInv /\ AuthInv /\ CallInv
      /\ sock \in [Ports -> Sockets] /\ gen \in Ports /\ authed \in [Ports -> {"no", "yes", "threw"}]
      /\ MaxGen \in Nat /\ AuthEntries \in Nat
  BY ConnectionAssumption DEF IInv, TypeOK
<1>1. /\ gen < MaxGen /\ gen' = gen + 1 /\ piggy' = <<>> /\ lastTry' = now
      /\ sock' = [sock EXCEPT ![gen] = "closed", ![gen + 1] = t]
      /\ failed' = (t = "closed")
      /\ UNCHANGED <<down, blast, nextId, authed, call, cursors, now, served, thrown>>
      /\ \E w \in flush : up' = [up EXCEPT ![gen] = w.up]
  BY DEF Reconnect
<1>2. gen \in Nat /\ gen' \in Ports /\ gen' > gen /\ gen' # gen /\ Ports \subseteq Nat
  BY <1>0, <1>1 DEF Ports
<1>3. /\ BufferInv' /\ NumberInv' /\ OrderInv' /\ MailAuthed'
      /\ up' \in [Ports -> Seq(Message)]
      /\ \A g \in Ports : g # gen => up'[g] = up[g]
  BY <1>1, FlushStep
<1>4. up'[gen'] = <<>> /\ down'[gen'] = <<>> /\ blast'[gen'].left = 0
  BY <1>0, <1>1, <1>2, <1>3 DEF FreshInv
<1>5. TypeOK'
  <2>1. sock' \in [Ports -> Sockets]
    BY <1>0, <1>1 DEF Sockets
  <2>2. failed' \in BOOLEAN
    BY <1>1, Zenon
  <2>3. lastTry' \in 0..MaxTime
    BY <1>0, <1>1 DEF TypeOK
  <2>4. /\ authLeft' \in 0..(2 * AuthEntries) /\ todo' \in CheckedOps \cup {"none"}
        /\ pc' \in {"idle", "auth", "checked", "recv", "exhaust", "deleted"}
        /\ outcome' \in {"none", "ok", "threw", "wrongId"}
    BY <1>0 DEF TypeOK
  <2>5. piggy' \in Seq(Message)
    BY <1>1
  <2> QED
    BY <1>0, <1>1, <1>2, <1>3, <2>1, <2>2, <2>3, <2>4, <2>5 DEF TypeOK
<1>6. FreshInv'
  <2>1. \A g \in Ports : g > gen' => g > gen /\ g # gen
    BY <1>1, <1>2
  <2>2. \A i \in 1..Len(served) : served[i][1] <= gen'
    <3>1. ASSUME NEW i \in 1..Len(served) PROVE served[i][1] <= gen'
      <4>1. served[i] \in Ports \X Message
        BY <1>0, ElementOfSeq DEF TypeOK
      <4>2. served[i][1] \in Nat /\ served[i][1] <= gen
        BY <1>0, <1>2, <4>1 DEF FreshInv
      <4> QED
        BY <1>1, <1>2, <4>2
    <3> QED
      BY <3>1
  <2> QED
    BY <1>0, <1>1, <1>3, <2>1, <2>2 DEF FreshInv
<1>7. CallInv'
  BY <1>1 DEF CallInv
<1>8. ReplyInv'
  <2>1. Len(up'[gen']) = 0
    BY <1>4
  <2>2. AtRest'
    BY <1>4, <2>1 DEF AtRest
  <2>3. pc' \notin {"recv", "exhaust"}
    OBVIOUS
  <2> QED
    BY <2>2, <2>3 DEF ReplyInv
<1>9. AuthInv'
  BY <1>1, <1>3 DEF AuthInv, MailAuthed
<1> QED
  BY <1>3, <1>5, <1>6, <1>7, <1>8, <1>9 DEF IInv

-----------------------------------------------------------------------------
(* The steps that read, or only look.                                      *)

LEMMA ReadStep ==
  ASSUME IInv, UNCHANGED <<up, blast, gen, piggy, nextId, thrown, served>>,
         \/ down' = down
         \/ down[gen] # <<>> /\ down' = [down EXCEPT ![gen] = Tail(down[gen])],
         \/ authed' = authed
         \/ authed' = [authed EXCEPT ![gen] = "yes"]
         \/ authed' = [authed EXCEPT ![gen] = "threw"],
         failed' = failed \/ failed' = TRUE
  PROVE  /\ FreshInv' /\ BufferInv' /\ NumberInv' /\ OrderInv' /\ MailAuthed'
         /\ down' \in [Ports -> Seq(Reply)] /\ authed' \in [Ports -> {"no", "yes", "threw"}]
<1>0. /\ FreshInv /\ BufferInv /\ NumberInv /\ OrderInv /\ MailAuthed
      /\ down \in [Ports -> Seq(Reply)] /\ authed \in [Ports -> {"no", "yes", "threw"}]
      /\ gen \in Ports
  BY DEF IInv, AuthInv, MailAuthed, TypeOK
<1>1. NumberInv' /\ OrderInv' /\ \A h \in Ports : Held(h)' = Held(h)
  BY <1>0, SameMessages
<1>2. down' \in [Ports -> Seq(Reply)] /\ \A g \in Ports : g # gen => down'[g] = down[g]
  <2>1. CASE down' = down
    BY <1>0, <2>1
  <2>2. CASE down[gen] # <<>> /\ down' = [down EXCEPT ![gen] = Tail(down[gen])]
    <3>1. Tail(down[gen]) \in Seq(Reply)
      BY <1>0, <2>2, HeadTailProperties
    <3> QED
      BY <1>0, <2>2, <3>1
  <2> QED
    BY <2>1, <2>2
<1>3. /\ authed' \in [Ports -> {"no", "yes", "threw"}]
      /\ \A g \in Ports : g # gen => authed'[g] = authed[g]
      /\ \A g \in Ports : authed[g] # "no" => authed'[g] # "no"
  BY <1>0
<1>4. FreshInv'
  <2>1. gen \in Nat /\ \A g \in Ports : g > gen => g # gen
    BY <1>0 DEF Ports
  <2> QED
    BY <1>0, <1>2, <1>3, <2>1 DEF FreshInv
<1>5. BufferInv'
  BY <1>0 DEF BufferInv
<1>6. MailAuthed'
  BY <1>0, <1>1, <1>3 DEF MailAuthed
<1> QED
  BY <1>1, <1>2, <1>3, <1>4, <1>5, <1>6

(* What reading a reply leaves behind on a usable connection.              *)
LEMMA PopReply ==
  ASSUME IInv, ~failed, pc \in {"recv", "exhaust"}, down[gen] # <<>>, Pop,
         UNCHANGED <<up, blast, gen>>
  PROVE  /\ Head(down[gen]).to = call.id
         /\ Head(down[gen]).last => AtRest'
         /\ ~Head(down[gen]).last =>
               /\ call.op = "exhaust"
               /\ call' = call /\ pc' = "exhaust" => Waiting'
<1>0. /\ Waiting /\ down \in [Ports -> Seq(Reply)] /\ down[gen] \in Seq(Reply) /\ gen \in Ports
  BY DEF IInv, ReplyInv, TypeOK
<1> DEFINE d == down[gen]
           t == Tail(down[gen])
<1>1. /\ Head(d) \in Reply /\ Head(d) = d[1] /\ t \in Seq(Reply)
      /\ Len(d) \in Nat \ {0} /\ Len(t) = Len(d) - 1
      /\ \A i \in 1..Len(t) : t[i] = d[i + 1]
  BY <1>0, HeadTailProperties, EmptySeq
<1>2. 1 \in 1..Len(d) /\ \A i \in 1..Len(t) : i + 1 \in 1..Len(d)
  BY <1>1
<1>3. down'[gen] = t
  BY <1>0 DEF Pop
<1>4. d[1].to = call.id /\ (d[1].last => 1 = Len(d) /\ blast[gen].left = 0)
      /\ (~d[1].last => call.op = "exhaust")
  BY <1>0, <1>2 DEF Waiting
<1>5. \A i \in 1..Len(up[gen]) : up[gen][i].op \notin ReplyOps
  BY <1>0 DEF Waiting
<1> HIDE DEF t
<1>6. ASSUME d[1].last PROVE AtRest'
  <2>1. t = <<>>
    BY <1>1, <1>4, <1>6, EmptySeq
  <2> QED
    BY <1>3, <1>4, <1>5, <1>6, <2>1 DEF AtRest
<1>7. ASSUME ~d[1].last, call' = call, pc' = "exhaust" PROVE Waiting'
  <2>1. \A i \in 1..Len(t) :
           /\ t[i].to = call.id
           /\ t[i].last => i = Len(t) /\ blast[gen].left = 0
           /\ ~t[i].last => call.op = "exhaust"
    <3> TAKE i \in 1..Len(t)
    <3>1. t[i] = d[i + 1] /\ i + 1 \in 1..Len(d)
      BY <1>1, <1>2
    <3>2. /\ t[i].to = call.id
          /\ t[i].last => i + 1 = Len(d) /\ blast[gen].left = 0
          /\ ~t[i].last => call.op = "exhaust"
      BY <1>0, <3>1 DEF Waiting
    <3>3. i + 1 = Len(d) => i = Len(t)
      BY <1>1
    <3> QED
      BY <3>2, <3>3
  <2>2. blast[gen].left > 0 => blast[gen].to = call.id /\ call.op = "exhaust"
    BY <1>0 DEF Waiting
  <2> QED
    BY <1>3, <1>5, <1>7, <2>1, <2>2 DEF Waiting
<1> QED
  BY <1>1, <1>4, <1>6, <1>7

LEMMA RecvReplyInv == ASSUME IInv, RecvReply PROVE IInv'
<1>0. /\ TypeOK /\ CallInv /\ AuthInv /\ ReplyInv /\ failed \in BOOLEAN
      /\ authLeft \in 0..(2 * AuthEntries) /\ AuthEntries \in Nat /\ cursors \in Nat
  BY ConnectionAssumption DEF IInv, TypeOK
<1>1. /\ pc = "recv" /\ down[gen] # <<>> /\ Pop
      /\ UNCHANGED <<sock, up, blast, gen, piggy, failed, lastTry, nextId, authed,
                     call, todo, now, served, thrown>>
  BY DEF RecvReply, portVars
<1>2. \/ /\ call.op = "auth" /\ pc' = "auth" /\ UNCHANGED <<cursors, outcome>>
         /\ \E n \in {1} \cup (IF authLeft % 2 = 0 THEN {2} ELSE {}) : authLeft' = authLeft - n
      \/ /\ call.op = "exhaust" /\ ~Head(down[gen]).last
         /\ pc' = "exhaust" /\ UNCHANGED <<authLeft, cursors, outcome>>
      \/ /\ call.op \in {"query", "getMore"} \/ (call.op = "exhaust" /\ Head(down[gen]).last)
         /\ pc' = "idle" /\ outcome' = "ok" /\ UNCHANGED authLeft
         /\ cursors' = IF call.op = "query" THEN cursors + 1 ELSE cursors
  BY DEF RecvReply
<1>3. /\ FreshInv' /\ BufferInv' /\ NumberInv' /\ OrderInv' /\ MailAuthed'
      /\ down' \in [Ports -> Seq(Reply)]
  BY <1>1, ReadStep DEF Pop
<1>4. authLeft' \in 0..(2 * AuthEntries)
  <2>1. CASE UNCHANGED authLeft
    BY <1>0, <2>1
  <2>2. ASSUME call.op = "auth", NEW n \in {1} \cup (IF authLeft % 2 = 0 THEN {2} ELSE {}),
               authLeft' = authLeft - n
        PROVE  authLeft' \in 0..(2 * AuthEntries)
    <3>1. authLeft > 0
      BY <1>0, <1>1, <2>2 DEF CallInv
    <3>2. n = 1 \/ (n = 2 /\ authLeft % 2 = 0)
      OBVIOUS
    <3>3. n <= authLeft
      BY <1>0, <3>1, <3>2
    <3> QED
      BY <1>0, <2>2, <3>2, <3>3
  <2> QED
    BY <1>2, <2>1, <2>2
<1>5. TypeOK'
  <2>1. cursors' \in Nat /\ outcome' \in {"none", "ok", "threw", "wrongId"}
    BY <1>0, <1>2 DEF TypeOK
  <2>2. pc' \in {"idle", "auth", "checked", "recv", "exhaust", "deleted"}
    BY <1>2
  <2> QED
    BY <1>0, <1>1, <1>3, <1>4, <2>1, <2>2 DEF TypeOK
<1>6. CallInv'
  BY <1>0, <1>1, <1>2 DEF CallInv
<1>7. ReplyInv'
  <2> SUFFICES ASSUME ~failed PROVE IF pc' \in {"recv", "exhaust"} THEN Waiting' ELSE AtRest'
    BY <1>1 DEF ReplyInv
  <2>1. /\ Head(down[gen]).last => AtRest'
        /\ ~Head(down[gen]).last =>
              /\ call.op = "exhaust"
              /\ call' = call /\ pc' = "exhaust" => Waiting'
    BY <1>1, PopReply
  <2> QED
    BY <1>1, <1>2, <2>1
<1>8. AuthInv'
  <2>1. gen > 1 /\ authed[gen] = "no" => failed \/ call.op = "auth"
    BY <1>0, <1>1 DEF AuthInv
  <2> QED
    BY <1>1, <1>2, <1>3, <2>1 DEF AuthInv, MailAuthed
<1> QED
  BY <1>3, <1>5, <1>6, <1>7, <1>8 DEF IInv

LEMMA AuthThrowsInv == ASSUME IInv, AuthThrows PROVE IInv'
<1>0. /\ TypeOK /\ CallInv /\ AuthInv /\ ReplyInv /\ gen \in Ports
      /\ authed \in [Ports -> {"no", "yes", "threw"}]
  BY DEF IInv, TypeOK
<1>1. /\ pc = "recv" /\ call.op = "auth" /\ down[gen] # <<>> /\ Pop
      /\ pc' = "idle" /\ outcome' = "threw" /\ authed' = [authed EXCEPT ![gen] = "threw"]
      /\ UNCHANGED <<sock, up, blast, gen, piggy, failed, lastTry, nextId, call, authLeft,
                     todo, cursors, now, served, thrown>>
  BY DEF AuthThrows
<1>2. /\ FreshInv' /\ BufferInv' /\ NumberInv' /\ OrderInv' /\ MailAuthed'
      /\ down' \in [Ports -> Seq(Reply)] /\ authed' \in [Ports -> {"no", "yes", "threw"}]
  BY <1>1, ReadStep DEF Pop
<1>3. TypeOK'
  BY <1>0, <1>1, <1>2 DEF TypeOK
<1>4. CallInv'
  BY <1>1 DEF CallInv
<1>5. ReplyInv'
  <2> SUFFICES ASSUME ~failed PROVE AtRest'
    BY <1>1 DEF ReplyInv
  <2> QED
    BY <1>1, PopReply
<1>6. AuthInv'
  <2>1. authed'[gen] = "threw"
    BY <1>0, <1>1
  <2> QED
    BY <1>1, <1>2, <2>1 DEF AuthInv, MailAuthed
<1> QED
  BY <1>2, <1>3, <1>4, <1>5, <1>6 DEF IInv

(* A reply with a wrong id is read only on a connection that is failed.    *)
LEMMA RecvWrongIdInv == ASSUME IInv, RecvWrongId PROVE IInv'
<1>0. TypeOK /\ CallInv /\ AuthInv /\ ReplyInv /\ failed \in BOOLEAN
  BY DEF IInv, TypeOK
<1>1. /\ pc = "recv" /\ down[gen] # <<>> /\ Pop /\ Head(down[gen]).to # call.id
      /\ pc' = "idle" /\ outcome' = "wrongId"
      /\ UNCHANGED <<sock, up, blast, gen, piggy, failed, lastTry, nextId, authed, call,
                     authLeft, todo, cursors, now, served, thrown>>
  BY DEF RecvWrongId, portVars
<1>2. failed
  BY <1>1, PopReply
<1>3. /\ FreshInv' /\ BufferInv' /\ NumberInv' /\ OrderInv' /\ MailAuthed'
      /\ down' \in [Ports -> Seq(Reply)]
  BY <1>1, ReadStep DEF Pop
<1>4. TypeOK'
  BY <1>0, <1>1, <1>3 DEF TypeOK
<1>5. CallInv' /\ ReplyInv' /\ AuthInv'
  BY <1>1, <1>2, <1>3 DEF CallInv, ReplyInv, AuthInv, MailAuthed
<1> QED
  BY <1>3, <1>4, <1>5 DEF IInv

(* Every exception of a read leaves the connection failed.                 *)
LEMMA FailInv == ASSUME IInv, RecvFails \/ ExhaustLastThrows PROVE IInv'
<1>0. /\ TypeOK /\ CallInv /\ AuthInv /\ gen \in Ports
      /\ sock \in [Ports -> Sockets]
  BY DEF IInv, TypeOK
<1>1. /\ failed' = TRUE /\ pc' = "idle" /\ outcome' = "threw"
      /\ UNCHANGED <<up, blast, gen, piggy, lastTry, nextId, authed, call, authLeft,
                     todo, cursors, now, served, thrown>>
      /\ sock' = sock \/ sock' = [sock EXCEPT ![gen] = "closed"]
      /\ down' = down \/ (down[gen] # <<>> /\ Pop)
  BY DEF RecvFails, ExhaustLastThrows, netVars
<1>2. /\ FreshInv' /\ BufferInv' /\ NumberInv' /\ OrderInv' /\ MailAuthed'
      /\ down' \in [Ports -> Seq(Reply)]
  BY <1>1, ReadStep DEF Pop
<1>3. TypeOK'
  <2>1. sock' \in [Ports -> Sockets]
    BY <1>0, <1>1 DEF Sockets
  <2> QED
    BY <1>0, <1>1, <1>2, <2>1 DEF TypeOK
<1>4. CallInv' /\ ReplyInv' /\ AuthInv'
  BY <1>1, <1>2 DEF CallInv, ReplyInv, AuthInv, MailAuthed
<1> QED
  BY <1>2, <1>3, <1>4 DEF IInv

LEMMA ExhaustThrowsInv == ASSUME IInv, ExhaustThrows PROVE IInv'
<1> DEFINE m == [op |-> "kill", id |-> nextId]
<1>0. /\ TypeOK /\ FreshInv /\ CallInv /\ AuthInv /\ gen \in Ports
      /\ sock \in [Ports -> Sockets] /\ up \in [Ports -> Seq(Message)] /\ piggy \in Seq(Message)
      /\ nextId \in 1..(MaxId + 1) /\ MaxId \in Nat
  BY ConnectionAssumption DEF IInv, TypeOK
<1>1. /\ nextId <= MaxId /\ nextId' = nextId + 1 /\ piggy' = Append(piggy, m)
      /\ failed' = TRUE /\ pc' = "idle" /\ outcome' = "threw"
      /\ sock' = [sock EXCEPT ![gen] = "closed"]
      /\ UNCHANGED <<up, down, blast, gen, lastTry, authed, call, authLeft, todo, cursors, now,
                     served, thrown>>
  BY DEF ExhaustThrows
<1>2. m.op = "kill" /\ m.id = nextId /\ m \in Message
  <2>1. nextId \in 1..MaxId
    BY <1>0, <1>1
  <2> QED
    BY <2>1 DEF Message, Ops
<1> HIDE DEF m
<1>3. /\ Written(up[gen], m, FALSE) /\ up' = [up EXCEPT ![gen] = up[gen]]
      /\ piggy' \in Seq(Message)
      /\ \A i \in 1..Len(piggy') : piggy'[i] \in Kept \/ piggy'[i] = m
  BY <1>0, <1>1, <1>2, BufferAppend
<1>4. BufferInv' /\ NumberInv' /\ OrderInv' /\ MailAuthed'
  BY <1>1, <1>2, <1>3, BufferStep
<1>5. TypeOK'
  <2>1. sock' \in [Ports -> Sockets] /\ nextId' \in 1..(MaxId + 1)
    BY <1>0, <1>1 DEF Sockets
  <2> QED
    BY <1>0, <1>1, <1>3, <2>1 DEF TypeOK
<1>6. FreshInv'
  BY <1>0, <1>1 DEF FreshInv
<1>7. CallInv' /\ ReplyInv' /\ AuthInv'
  BY <1>1, <1>4 DEF CallInv, ReplyInv, AuthInv, MailAuthed
<1> QED
  BY <1>4, <1>5, <1>6, <1>7 DEF IInv

LEMMA ExhaustRecvInv == ASSUME IInv, ExhaustRecv PROVE IInv'
<1>0. TypeOK /\ CallInv /\ AuthInv /\ ReplyInv /\ failed \in BOOLEAN
  BY DEF IInv, TypeOK
<1>1. /\ pc = "exhaust" /\ down[gen] # <<>> /\ Pop
      /\ IF Head(down[gen]).last THEN pc' = "idle" /\ outcome' = "ok" ELSE UNCHANGED <<pc, outcome>>
      /\ UNCHANGED <<sock, up, blast, gen, piggy, failed, lastTry, nextId, authed, call,
                     authLeft, todo, cursors, now, served, thrown>>
  BY DEF ExhaustRecv, portVars
<1>2. /\ FreshInv' /\ BufferInv' /\ NumberInv' /\ OrderInv' /\ MailAuthed'
      /\ down' \in [Ports -> Seq(Reply)]
  BY <1>1, ReadStep DEF Pop
<1>3. TypeOK'
  BY <1>0, <1>1, <1>2 DEF TypeOK
<1>4. CallInv'
  BY <1>0, <1>1 DEF CallInv
<1>5. ReplyInv'
  <2> SUFFICES ASSUME ~failed PROVE IF pc' \in {"recv", "exhaust"} THEN Waiting' ELSE AtRest'
    BY <1>1 DEF ReplyInv
  <2>1. /\ Head(down[gen]).last => AtRest'
        /\ ~Head(down[gen]).last => (call' = call /\ pc' = "exhaust" => Waiting')
    BY <1>1, PopReply
  <2> QED
    BY <1>1, <2>1
<1>6. AuthInv'
  BY <1>0, <1>1, <1>2 DEF AuthInv, MailAuthed
<1> QED
  BY <1>2, <1>3, <1>4, <1>5, <1>6 DEF IInv

LEMMA AuthDoneInv == ASSUME IInv, AuthDone PROVE IInv'
<1>0. /\ TypeOK /\ CallInv /\ AuthInv /\ ReplyInv /\ gen \in Ports
      /\ authed \in [Ports -> {"no", "yes", "threw"}]
  BY DEF IInv, TypeOK
<1>1. /\ pc = "auth" /\ pc' = "checked" /\ authed' = [authed EXCEPT ![gen] = "yes"]
      /\ UNCHANGED <<sock, up, down, blast, gen, piggy, failed, lastTry, nextId, call, authLeft,
                     todo, cursors, outcome, now, served, thrown>>
  BY DEF AuthDone, netVars
<1>2. /\ FreshInv' /\ BufferInv' /\ NumberInv' /\ OrderInv' /\ MailAuthed'
      /\ authed' \in [Ports -> {"no", "yes", "threw"}]
  BY <1>1, ReadStep
<1>3. TypeOK'
  BY <1>0, <1>1, <1>2 DEF TypeOK
<1>4. CallInv'
  BY <1>0, <1>1 DEF CallInv
<1>5. ReplyInv'
  BY <1>0, <1>1 DEF ReplyInv, AtRest
<1>6. AuthInv'
  <2>1. authed'[gen] = "yes"
    BY <1>0, <1>1
  <2> QED
    BY <1>1, <1>2, <2>1 DEF AuthInv, MailAuthed
<1> QED
  BY <1>2, <1>3, <1>4, <1>5, <1>6 DEF IInv

(* checkConnection throwing, the clock, and steps that change nothing.     *)
LEMMA QuietInv == ASSUME IInv, CheckThrows \/ Tick \/ UNCHANGED vars PROVE IInv'
<1>0. /\ TypeOK /\ CallInv /\ AuthInv /\ ReplyInv /\ MaxTime \in Nat /\ now \in 1..MaxTime
  BY ConnectionAssumption DEF IInv, TypeOK
<1>1. /\ UNCHANGED <<sock, up, down, blast, gen, piggy, failed, lastTry, nextId, authed,
                     pc, call, authLeft, todo, cursors, served, thrown>>
      /\ outcome' = outcome \/ outcome' = "threw"
      /\ now' = now \/ (now < MaxTime /\ now' = now + 1)
  BY DEF CheckThrows, Tick, vars, netVars, portVars, thrVars
<1>2. /\ FreshInv' /\ BufferInv' /\ NumberInv' /\ OrderInv' /\ MailAuthed'
  BY <1>1, ReadStep
<1>3. TypeOK'
  <2>1. now' \in 1..MaxTime
    BY <1>0, <1>1
  <2> QED
    BY <1>0, <1>1, <2>1 DEF TypeOK
<1>4. CallInv' /\ ReplyInv' /\ AuthInv'
  BY <1>0, <1>1, <1>2 DEF CallInv, ReplyInv, AtRest, Waiting, AuthInv, MailAuthed
<1> QED
  BY <1>2, <1>3, <1>4 DEF IInv

-----------------------------------------------------------------------------
(* The server and the network.                                             *)

LEMMA DeliverResult ==
  ASSUME TypeOK, NEW g \in Ports, NEW r \in Reply, Deliver(g, r)
  PROVE  /\ down' \in [Ports -> Seq(Reply)]
         /\ \A h \in Ports : h # g => down'[h] = down[h]
         /\ down'[g] = down[g] \/ down'[g] = Append(down[g], r)
<1>0. down \in [Ports -> Seq(Reply)] /\ down[g] \in Seq(Reply)
  BY DEF TypeOK
<1>1. down' = down \/ down' = [down EXCEPT ![g] = Append(down[g], r)]
  BY DEF Deliver
<1>2. Append(down[g], r) \in Seq(Reply)
  BY <1>0, AppendProperties
<1> QED
  BY <1>0, <1>1, <1>2

(* The steps of the server leave everything but the queues alone; its      *)
(* effect on the other ports than the current one is not seen.             *)
LEMMA OtherPort ==
  ASSUME IInv, NEW g \in Ports, g # gen, UNCHANGED <<gen, failed, pc, call>>,
         \A h \in Ports : h # g => UNCHANGED <<up[h], down[h], blast[h]>>
  PROVE  ReplyInv'
<1>0. ReplyInv /\ gen \in Ports
  BY DEF IInv, TypeOK
<1>1. up'[gen] = up[gen] /\ down'[gen] = down[gen] /\ blast'[gen] = blast[gen]
  <2>1. PICK G \in Ports : G = gen
    BY <1>0
  <2> QED
    BY <2>1
<1> QED
  BY <1>0, <1>1 DEF ReplyInv, AtRest, Waiting

LEMMA ServeInv == ASSUME IInv, NEW g \in Ports, Serve(g) PROVE IInv'
<1> DEFINE m == Head(up[g])
<1>0. /\ TypeOK /\ FreshInv /\ CallInv /\ BufferInv /\ ReplyInv /\ NumberInv /\ OrderInv /\ AuthInv
      /\ up \in [Ports -> Seq(Message)] /\ up[g] \in Seq(Message) /\ gen \in Ports
      /\ blast \in [Ports -> [to : 0..MaxId, left : 0..MaxBlast]] /\ MaxBlast \in Nat /\ MaxId \in Nat
      /\ down \in [Ports -> Seq(Reply)]
  BY ConnectionAssumption DEF IInv, TypeOK
<1>1. /\ up[g] # <<>> /\ blast[g].left = 0 /\ up' = [up EXCEPT ![g] = Tail(up[g])]
      /\ served' = Append(served, <<g, m>>)
      /\ UNCHANGED <<sock, gen, piggy, failed, lastTry, nextId, authed,
                     pc, call, authLeft, todo, cursors, outcome, now, thrown>>
  BY DEF Serve, portVars, thrVars
<1>2. \/ m.op \notin ReplyOps /\ UNCHANGED <<down, blast>>
      \/ /\ m.op \in ReplyOps \ {"exhaust"}
         /\ Deliver(g, [to |-> m.id, last |-> TRUE]) /\ UNCHANGED blast
      \/ /\ m.op = "exhaust"
         /\ \E n \in 0..MaxBlast :
               /\ blast' = [blast EXCEPT ![g] = [to |-> m.id, left |-> n]]
               /\ Deliver(g, [to |-> m.id, last |-> n = 0])
  BY DEF Serve
<1>3. /\ NumberInv' /\ OrderInv'
      /\ \A h \in Ports : \A x \in Held(h)' : x \in Held(h)
      /\ m \in OnUp(g) /\ g <= gen
      /\ up' \in [Ports -> Seq(Message)] /\ served' \in Seq(Ports \X Message)
      /\ \A i \in 1..Len(served') : \/ i \in 1..Len(served) /\ served'[i] = served[i]
                                    \/ i = Len(served) + 1 /\ served'[i] = <<g, m>>
  BY <1>0, <1>1, ServeMessages
<1> DEFINE s == up[g]
           t == Tail(up[g])
<1>4. /\ m \in Message /\ t \in Seq(Message) /\ m = s[1]
      /\ Len(s) \in Nat \ {0} /\ Len(t) = Len(s) - 1
      /\ \A i \in 1..Len(t) : t[i] = s[i + 1]
  BY <1>0, <1>1, HeadTailProperties, EmptySeq
<1>5. 1 \in 1..Len(s) /\ \A i \in 1..Len(t) : i + 1 \in 1..Len(s) /\ i + 1 # 1
  BY <1>4
<1>6. up'[g] = t /\ \A h \in Ports : h # g => up'[h] = up[h]
  BY <1>0, <1>1
<1> HIDE DEF m, t
<1>7. m.id \in 1..MaxId
  BY <1>4 DEF Message
<1>8. \E n \in 0..MaxBlast, r \in Reply :
         /\ r.to = m.id /\ (r.last <=> n = 0)
         /\ \/ m.op \notin ReplyOps /\ UNCHANGED <<down, blast>>
            \/ /\ m.op \in ReplyOps /\ Deliver(g, r) /\ (m.op # "exhaust" => n = 0)
               /\ \/ n = 0 /\ blast' = blast
                  \/ m.op = "exhaust" /\ blast' = [blast EXCEPT ![g] = [to |-> m.id, left |-> n]]
  <2>1. CASE m.op \notin ReplyOps /\ UNCHANGED <<down, blast>>
    <3>1. [to |-> m.id, last |-> TRUE] \in Reply /\ 0 \in 0..MaxBlast
      BY <1>0, <1>7 DEF Reply
    <3> QED
      BY <2>1, <3>1
  <2>2. CASE /\ m.op \in ReplyOps \ {"exhaust"}
             /\ Deliver(g, [to |-> m.id, last |-> TRUE]) /\ UNCHANGED blast
    <3>1. [to |-> m.id, last |-> TRUE] \in Reply /\ 0 \in 0..MaxBlast
      BY <1>0, <1>7 DEF Reply
    <3> QED
      BY <2>2, <3>1
  <2>3. ASSUME m.op = "exhaust", NEW n \in 0..MaxBlast,
               blast' = [blast EXCEPT ![g] = [to |-> m.id, left |-> n]],
               Deliver(g, [to |-> m.id, last |-> n = 0])
        PROVE  \E r \in Reply :
                  /\ r.to = m.id /\ (r.last <=> n = 0)
                  /\ m.op \in ReplyOps /\ Deliver(g, r) /\ (m.op # "exhaust" => n = 0)
                  /\ blast' = [blast EXCEPT ![g] = [to |-> m.id, left |-> n]]
    <3> DEFINE r == [to |-> m.id, last |-> n = 0]
    <3>1. (n = 0) \in BOOLEAN
      BY Zenon
    <3>2. r \in Reply /\ r.to = m.id /\ (r.last <=> n = 0)
      BY <1>7, <3>1 DEF Reply
    <3>3. m.op \in ReplyOps
      BY <2>3 DEF ReplyOps
    <3> HIDE DEF r
    <3>4. Deliver(g, r)
      BY <2>3 DEF r
    <3> QED
      BY <2>3, <3>2, <3>3, <3>4
  <2> QED
    BY <1>2, <2>1, <2>2, <2>3
<1>9. PICK n \in 0..MaxBlast, r \in Reply :
         /\ r.to = m.id /\ (r.last <=> n = 0)
         /\ \/ m.op \notin ReplyOps /\ UNCHANGED <<down, blast>>
            \/ /\ m.op \in ReplyOps /\ Deliver(g, r) /\ (m.op # "exhaust" => n = 0)
               /\ \/ n = 0 /\ blast' = blast
                  \/ m.op = "exhaust" /\ blast' = [blast EXCEPT ![g] = [to |-> m.id, left |-> n]]
  BY <1>8
<1>10. /\ down' \in [Ports -> Seq(Reply)]
       /\ \A h \in Ports : h # g => down'[h] = down[h]
       /\ down'[g] = down[g] \/ (m.op \in ReplyOps /\ down'[g] = Append(down[g], r))
  <2>1. CASE down' = down
    BY <1>0, <2>1
  <2>2. CASE m.op \in ReplyOps /\ Deliver(g, r)
    BY <1>0, <2>2, DeliverResult
  <2> QED
    BY <1>9, <2>1, <2>2
<1>11. /\ blast' \in [Ports -> [to : 0..MaxId, left : 0..MaxBlast]]
       /\ \A h \in Ports : h # g => blast'[h] = blast[h]
       /\ \/ blast'[g] = blast[g]
          \/ m.op = "exhaust" /\ blast'[g] = [to |-> m.id, left |-> n]
       /\ m.op \in ReplyOps => blast'[g].left = n
  <2>1. CASE blast' = blast /\ (m.op \in ReplyOps => n = 0)
    BY <1>0, <1>1, <2>1
  <2>2. CASE m.op = "exhaust" /\ blast' = [blast EXCEPT ![g] = [to |-> m.id, left |-> n]]
    <3>1. [to |-> m.id, left |-> n] \in [to : 0..MaxId, left : 0..MaxBlast]
      BY <1>0, <1>7
    <3> QED
      BY <1>0, <2>2, <3>1
  <2> QED
    BY <1>9, <2>1, <2>2
<1>12. ReplyInv'
  <2>1. CASE g # gen
    BY <1>1, <1>6, <1>10, <1>11, <2>1, OtherPort
  <2>2. CASE g = gen
    <3> SUFFICES ASSUME ~failed PROVE IF pc \in {"recv", "exhaust"} THEN Waiting' ELSE AtRest'
      BY <1>1 DEF ReplyInv
    <3>0. up'[gen'] = t /\ down'[gen'] = down'[g] /\ blast'[gen'] = blast'[g] /\ call' = call /\ pc' = pc
      BY <1>1, <1>6, <2>2
    <3>1. CASE pc \notin {"recv", "exhaust"}
      <4>1. AtRest
        BY <1>0, <3>1 DEF ReplyInv
      <4>2. m.op \notin ReplyOps /\ \A i \in 1..Len(t) : t[i].op \notin ReplyOps
        BY <1>4, <1>5, <2>2, <4>1 DEF AtRest
      <4>3. down'[g] = <<>> /\ blast'[g].left = 0
        BY <1>9, <2>2, <4>1, <4>2 DEF AtRest
      <4>4. AtRest'
        BY <3>0, <4>2, <4>3 DEF AtRest
      <4> QED
        BY <3>1, <4>4
    <3>2. CASE pc \in {"recv", "exhaust"} /\ m.op \notin ReplyOps
      <4>1. Waiting /\ down'[g] = down[g] /\ blast'[g] = blast[g]
        BY <1>0, <1>9, <3>2 DEF ReplyInv
      <4>2. \A i \in 1..Len(t) :
               t[i].op \in ReplyOps
               => pc = "recv" /\ t[i] = call /\ down[g] = <<>> /\ blast[g].left = 0
        BY <1>4, <1>5, <2>2, <4>1 DEF Waiting
      <4>3. \A i, j \in 1..Len(t) : t[i].op \in ReplyOps /\ t[j].op \in ReplyOps => i = j
        <5> TAKE i \in 1..Len(t), j \in 1..Len(t)
        <5>1. t[i].op \in ReplyOps /\ t[j].op \in ReplyOps => i + 1 = j + 1
          BY <1>4, <1>5, <2>2, <4>1 DEF Waiting
        <5> QED
          BY <5>1
      <4>4. Waiting'
        BY <2>2, <3>0, <4>1, <4>2, <4>3 DEF Waiting
      <4> QED
        BY <3>2, <4>4
    <3>3. CASE pc \in {"recv", "exhaust"} /\ m.op \in ReplyOps
      <4>1. Waiting
        BY <1>0, <3>3 DEF ReplyInv
      <4>2. pc = "recv" /\ m = call /\ down[g] = <<>>
        BY <1>4, <1>5, <2>2, <3>3, <4>1 DEF Waiting
      <4>3. \A i \in 1..Len(t) : t[i].op \notin ReplyOps
        <5> TAKE i \in 1..Len(t)
        <5>1. s[i + 1].op \in ReplyOps => i + 1 = 1
          BY <1>4, <1>5, <2>2, <3>3, <4>1 DEF Waiting
        <5> QED
          BY <1>4, <1>5, <5>1
      <4>4. \A i \in 1..Len(down'[g]) : down'[g][i] = r /\ i = Len(down'[g])
        <5>1. CASE down'[g] = <<>>
          <6>1. Len(down'[g]) = 0
            BY <5>1
          <6> QED
            BY <6>1
        <5>2. CASE down'[g] = Append(<<>>, r)
          <6>1. Len(down'[g]) = 1 /\ down'[g][1] = r
            BY <5>2
          <6> QED
            BY <6>1
        <5> QED
          BY <1>10, <4>2, <5>1, <5>2
      <4>5. r.to = call.id /\ (r.last => blast'[g].left = 0) /\ (~r.last => call.op = "exhaust")
        BY <1>9, <1>11, <3>3, <4>2
      <4>6. blast'[g].left > 0 => blast'[g].to = call.id /\ call.op = "exhaust"
        BY <1>1, <1>11, <4>2
      <4>7. Waiting'
        BY <3>0, <4>3, <4>4, <4>5, <4>6 DEF Waiting
      <4> QED
        BY <3>3, <4>7
    <3> QED
      BY <3>1, <3>2, <3>3
  <2> QED
    BY <2>1, <2>2
<1>13. TypeOK'
  BY <1>0, <1>1, <1>3, <1>10, <1>11 DEF TypeOK
<1>14. FreshInv'
  <2>a. gen \in Ports /\ g \in Ports /\ g <= gen
    BY <1>0, <1>3, Zenon
  <2>1. gen \in Nat /\ g \in Nat /\ \A h \in Ports : h > gen => h # g
    BY <2>a DEF Ports
  <2>2. \A i \in 1..Len(served') : served'[i][1] <= gen
    <3>1. \A i \in 1..Len(served) : served[i][1] <= gen
      BY <1>0 DEF FreshInv
    <3> TAKE i \in 1..Len(served')
    <3>2. CASE i \in 1..Len(served) /\ served'[i] = served[i]
      BY <3>1, <3>2
    <3>3. CASE served'[i] = <<g, m>>
      <4>1. served'[i][1] = g
        BY <3>3
      <4> QED
        BY <1>3, <4>1
    <3> QED
      BY <1>3, <3>2, <3>3
  <2>3. \A h \in Ports : blast'[h].left > 0 => blast'[h].to > 0
    <3> TAKE h \in Ports
    <3>1. CASE blast'[h] = blast[h]
      BY <1>0, <3>1 DEF FreshInv
    <3>2. CASE blast'[h] = [to |-> m.id, left |-> n]
      BY <1>7, <3>2
    <3> QED
      BY <1>11, <3>1, <3>2
  <2>4. \A h \in Ports : h > gen => /\ up'[h] = <<>> /\ down'[h] = <<>>
                                    /\ blast'[h].left = 0 /\ authed'[h] = "no"
    <3> SUFFICES ASSUME NEW h \in Ports, h > gen
                 PROVE  up'[h] = <<>> /\ down'[h] = <<>> /\ blast'[h].left = 0 /\ authed'[h] = "no"
      OBVIOUS
    <3>1. up[h] = <<>> /\ down[h] = <<>> /\ blast[h].left = 0 /\ authed[h] = "no"
      BY <1>0 DEF FreshInv
    <3>2. h # g
      BY <2>1
    <3>3. up'[h] = up[h] /\ authed'[h] = authed[h]
      BY <1>0, <1>1, <1>6, <3>1, <3>2
    <3>4. down'[h] = down[h] /\ blast'[h] = blast[h]
      BY <1>10, <1>11, <3>2
    <3> QED
      BY <3>1, <3>3, <3>4
  <2> QED
    BY <1>1, <2>2, <2>3, <2>4 DEF FreshInv
<1>15. CallInv' /\ BufferInv'
  BY <1>0, <1>1 DEF CallInv, BufferInv
<1>16. AuthInv'
  BY <1>0, <1>1, <1>3 DEF AuthInv
<1> QED
  BY <1>3, <1>12, <1>13, <1>14, <1>15, <1>16 DEF IInv

LEMMA BlastInv == ASSUME IInv, NEW g \in Ports, BlastReply(g) PROVE IInv'
<1> DEFINE r == [to |-> blast[g].to, last |-> blast[g].left = 1]
<1>0. /\ TypeOK /\ FreshInv /\ CallInv /\ BufferInv /\ ReplyInv /\ NumberInv /\ OrderInv /\ AuthInv
      /\ gen \in Ports /\ MaxBlast \in Nat /\ MaxId \in Nat
      /\ blast \in [Ports -> [to : 0..MaxId, left : 0..MaxBlast]]
      /\ down \in [Ports -> Seq(Reply)] /\ down[g] \in Seq(Reply)
  BY ConnectionAssumption DEF IInv, TypeOK
<1>1. /\ blast[g].left > 0 /\ blast' = [blast EXCEPT ![g].left = blast[g].left - 1]
      /\ Deliver(g, r)
      /\ UNCHANGED <<sock, up, gen, piggy, failed, lastTry, nextId, authed,
                     pc, call, authLeft, todo, cursors, outcome, now, served, thrown>>
  BY DEF BlastReply, portVars, thrVars
<1>2. blast[g].left \in 1..MaxBlast /\ blast[g].to \in 0..MaxId
  BY <1>0, <1>1
<1>3. /\ blast' \in [Ports -> [to : 0..MaxId, left : 0..MaxBlast]]
      /\ \A h \in Ports : h # g => blast'[h] = blast[h]
      /\ blast'[g].left = blast[g].left - 1 /\ blast'[g].to = blast[g].to
  <2> DEFINE b == [blast[g] EXCEPT !.left = blast[g].left - 1]
  <2>1. blast[g] \in [to : 0..MaxId, left : 0..MaxBlast] /\ blast[g].left - 1 \in 0..MaxBlast
    BY <1>0, <1>2
  <2>2. b \in [to : 0..MaxId, left : 0..MaxBlast] /\ b.left = blast[g].left - 1 /\ b.to = blast[g].to
    BY <2>1
  <2>3. blast' = [blast EXCEPT ![g] = b]
    BY <1>1
  <2> HIDE DEF b
  <2>4. /\ blast' \in [Ports -> [to : 0..MaxId, left : 0..MaxBlast]] /\ blast'[g] = b
        /\ \A h \in Ports : h # g => blast'[h] = blast[h]
    BY <1>0, <2>2, <2>3
  <2> QED
    BY <2>2, <2>4
<1>4. r \in Reply /\ r.to = blast[g].to /\ (r.last <=> blast[g].left = 1)
  <2>1. (blast[g].left = 1) \in BOOLEAN
    BY Zenon
  <2>2. blast[g].to \in 1..MaxId
    BY <1>0, <1>1, <1>2 DEF FreshInv
  <2> QED
    BY <2>1, <2>2 DEF Reply
<1> HIDE DEF r
<1>5. /\ down' \in [Ports -> Seq(Reply)]
      /\ \A h \in Ports : h # g => down'[h] = down[h]
      /\ down'[g] = down[g] \/ down'[g] = Append(down[g], r)
  BY <1>0, <1>1, <1>4, DeliverResult
<1>6. NumberInv' /\ OrderInv' /\ \A h \in Ports : Held(h)' = Held(h)
  BY <1>0, <1>1, SameMessages
<1>7. TypeOK'
  BY <1>0, <1>1, <1>3, <1>5 DEF TypeOK
<1>8. FreshInv'
  <2>1. \A h \in Ports : h > gen => h # g
    BY <1>0, <1>1 DEF FreshInv
  <2>2. \A h \in Ports : blast'[h].left > 0 => blast'[h].to > 0
    BY <1>0, <1>1, <1>3 DEF FreshInv
  <2> QED
    BY <1>0, <1>1, <1>3, <1>5, <2>1, <2>2 DEF FreshInv
<1>9. CallInv' /\ BufferInv'
  BY <1>0, <1>1 DEF CallInv, BufferInv
<1>10. AuthInv'
  BY <1>0, <1>1, <1>6 DEF AuthInv
<1>11. ReplyInv'
  <2>1. CASE g # gen
    BY <1>1, <1>3, <1>5, <2>1, OtherPort
  <2>2. CASE g = gen
    <3> SUFFICES ASSUME ~failed PROVE pc \in {"recv", "exhaust"} /\ Waiting'
      BY <1>1 DEF ReplyInv
    <3>1. pc \in {"recv", "exhaust"} /\ Waiting
      BY <1>0, <1>1, <2>2 DEF ReplyInv, AtRest
    <3>2. /\ blast[g].to = call.id /\ call.op = "exhaust"
          /\ \A i \in 1..Len(up[g]) : up[g][i].op \notin ReplyOps
          /\ \A i \in 1..Len(down[g]) : down[g][i].to = call.id /\ ~down[g][i].last
      BY <1>1, <2>2, <3>1 DEF Waiting
    <3>3. \A i \in 1..Len(down'[g]) :
             /\ down'[g][i].to = call.id
             /\ down'[g][i].last => i = Len(down'[g]) /\ blast'[g].left = 0
      <4>1. CASE down'[g] = down[g]
        BY <3>2, <4>1
      <4>2. CASE down'[g] = Append(down[g], r)
        <5>1. /\ Len(down'[g]) = Len(down[g]) + 1 /\ Len(down[g]) \in Nat
              /\ \A i \in 1..Len(down[g]) : down'[g][i] = down[g][i]
              /\ down'[g][Len(down[g]) + 1] = r
          BY <1>0, <1>4, <4>2, AppendProperties, LenProperties
        <5>2. \A i \in 1..Len(down'[g]) : i \in 1..Len(down[g]) \/ i = Len(down[g]) + 1
          BY <5>1
        <5>3. r.to = call.id /\ (r.last => blast'[g].left = 0)
          BY <1>3, <1>4, <3>2
        <5> QED
          BY <3>2, <5>1, <5>2, <5>3
      <4> QED
        BY <1>5, <4>1, <4>2
    <3>4. /\ up'[gen'] = up[g] /\ down'[gen'] = down'[g] /\ blast'[gen'] = blast'[g]
          /\ call' = call /\ pc' = pc
      BY <1>1, <2>2
    <3>5. Waiting'
      BY <1>3, <3>2, <3>3, <3>4 DEF Waiting
    <3> QED
      BY <3>1, <3>5
  <2> QED
    BY <2>1, <2>2
<1> QED
  BY <1>6, <1>7, <1>8, <1>9, <1>10, <1>11 DEF IInv

LEMMA ResetInv == ASSUME IInv, NEW g \in Ports, Reset(g) PROVE IInv'
<1>0. /\ TypeOK /\ FreshInv /\ CallInv /\ BufferInv /\ ReplyInv /\ NumberInv /\ OrderInv /\ AuthInv
      /\ gen \in Ports /\ sock \in [Ports -> Sockets]
      /\ down \in [Ports -> Seq(Reply)] /\ down[g] \in Seq(Reply)
  BY DEF IInv, TypeOK
<1>1. /\ sock' = [sock EXCEPT ![g] = "reset"]
      /\ \E n \in 0..Len(up[g]) : up' = [up EXCEPT ![g] = SubSeq(up[g], 1, n)]
      /\ \E n \in 0..Len(down[g]) : down' = [down EXCEPT ![g] = SubSeq(down[g], 1, n)]
      /\ UNCHANGED <<blast, gen, piggy, failed, lastTry, nextId, authed,
                     pc, call, authLeft, todo, cursors, outcome, now, served, thrown>>
  BY DEF Reset, portVars, thrVars
<1>2. /\ NumberInv' /\ OrderInv'
      /\ \A h \in Ports : \A x \in Held(h)' : x \in Held(h)
      /\ up' \in [Ports -> Seq(Message)]
      /\ \A h \in Ports : /\ Len(up'[h]) <= Len(up[h])
                          /\ \A i \in 1..Len(up'[h]) : i \in 1..Len(up[h]) /\ up'[h][i] = up[h][i]
  BY <1>0, <1>1, CutMessages
<1>3. PICK n \in 0..Len(down[g]) : down' = [down EXCEPT ![g] = SubSeq(down[g], 1, n)]
  BY <1>1
<1> DEFINE d == down[g]
           t == SubSeq(down[g], 1, n)
<1>4. Len(d) \in Nat /\ n \in Nat /\ n <= Len(d)
  BY <1>0, LenProperties
<1>5. \A i \in 1..n : i \in 1..Len(d) /\ d[i] \in Reply
  BY <1>0, <1>4, ElementOfSeq
<1>6. t \in Seq(Reply) /\ Len(t) = n /\ \A i \in 1..n : t[i] = d[i]
  BY <1>0, Prefix
<1>7. down' \in [Ports -> Seq(Reply)] /\ down'[g] = t /\ \A h \in Ports : h # g => down'[h] = down[h]
  BY <1>0, <1>3, <1>6
<1> HIDE DEF t
<1>8. \A h \in Ports : /\ \A i \in 1..Len(down'[h]) : i \in 1..Len(down[h]) /\ down'[h][i] = down[h][i]
                       /\ Len(down[h]) \in 1..Len(down'[h]) => Len(down'[h]) = Len(down[h])
  <2> TAKE h \in Ports
  <2>1. CASE h = g
    BY <1>4, <1>5, <1>6, <1>7, <2>1
  <2>2. CASE h # g
    BY <1>7, <2>2
  <2> QED
    BY <2>1, <2>2
<1>9. TypeOK'
  <2>1. sock' \in [Ports -> Sockets]
    BY <1>0, <1>1 DEF Sockets
  <2> QED
    BY <1>0, <1>1, <1>2, <1>7, <2>1 DEF TypeOK
<1>10. \A h \in Ports : /\ up[h] = <<>> => up'[h] = <<>>
                        /\ down[h] = <<>> => down'[h] = <<>>
  <2> TAKE h \in Ports
  <2>1. up'[h] \in Seq(Message) /\ down'[h] \in Seq(Reply)
    BY <1>2, <1>7
  <2>2. /\ up'[h] # <<>> => Len(up'[h]) \in Nat \ {0}
        /\ down'[h] # <<>> => Len(down'[h]) \in Nat \ {0}
    BY <2>1, EmptySeq
  <2>3. ASSUME up[h] = <<>> PROVE up'[h] = <<>>
    <3>1. Len(up[h]) = 0
      BY <2>3
    <3> QED
      BY <1>2, <2>2, <3>1
  <2>4. ASSUME down[h] = <<>> PROVE down'[h] = <<>>
    <3>1. Len(down[h]) = 0
      BY <2>4
    <3>2. ~(1 \in 1..Len(down'[h]))
      BY <1>8, <3>1
    <3> QED
      BY <2>2, <3>2
  <2> QED
    BY <2>3, <2>4
<1>11. FreshInv'
  BY <1>0, <1>1, <1>10 DEF FreshInv
<1>12. CallInv' /\ BufferInv'
  BY <1>0, <1>1 DEF CallInv, BufferInv
<1>13. AuthInv'
  BY <1>0, <1>1, <1>2 DEF AuthInv
<1>14. ReplyInv'
  <2> SUFFICES ASSUME ~failed PROVE IF pc \in {"recv", "exhaust"} THEN Waiting' ELSE AtRest'
    BY <1>1 DEF ReplyInv
  <2>1. /\ \A i \in 1..Len(up'[gen]) : i \in 1..Len(up[gen]) /\ up'[gen][i] = up[gen][i]
        /\ \A i \in 1..Len(down'[gen]) : i \in 1..Len(down[gen]) /\ down'[gen][i] = down[gen][i]
        /\ Len(down[gen]) \in 1..Len(down'[gen]) => Len(down'[gen]) = Len(down[gen])
        /\ down[gen] = <<>> => down'[gen] = <<>>
    BY <1>0, <1>2, <1>8, <1>10
  <2>2. CASE pc \notin {"recv", "exhaust"}
    <3>1. AtRest
      BY <1>0, <2>2 DEF ReplyInv
    <3>2. AtRest'
      BY <1>1, <2>1, <3>1 DEF AtRest
    <3> QED
      BY <2>2, <3>2
  <2>3. CASE pc \in {"recv", "exhaust"}
    <3>1. Waiting
      BY <1>0, <2>3 DEF ReplyInv
    <3>2. \A i \in 1..Len(down'[gen]) :
             /\ down'[gen][i].to = call.id
             /\ down'[gen][i].last => i = Len(down'[gen]) /\ blast[gen].left = 0
             /\ ~down'[gen][i].last => call.op = "exhaust"
      BY <2>1, <3>1 DEF Waiting
    <3>3. \A i \in 1..Len(up'[gen]) :
             up'[gen][i].op \in ReplyOps
             => /\ pc = "recv" /\ up'[gen][i] = call
                /\ down'[gen] = <<>> /\ blast[gen].left = 0
      BY <2>1, <3>1 DEF Waiting
    <3>4. \A i, j \in 1..Len(up'[gen]) :
             up'[gen][i].op \in ReplyOps /\ up'[gen][j].op \in ReplyOps => i = j
      BY <2>1, <3>1 DEF Waiting
    <3>5. Waiting'
      BY <1>1, <3>1, <3>2, <3>3, <3>4 DEF Waiting
    <3> QED
      BY <2>3, <3>5
  <2> QED
    BY <2>2, <2>3
<1> QED
  BY <1>2, <1>9, <1>11, <1>12, <1>13, <1>14 DEF IInv

-----------------------------------------------------------------------------
(* The theorems.                                                           *)

LEMMA NextInv == IInv /\ [Next]_vars => IInv'
<1> SUFFICES ASSUME IInv, [Next]_vars PROVE IInv'
  OBVIOUS
<1>1. CASE CheckThrows \/ Tick \/ UNCHANGED vars
  BY <1>1, QuietInv
<1>2. CASE ReconnectFails
  <2>1. /\ Reconnect("closed") /\ outcome' = "threw" /\ pc' = "idle" /\ UNCHANGED <<authLeft, todo>>
    BY <1>2 DEF ReconnectFails, Reconnect
  <2> QED
    BY <2>1, ReconnectInv
<1>3. ASSUME NEW op \in CheckedOps, ReconnectWorks(op) PROVE IInv'
  <2>1. /\ Reconnect("open") /\ pc' = "auth" /\ authLeft' = 2 * AuthEntries
        /\ todo' \in CheckedOps /\ UNCHANGED outcome
    BY <1>3 DEF ReconnectWorks
  <2> QED
    BY <2>1, ReconnectInv
<1>4. CASE AuthSend
  BY <1>4, AuthSendInv
<1>5. CASE AuthDone
  BY <1>5, AuthDoneInv
<1>6. CASE Insert
  BY <1>6, InsertInv
<1>7. CASE Query("query") \/ Query("exhaust")
  BY <1>7, QueryInv
<1>8. CASE GetMore
  BY <1>8, GetMoreInv
<1>9. CASE Kill
  BY <1>9, KillInv
<1>10. CASE Delete
  BY <1>10, DeleteInv
<1>11. CASE RecvReply
  BY <1>11, RecvReplyInv
<1>12. CASE AuthThrows
  BY <1>12, AuthThrowsInv
<1>13. CASE RecvWrongId
  BY <1>13, RecvWrongIdInv
<1>14. CASE RecvFails \/ ExhaustLastThrows
  BY <1>14, FailInv
<1>15. CASE ExhaustRecv
  BY <1>15, ExhaustRecvInv
<1>16. ASSUME NEW g \in Ports, Serve(g) \/ BlastReply(g) \/ Reset(g) PROVE IInv'
  BY <1>16, ServeInv, BlastInv, ResetInv
<1>17. CASE ExhaustThrows
  BY <1>17, ExhaustThrowsInv
<1> QED
  BY <1>1, <1>2, <1>3, <1>4, <1>5, <1>6, <1>7, <1>8, <1>9, <1>10, <1>11, <1>12, <1>13, <1>14,
     <1>15, <1>16, <1>17 DEF Next, ClientSend, ClientRecv, Server

LEMMA Invariance == Spec => []IInv
BY InitInv, NextInv, PTL DEF Spec

LEMMA NoStrayReplyFollows == IInv => NoStrayReply
<1> SUFFICES ASSUME IInv, ~failed
             PROVE  Owed(gen) \subseteq (IF pc \in {"recv", "exhaust"} THEN {call.id} ELSE {})
  BY DEF NoStrayReply
<1>0. ReplyInv /\ down[gen] \in Seq(Reply) /\ up[gen] \in Seq(Message)
  BY DEF IInv, TypeOK
<1>a. blast[gen].left = 0 => ~(blast[gen].left > 0)
  OBVIOUS
<1>1. CASE pc \in {"recv", "exhaust"}
  <2>1. Waiting
    BY <1>0, <1>1 DEF ReplyInv
  <2>2. \A i \in 1..Len(down[gen]) : down[gen][i].to = call.id
    BY <2>1 DEF Waiting
  <2>3. \A i \in 1..Len(up[gen]) : up[gen][i].op \in ReplyOps => up[gen][i].id = call.id
    BY <2>1 DEF Waiting
  <2>4. blast[gen].left > 0 => blast[gen].to = call.id
    BY <2>1 DEF Waiting
  <2> QED
    BY <1>1, <2>2, <2>3, <2>4 DEF Owed
<1>2. CASE pc \notin {"recv", "exhaust"}
  <2>1. AtRest
    BY <1>0, <1>2 DEF ReplyInv
  <2>2. Len(down[gen]) = 0
    BY <2>1 DEF AtRest
  <2>3. {down[gen][i].to : i \in 1..Len(down[gen])} = {}
    BY <2>2
  <2>4. {j \in 1..Len(up[gen]) : up[gen][j].op \in ReplyOps} = {}
    BY <2>1 DEF AtRest
  <2>5. ~(blast[gen].left > 0)
    BY <1>a, <2>1 DEF AtRest
  <2>6. Owed(gen) = {}
    BY <2>3, <2>4, <2>5 DEF Owed
  <2> QED
    BY <1>2, <2>6
<1> QED
  BY <1>1, <1>2

LEMMA OnceInOrderFollows == IInv => OnceInOrder
<1> SUFFICES ASSUME IInv, NEW i \in 1..Len(served), NEW j \in 1..Len(served), i < j,
                    served[i][2].op # "kill", served[j][2].op # "kill",
                    served[i][1] = served[j][1] =>
                       ~({served[i][2].id, served[j][2].id} \subseteq thrown)
             PROVE  /\ served[i][2].id # served[j][2].id
                    /\ served[i][1] = served[j][1] => served[i][2].id < served[j][2].id
  BY DEF OnceInOrder
<1>0. TypeOK /\ FreshInv /\ NumberInv /\ OrderInv /\ served \in Seq(Ports \X Message)
  BY DEF IInv, TypeOK
<1>1. served[i] \in Ports \X Message /\ served[j] \in Ports \X Message
  BY <1>0, ElementOfSeq
<1>2. PICK g \in Ports, h \in Ports, m \in Message, n \in Message :
         g = served[i][1] /\ h = served[j][1] /\ m = served[i][2] /\ n = served[j][2]
  BY <1>1
<1>3. m \in Held(g) /\ n \in Held(h)
  BY <1>2 DEF Held, Handled
<1>4. m.id \in Nat /\ n.id \in Nat /\ g \in Nat /\ h \in Nat
  BY <1>0, <1>3, MailTypes DEF Held, Mail
<1>5. CASE g = h
  <2>1. Before(m, n) /\ ~(m.id \in thrown /\ n.id \in thrown)
    BY <1>0, <1>2, <1>5 DEF OrderInv
  <2>2. m.id < n.id
    BY <1>2, <2>1 DEF Before
  <2> QED
    BY <1>2, <1>4, <2>2
<1>6. CASE g # h
  <2>1. m.id < n.id \/ n.id < m.id
    BY <1>0, <1>3, <1>4, <1>6 DEF NumberInv
  <2> QED
    BY <1>2, <1>4, <1>6, <2>1
<1> QED
  BY <1>5, <1>6

LEMMA AuthPresentedFollows == IInv => AuthPresented
<1> SUFFICES ASSUME IInv, NEW i \in 1..Len(served), served[i][1] > 1,
                    served[i][2].op \in {"insert", "query", "exhaust"}
             PROVE  authed[served[i][1]] # "no"
  BY DEF AuthPresented
<1>0. AuthInv /\ served \in Seq(Ports \X Message)
  BY DEF IInv, TypeOK
<1>1. served[i] \in Ports \X Message
  BY <1>0, ElementOfSeq
<1>2. PICK g \in Ports, m \in Message : g = served[i][1] /\ m = served[i][2]
  BY <1>1
<1>3. m \in Held(g) /\ m.op \in CheckedOps
  BY <1>2 DEF Held, Handled, CheckedOps
<1> QED
  BY <1>0, <1>2, <1>3 DEF AuthInv

(* The connection's variables keep their types: the numbers of messages,   *)
(* the ports, and what is left of authCache (never below zero, although a  *)
(* getnonce that fails skips two commands, dbclient.cpp:596-602).          *)
THEOREM ConnectionTypes == Spec => []TypeOK
BY Invariance, PTL DEF IInv

(* A connection that is not failed owes nothing but the reply its thread   *)
(* waits for, for every number of ports, messages and exhaust replies.     *)
THEOREM NoForeignReply == Spec => []NoStrayReply
BY Invariance, NoStrayReplyFollows, PTL

(* A write or request whose say() returned is handled at most once, and in *)
(* order with all others of its port; so is every one across ports.        *)
THEOREM HandledOnceInOrder == Spec => []OnceInOrder
BY Invariance, OnceInOrderFollows, PTL

(* No write or query reaches the server over a reconnected port before the *)
(* cached credentials were presented or auth threw.                        *)
THEOREM CredentialsFirst == Spec => []AuthPresented
BY Invariance, AuthPresentedFollows, PTL

(* Only a reconnect clears failed, and reconnects are two seconds apart.   *)
THEOREM OnlyReconnectHeals == Spec => HealedByReconnect
<1> DEFINE A == /\ failed /\ ~failed' => gen' = gen + 1 /\ sock'[gen'] = "open"
                /\ gen' # gen => failed /\ (lastTry # 0 => now - lastTry >= 2)
<1>1. IInv /\ [Next]_vars => [A]_vars
  <2> SUFFICES ASSUME IInv, Next PROVE A
    OBVIOUS
  <2>0. /\ lastTry \in Int /\ now \in Int /\ gen \in Ports /\ MaxGen \in Nat
        /\ sock \in [Ports -> Sockets]
    BY ConnectionAssumption DEF IInv, TypeOK
  <2>1. ASSUME NEW t \in {"open", "closed"}, Reconnect(t) PROVE A
    <3>1. /\ failed /\ ~TooSoon /\ gen < MaxGen /\ gen' = gen + 1 /\ failed' = (t = "closed")
          /\ sock' = [sock EXCEPT ![gen] = "closed", ![gen + 1] = t]
      BY <2>1 DEF Reconnect
    <3>2. lastTry # 0 => now - lastTry >= 2
      BY <2>0, <3>1 DEF TooSoon
    <3>3. gen + 1 \in Ports
      BY <2>0, <3>1 DEF Ports
    <3>4. sock'[gen'] = t
      BY <2>0, <3>1, <3>3
    <3> QED
      BY <3>1, <3>2, <3>4
  <2>2. ASSUME UNCHANGED gen, failed => failed' PROVE A
    BY <2>2
  <2>3. ASSUME NEW w, Said(w) PROVE A
    BY <2>3 DEF Said
  <2>4. CASE ReconnectFails \/ \E op \in CheckedOps : ReconnectWorks(op)
    BY <2>1, <2>4 DEF ReconnectFails, ReconnectWorks
  <2>5. CASE AuthSend \/ Insert \/ Query("query") \/ Query("exhaust") \/ GetMore
    BY <2>3, <2>5 DEF AuthSend, Insert, Query, GetMore, CallSend
  <2>6. CASE CheckThrows \/ AuthDone \/ Kill \/ Delete
    BY <2>2, <2>6 DEF CheckThrows, AuthDone, Kill, Delete, portVars
  <2>7. CASE ClientRecv
    BY <2>2, <2>7 DEF ClientRecv, RecvReply, AuthThrows, RecvWrongId, RecvFails,
                      ExhaustRecv, ExhaustThrows, ExhaustLastThrows, portVars
  <2>8. CASE Server \/ (\E g \in Ports : Reset(g)) \/ Tick
    BY <2>2, <2>8 DEF Server, Serve, BlastReply, Reset, Tick, portVars
  <2> QED
    BY <2>4, <2>5, <2>6, <2>7, <2>8 DEF Next, ClientSend
<1> QED
  BY <1>1, Invariance, PTL DEF Spec, HealedByReconnect

-----------------------------------------------------------------------------
(***************************************************************************)
(* The R binding drives the connection only through the connection's own   *)
(* operations, so what is shown above of every connection holds of R's,    *)
(* and what R is told of an insert is true.                                *)
(***************************************************************************)

-----------------------------------------------------------------------------
(* The inductive invariant.                                                *)

(* Where std::cout points.  What a call saved is never a buffer of a call  *)
(* that is still on the stack.                                             *)
CoutInv ==
    /\ rpc \in {"R", "gle"} => cout # "local"
    /\ ~jumped => oldbuf = "std" /\ (rpc \in {"R", "gle"} => cout = "std")

(* The call R is in and the state of the connection.  A connection that    *)
(* failed stays failed, because there is no reconnect; the first send of a *)
(* call empties the buffer, or fails and ends the call.                    *)
PlaceInv ==
    /\ gen = 1 /\ pc \in {"idle", "recv", "deleted"}
    /\ pc = "recv" => /\ rpc \in {"query", "gle"} /\ call.op \in {"query", "getMore"}
                      /\ rpc = "gle" => call.op = "query"
    /\ rpc \in {"query", "end", "gle"} => ~failed /\ piggy = <<>>

InsertMsg(id) == [op |-> "insert", id |-> id]
OnItsWay(id)  == \E i \in 1..Len(up[1]) : up[1][i] = InsertMsg(id)
InBuffer(id)  == \E i \in 1..Len(piggy) : piggy[i] = InsertMsg(id)

(* An insert R was told has failed ended the use of the connection.  It    *)
(* may be in the buffer, if it joined others there, and gets on its way    *)
(* only when the handle is closed.                                         *)
RefusedInv ==
    /\ refused # {} => failed /\ rpc \in {"R", "dead"}
    /\ \A id \in refused :
          /\ InBuffer(id) => id \in joined
          /\ HandledInsert(id) \/ OnItsWay(id) => handle = "cleared" /\ id \in joined

(* err tells what became of the insert R waits for.                        *)
Verdict(err) ==
    /\ err = "none" => insertId \in stored
    /\ err = "nocode" => insertId \in silent

(* Between an insert and the answer to its getlasterror: nothing comes     *)
(* between the two on the socket, so that the server's LastError is the    *)
(* insert's when it handles the getlasterror.                              *)
GleInv ==
    rpc = "gle" =>
        /\ insertId \in 1..MaxId
        /\ pc = "idle" /\ sock[1] = "open" =>
              IF up[1] = <<>> THEN Verdict(srvErr) ELSE up[1][Len(up[1])] = InsertMsg(insertId)
        /\ pc = "recv" =>
              /\ \A j \in 1..Len(up[1]) :
                    up[1][j].op = "query" =>
                       IF j = 1 THEN Verdict(srvErr) ELSE up[1][j - 1] = InsertMsg(insertId)
              /\ down[1] # <<>> => Verdict(gleReply)

RInv == RTypeOK /\ CoutInv /\ PlaceInv /\ RefusedInv /\ GleInv /\ OneMeansStored

-----------------------------------------------------------------------------
(* Each step of the session is a step of the connection, or none of it.    *)

LEMMA StepOfConnection == [RNext]_allVars => [Next]_vars
<1> SUFFICES ASSUME [RNext]_allVars PROVE Next \/ UNCHANGED vars
  OBVIOUS
<1>0. 1 \in Ports
  BY ConnectionAssumption DEF Ports
<1>1. CASE UNCHANGED allVars
  BY <1>1 DEF allVars
<1>2. CASE RCall
  <2>1. ASSUME Delete \/ CheckThrows \/ Query("query") \/ Insert PROVE Next
    BY <2>1 DEF Next, ClientSend
  <2> QED
    BY <1>2, <2>1 DEF RCall, mongoRconnect, mongoRauthenticate, mongoRdisconnect, NullHandle,
                      QueryCall, InsertCall
<1>3. CASE QueryReply \/ QueryNotFound \/ QueryLost \/ GleReply \/ GleLost
  <2>1. ASSUME RecvReply \/ RecvFails \/ RecvWrongId PROVE Next
    BY <2>1 DEF Next, ClientRecv
  <2> QED
    BY <1>3, <2>1 DEF QueryReply, QueryNotFound, QueryLost, GleReply, GleLost
<1>4. CASE Unwind \/ MakeString \/ DocumentThrows \/ OutOfMemory \/ QueryMore \/ QueryReturn \/ GleSend
  <2>1. ASSUME Kill \/ GetMore \/ Query("query") PROVE Next
    BY <2>1 DEF Next, ClientSend
  <2> QED
    BY <1>4, <2>1 DEF Unwind, MakeString, DocumentThrows, OutOfMemory, QueryMore, QueryReturn, GleSend
<1>5. CASE SrvServe \/ Network
  <2>1. Serve(1) \/ Reset(1)
    BY <1>5 DEF SrvServe, Network
  <2> QED
    BY <1>0, <2>1 DEF Next, Server
<1> QED
  BY <1>1, <1>2, <1>3, <1>4, <1>5 DEF RNext, RThread

(* The binding uses its connection through the connection's operations     *)
(* only (mongoR.cc:41-161), so every theorem of ConnectionProofs holds of  *)
(* an R session.                                                           *)
THEOREM BindingUsesConnection == RSpec => Spec
BY StepOfConnection, PTL DEF RSpec, Spec, RInit

LEMMA ConnectionInv == RSpec => []IInv
BY BindingUsesConnection, Invariance, PTL

-----------------------------------------------------------------------------
(* Facts about the connection as the session uses it.                      *)

(* say() with an empty buffer: the message is written or it is not.        *)
CleanSaid(w, m) ==
    /\ w.ok \in BOOLEAN /\ w.piggy = <<>>
    /\ w.ok => \/ w.up = Append(up[1], m) /\ w.sock = "open" /\ sock[1] = "open"
               \/ w.up = up[1] /\ w.sock = "reset"
    /\ ~w.ok => w.up = up[1]

LEMMA SayClean ==
  ASSUME gen = 1, piggy = <<>>, up[1] \in Seq(Message), NEW m \in Message, NEW w \in say(m)
  PROVE  CleanSaid(w, m)
<1> DEFINE one == <<m>>
           q == up[1]
           s == sock[1]
<1>1. one \in Seq(Message) /\ Len(one) = 1 /\ one[1] = m
  OBVIOUS
<1>2. PICK v \in send(s, q, one) : w = [sock |-> v.sock, up |-> v.up, ok |-> v.ok, piggy |-> <<>>]
  BY DEF say, Alone
<1>3. w.sock = v.sock /\ w.up = v.up /\ w.ok = v.ok /\ w.piggy = <<>>
  BY <1>2
<1>4. q \o one = Append(q, m)
  BY AppendIsConcat
<1>5. q \o SubSeq(one, 1, 0) = q
  <2>1. SubSeq(one, 1, 0) = <<>>
    BY <1>1, SubSeqEmpty
  <2> QED
    BY <2>1, ConcatEmptySeq
<1>6. CASE s = "open"
  <2>1. \/ v = [sock |-> "open", up |-> q \o one, ok |-> TRUE]
        \/ \E t \in {"open", "reset"} : \E n \in 0..0 :
              v = [sock |-> t, up |-> q \o SubSeq(one, 1, n), ok |-> FALSE]
    <3> HIDE DEF q, s, one
    <3>1. v \in {[sock |-> "open", up |-> q \o one, ok |-> TRUE]}
                \cup UNION {{[sock |-> t, up |-> q \o SubSeq(one, 1, n), ok |-> FALSE] :
                                t \in {"open", "reset"}} : n \in 0..(Len(one) - 1)}
      BY <1>6 DEF send
    <3> QED
      BY <1>1, <3>1
  <2>2. \/ v.sock = "open" /\ v.up = Append(q, m) /\ v.ok = TRUE
        \/ v.up = q /\ v.ok = FALSE
    <3> HIDE DEF q, s, one
    <3> QED
      BY <1>4, <1>5, <2>1
  <2> QED
    BY <1>3, <1>6, <2>2, Zenon DEF CleanSaid
<1>7. CASE s # "open"
  <2>1. \E b \in {FALSE, s = "reset"} : v = [sock |-> s, up |-> q, ok |-> b]
    <3> HIDE DEF q, s, one
    <3>1. v \in {[sock |-> s, up |-> q, ok |-> b] : b \in {FALSE, s = "reset"}}
      BY <1>7 DEF send
    <3> QED
      BY <3>1, Zenon
  <2>2. v.up = q /\ v.ok \in BOOLEAN /\ (v.ok => v.sock = "reset")
    <3>1. PICK b \in {FALSE, s = "reset"} : v = [sock |-> s, up |-> q, ok |-> b]
      BY <2>1
    <3>2. b \in BOOLEAN /\ (b => s = "reset")
      BY Zenon
    <3>3. v.up = q /\ v.ok = b /\ v.sock = s
      BY <3>1
    <3> QED
      BY <3>2, <3>3, Zenon
  <2> QED
    BY <1>3, <2>2, Zenon DEF CleanSaid
<1> QED
  BY <1>6, <1>7

(* A say() that works has put the message at the end of the output, unless *)
(* the peer is gone, and one that does not has not put it there at all.    *)
SaidLast(w, m) ==
    w.ok => w.sock = "reset" \/ (w.up # <<>> /\ w.up[Len(w.up)] = m)

LEMMA SendLast ==
  ASSUME NEW s, NEW q \in Seq(Message), NEW msgs \in Seq(Message), Len(msgs) > 0,
         NEW v \in send(s, q, msgs), v.ok
  PROVE  v.sock = "reset" \/ (v.up # <<>> /\ v.up[Len(v.up)] = msgs[Len(msgs)])
<1>1. CASE s = "open"
  <2>1. v.up = q \o msgs
    <3>1. v \in {[sock |-> "open", up |-> q \o msgs, ok |-> TRUE]}
                \cup UNION {{[sock |-> t, up |-> q \o SubSeq(msgs, 1, n), ok |-> FALSE] :
                                t \in {"open", "reset"}} : n \in 0..(Len(msgs) - 1)}
      BY <1>1 DEF send
    <3>2. \/ v = [sock |-> "open", up |-> q \o msgs, ok |-> TRUE]
          \/ \E t \in {"open", "reset"}, n \in 0..(Len(msgs) - 1) :
                v = [sock |-> t, up |-> q \o SubSeq(msgs, 1, n), ok |-> FALSE]
      BY <3>1
    <3>3. CASE v = [sock |-> "open", up |-> q \o msgs, ok |-> TRUE]
      BY <3>3
    <3>4. ASSUME NEW t, NEW n, v = [sock |-> t, up |-> q \o SubSeq(msgs, 1, n), ok |-> FALSE]
          PROVE  FALSE
      BY <3>4
    <3> QED
      BY <3>2, <3>3, <3>4
  <2>2. /\ Len(q) \in Nat /\ Len(msgs) \in Nat /\ Len(q \o msgs) = Len(q) + Len(msgs)
        /\ \A i \in 1..(Len(q) + Len(msgs)) :
              (q \o msgs)[i] = IF i <= Len(q) THEN q[i] ELSE msgs[i - Len(q)]
    BY LenProperties, ConcatProperties
  <2> DEFINE Q == Len(q)
             M == Len(msgs)
             both == q \o msgs
  <2>3. Q \in Nat /\ M \in Nat /\ M > 0 /\ Len(both) = Q + M
    BY <2>2
  <2>4. \A i \in 1..(Q + M) : both[i] = IF i <= Q THEN q[i] ELSE msgs[i - Q]
    BY <2>2
  <2> HIDE DEF Q, M, both
  <2>5. Q + M \in 1..(Q + M) /\ ~(Q + M <= Q) /\ (Q + M) - Q = M
    BY <2>3
  <2>6. both[Len(both)] = msgs[M] /\ Len(both) # 0
    BY <2>3, <2>4, <2>5
  <2>7. both # <<>>
    BY <2>6
  <2> QED
    BY <2>1, <2>6, <2>7 DEF both, M
<1>2. CASE s # "open"
  <2>1. v \in {[sock |-> s, up |-> q, ok |-> b] : b \in {FALSE, s = "reset"}}
    BY <1>2 DEF send
  <2>2. PICK b \in {FALSE, s = "reset"} : v = [sock |-> s, up |-> q, ok |-> b]
    BY <2>1, Zenon
  <2>3. v.ok = b /\ v.sock = s
    BY <2>2
  <2> QED
    BY <2>2, <2>3, Zenon
<1> QED
  BY <1>1, <1>2

LEMMA AloneLast ==
  ASSUME NEW s, NEW q \in Seq(Message), NEW m \in Message, NEW w \in Alone(s, q, m)
  PROVE  SaidLast(w, m)
<1> DEFINE one == <<m>>
<1>1. one \in Seq(Message) /\ Len(one) = 1 /\ one[1] = m
  OBVIOUS
<1>2. PICK v \in send(s, q, one) : w = [sock |-> v.sock, up |-> v.up, ok |-> v.ok, piggy |-> <<>>]
  BY DEF Alone
<1>3. w.sock = v.sock /\ w.up = v.up /\ w.ok = v.ok
  BY <1>2
<1> HIDE DEF one
<1>4. Len(one) > 0 /\ one[Len(one)] = m
  BY <1>1
<1>5. v.ok => v.sock = "reset" \/ (v.up # <<>> /\ v.up[Len(v.up)] = m)
  <2>1. ASSUME v.ok PROVE v.sock = "reset" \/ (v.up # <<>> /\ v.up[Len(v.up)] = one[Len(one)])
    <3>1. one \in Seq(Message) /\ Len(one) > 0 /\ v \in send(s, q, one)
      BY <1>1, <1>4
    <3> HIDE <1>1, <1>2, <1>3, <1>4
    <3> QED
      BY <2>1, <3>1, SendLast
  <2> QED
    BY <1>4, <2>1, Zenon
<1> QED
  BY <1>3, <1>5, Zenon DEF SaidLast

LEMMA SayLast ==
  ASSUME up[gen] \in Seq(Message), piggy \in Seq(Message), sock[gen] \in Sockets,
         NEW m \in Message, NEW w \in say(m)
  PROVE  SaidLast(w, m)
<1>1. CASE w \in Alone(sock[gen], up[gen], m)
  BY <1>1, AloneLast
<1>2. CASE piggy # <<>> /\ w \in Apart(m)
  <2>1. PICK v \in send(sock[gen], up[gen], piggy) :
           w \in IF v.ok THEN Alone(v.sock, v.up, m)
                 ELSE {[sock |-> v.sock, up |-> v.up, ok |-> FALSE, piggy |-> piggy]}
    BY <1>2 DEF Apart
  <2>2. v.ok \in BOOLEAN /\ v.up \in Seq(Message)
    BY <1>2, SendWritten DEF Written
  <2>3. CASE w \in Alone(v.sock, v.up, m)
    BY <2>2, <2>3, AloneLast
  <2>4. CASE w = [sock |-> v.sock, up |-> v.up, ok |-> FALSE, piggy |-> piggy]
    BY <2>4 DEF SaidLast
  <2> QED
    BY <2>1, <2>2, <2>3, <2>4
<1>3. CASE w \in Together(m)
  <2> DEFINE all == Append(piggy, m)
  <2>1. PICK v \in send(sock[gen], up[gen], all) :
           w = [sock |-> v.sock, up |-> v.up, ok |-> v.ok, piggy |-> IF v.ok THEN <<>> ELSE all]
    BY <1>3 DEF Together
  <2>2. w.sock = v.sock /\ w.up = v.up /\ w.ok = v.ok
    BY <2>1
  <2>3. all \in Seq(Message) /\ Len(all) > 0 /\ all[Len(all)] = m
    BY AppendProperties, LenProperties
  <2> HIDE DEF all
  <2>4. v.ok => v.sock = "reset" \/ (v.up # <<>> /\ v.up[Len(v.up)] = m)
    BY <2>3, SendLast
  <2> QED
    BY <2>2, <2>4, Zenon DEF SaidLast
<1> QED
  BY <1>1, <1>2, <1>3 DEF say

(* Replies have the number of the request R waits for.                     *)
LEMMA NoWrongReply == ASSUME IInv, ~failed PROVE ~RecvWrongId
<1> SUFFICES ASSUME RecvWrongId PROVE FALSE
  OBVIOUS
<1>1. pc = "recv" /\ down[gen] # <<>> /\ Pop /\ Head(down[gen]).to # call.id /\ UNCHANGED <<up, blast, gen>>
  BY DEF RecvWrongId, portVars
<1>2. Head(down[gen]).to = call.id
  BY <1>1, PopReply
<1> QED
  BY <1>1, <1>2

-----------------------------------------------------------------------------
(* The invariant holds initially.                                          *)

LEMMA RInitInv == RInit => RInv
<1> SUFFICES ASSUME RInit PROVE RInv
  OBVIOUS
<1>1. /\ gen = 1 /\ pc = "idle" /\ rpc = "R" /\ refused = {} /\ acked = {} /\ joined = {}
      /\ cursorId = FALSE /\ cout = "std" /\ oldbuf = "std" /\ jumped = FALSE
  BY DEF RInit, Init
<1>2. RTypeOK
  <2>1. 0 \in 0..MaxBatch /\ 0 \in 0..MaxId
    BY MongoRAssumption, ConnectionAssumption
  <2>2. cursorId \in BOOLEAN /\ jumped \in BOOLEAN
    BY <1>1, Zenon
  <2> QED
    BY <1>1, <2>1, <2>2 DEF RInit, RTypeOK
<1> QED
  BY <1>1, <1>2 DEF RInv, CoutInv, PlaceInv, RefusedInv, GleInv, OneMeansStored

-----------------------------------------------------------------------------
(* Steps that leave the connection and the server alone.                   *)

(* What the invariant asks of the connection, when nothing of it changes.  *)
Quiet == UNCHANGED <<gen, pc, call, failed, piggy, up, down, sock, served, nextId, svars>>

LEMMA QuietKeeps ==
  ASSUME RInv, Quiet
  PROVE  /\ UNCHANGED <<rpc, call, cursorId>> => PlaceInv'
         /\ UNCHANGED <<rpc, handle, refused, joined>> => RefusedInv'
         /\ UNCHANGED <<rpc, insertId>> => GleInv'
         /\ UNCHANGED acked => OneMeansStored'
BY DEF RInv, Quiet, svars, PlaceInv, RefusedInv, HandledInsert, OnItsWay, InBuffer, InsertMsg,
       GleInv, Verdict, OneMeansStored

(* A call that is over before it reaches the server.                       *)
LEMMA CaughtKeeps ==
  ASSUME RInv, Quiet, UNCHANGED <<handle, inBatch, cursorId, jumped, ackVars>>,
         rpc = "R", oldbuf' = cout, Caught
  PROVE  RInv'
<1>1. /\ rpc' = rpc /\ cout' = cout /\ oldbuf' = cout /\ result' = "0"
      /\ UNCHANGED <<insertId, acked, refused, joined>> /\ call' = call
      /\ UNCHANGED <<srvErr, gleReply, stored, silent>>
  BY DEF Caught, Quiet, ackVars, svars
<1>2. PlaceInv' /\ RefusedInv' /\ GleInv' /\ OneMeansStored'
  BY <1>1, QuietKeeps
<1>3. RTypeOK' /\ CoutInv'
  BY <1>1 DEF RInv, RTypeOK, CoutInv
<1> QED
  BY <1>2, <1>3 DEF RInv

LEMMA RQuietInv ==
  ASSUME RInv, mongoRconnect \/ mongoRauthenticate \/ NullHandle \/ UNCHANGED allVars
  PROVE  RInv'
<1>1. /\ Quiet /\ UNCHANGED <<cout, oldbuf, inBatch, cursorId, jumped, call>>
      /\ UNCHANGED <<insertId, acked, refused, joined>>
  BY DEF mongoRconnect, mongoRauthenticate, NullHandle, allVars, Quiet, vars, netVars, portVars,
         thrVars, rvars, ackVars
<1>2. /\ rpc' = rpc \/ (rpc = "R" /\ rpc' = "dead")
      /\ handle' = handle \/ (handle = "unbound" /\ handle' = "live")
      /\ result' = result \/ result' \in {"null", "error"}
  BY DEF mongoRconnect, mongoRauthenticate, NullHandle, allVars, rvars
<1>3. RefusedInv' /\ OneMeansStored'
  <2>1. OneMeansStored'
    BY <1>1, QuietKeeps
  <2>2. handle = "cleared" => handle' = "cleared"
    BY <1>2
  <2>3. \A id \in refused : /\ HandledInsert(id)' <=> HandledInsert(id)
                            /\ OnItsWay(id)' <=> OnItsWay(id)
                            /\ InBuffer(id)' <=> InBuffer(id)
    BY <1>1 DEF Quiet, HandledInsert, OnItsWay, InBuffer, InsertMsg
  <2>4. refused' = refused /\ joined' = joined /\ failed' = failed
    BY <1>1 DEF Quiet
  <2> QED
    BY <1>2, <2>1, <2>2, <2>3, <2>4 DEF RInv, RefusedInv
<1>4. RTypeOK' /\ CoutInv'
  BY <1>1, <1>2 DEF RInv, RTypeOK, CoutInv, Quiet, svars
<1>5. PlaceInv' /\ GleInv'
  <2>1. CASE rpc' = rpc
    BY <1>1, <2>1, QuietKeeps
  <2>2. CASE rpc = "R" /\ rpc' = "dead"
    BY <1>1, <2>2 DEF RInv, PlaceInv, GleInv, Quiet
  <2> QED
    BY <1>2, <2>1, <2>2
<1> QED
  BY <1>3, <1>4, <1>5 DEF RInv

(* In a call that reached the server no insert has been refused.           *)
LEMMA NoneRefused ==
  ASSUME RInv, ~failed \/ rpc \notin {"R", "dead"}
  PROVE  refused = {} /\ (refused' = refused => RefusedInv')
BY DEF RInv, RefusedInv

(* The loop over the documents of a batch.                                 *)
LEMMA RLoopInv ==
  ASSUME RInv, MakeString \/ DocumentThrows \/ OutOfMemory
  PROVE  RInv'
<1>1. /\ Quiet /\ UNCHANGED <<handle, oldbuf, insertId, acked, refused, joined, call>>
      /\ rpc = "query" /\ pc = "idle"
  BY DEF MakeString, DocumentThrows, OutOfMemory, Quiet, vars, netVars, portVars, thrVars, ackVars
<1>2. RefusedInv' /\ OneMeansStored'
  BY <1>1, QuietKeeps, NoneRefused
<1>3. inBatch \in Nat /\ MaxBatch \in Nat /\ RTypeOK /\ CoutInv /\ PlaceInv
  BY MongoRAssumption DEF RInv, RTypeOK
<1>4. /\ rpc' \in {"query", "unwind", "R"} /\ inBatch' \in 0..MaxBatch
      /\ result' \in {result, "error"}
      /\ \/ UNCHANGED <<cout, jumped>> /\ rpc' # "R"
         \/ cout' = "gone" /\ jumped'
  BY <1>1, <1>3 DEF MakeString, DocumentThrows, OutOfMemory, RTypeOK
<1>5. cursorId' \in BOOLEAN /\ jumped' \in BOOLEAN
  <2>1. cursorId \in BOOLEAN /\ jumped \in BOOLEAN
    BY <1>3, Zenon DEF RTypeOK
  <2>2. cursorId' = cursorId \/ cursorId' = FALSE
    BY Zenon DEF MakeString, DocumentThrows, OutOfMemory
  <2>3. jumped' = jumped \/ jumped' = TRUE
    BY Zenon DEF MakeString, DocumentThrows, OutOfMemory
  <2> QED
    BY <2>1, <2>2, <2>3, Zenon
<1>6. CoutInv'
  BY <1>1, <1>3, <1>4 DEF RTypeOK, CoutInv
<1>7. RTypeOK'
  BY <1>1, <1>3, <1>4, <1>5 DEF RTypeOK, Quiet, svars
<1>8. PlaceInv' /\ GleInv'
  BY <1>1, <1>3, <1>4 DEF PlaceInv, GleInv, Quiet
<1> QED
  BY <1>2, <1>6, <1>7, <1>8 DEF RInv

-----------------------------------------------------------------------------
(* Steps in which a message is said.                                       *)

(* No message on its way or handled has the next number.                   *)
LEMMA FreshNumber ==
  ASSUME IInv, RInv
  PROVE  ~HandledInsert(nextId) /\ \A i \in 1..Len(up[1]) : up[1][i] # InsertMsg(nextId)
<1>0. /\ TypeOK /\ FreshInv /\ NumberInv /\ gen = 1 /\ 1 \in Ports
      /\ served \in Seq(Ports \X Message) /\ nextId \in Nat
  BY ConnectionAssumption DEF IInv, RInv, PlaceInv, TypeOK, Ports
<1>1. ASSUME NEW g \in Ports, NEW x \in Held(g), x = InsertMsg(nextId) PROVE FALSE
  <2>1. x.id < nextId
    BY <1>0, <1>1 DEF NumberInv
  <2> QED
    BY <1>0, <1>1, <2>1 DEF InsertMsg
<1>2. ASSUME NEW i \in 1..Len(up[1]), up[1][i] = InsertMsg(nextId) PROVE FALSE
  <2>1. up[1][i] \in Held(1)
    BY <1>2 DEF Held, OnUp, InsertMsg
  <2> QED
    BY <1>0, <1>1, <1>2, <2>1
<1>3. ASSUME NEW i \in 1..Len(served), served[i][2] = InsertMsg(nextId) PROVE FALSE
  <2>1. served[i] \in Ports \X Message
    BY <1>0, ElementOfSeq
  <2>2. PICK g \in Ports : g = served[i][1]
    BY <2>1
  <2>3. served[i][2] \in Held(g)
    BY <1>3, <2>2 DEF Held, Handled, InsertMsg
  <2> QED
    BY <1>1, <1>3, <2>3
<1> QED
  BY <1>2, <1>3 DEF HandledInsert, InsertMsg

(* A message m is said, with result w, on a connection that is not failed. *)
SaidOk(w, m) ==
    /\ m \in Message /\ nextId \in 1..MaxId
    /\ w.ok \in BOOLEAN /\ failed' = ~w.ok /\ (w.ok => piggy' = <<>>)
    /\ up'[1] = w.up /\ sock'[1] = w.sock
    /\ gen' = 1 /\ nextId' = nextId + 1
    /\ UNCHANGED <<down, served>>
    /\ SayOutcome(w, m) /\ SaidLast(w, m) /\ (piggy = <<>> => CleanSaid(w, m) /\ piggy' = <<>>)

LEMMA SessionSays ==
  ASSUME IInv, RInv, ~failed, NEW op \in Ops,
         NEW w \in say([op |-> op, id |-> nextId]), Said(w)
  PROVE  SaidOk(w, [op |-> op, id |-> nextId])
<1> DEFINE m == [op |-> op, id |-> nextId]
<1>0. /\ gen = 1 /\ 1 \in Ports /\ up \in [Ports -> Seq(Message)] /\ piggy \in Seq(Message)
      /\ sock \in [Ports -> Sockets] /\ nextId \in 1..(MaxId + 1) /\ MaxId \in Nat
  BY ConnectionAssumption DEF IInv, RInv, PlaceInv, TypeOK, Ports
<1>1. /\ nextId <= MaxId /\ nextId' = nextId + 1 /\ piggy' = w.piggy
      /\ sock' = [sock EXCEPT ![1] = w.sock] /\ up' = [up EXCEPT ![1] = w.up]
      /\ gen' = gen /\ UNCHANGED <<down, served>>
  BY <1>0 DEF Said
<1>2. nextId \in 1..MaxId
  BY <1>0, <1>1
<1>3. m \in Message
  BY <1>2 DEF Message
<1>4. piggy = <<>> => CleanSaid(w, m) /\ piggy' = <<>>
  BY <1>0, <1>1, <1>3, SayClean DEF CleanSaid
<1>5. SayOutcome(w, m) /\ SaidLast(w, m)
  BY <1>0, <1>3, SayResult, SayLast
<1>6. w.ok \in BOOLEAN /\ (w.ok => piggy' = <<>>)
  BY <1>1, <1>5, Zenon DEF SayOutcome
<1>7. failed' = ~w.ok
  <2>1. failed' = (failed \/ ~w.ok)
    BY Zenon DEF Said
  <2> QED
    BY <1>6, <2>1, Zenon
<1>8. up'[1] = w.up /\ sock'[1] = w.sock
  BY <1>0, <1>1
<1> QED
  BY <1>0, <1>1, <1>2, <1>3, <1>4, <1>5, <1>6, <1>7, <1>8, Zenon DEF SaidOk

(* A message whose say() did not work is not on its way.                   *)
LEMMA SaidRefused ==
  ASSUME IInv, RInv, ~failed, NEW w, SaidOk(w, InsertMsg(nextId)), ~w.ok
  PROVE  \A id : id = nextId => ~HandledInsert(id)' /\ ~OnItsWay(id)'
<1> SUFFICES ASSUME NEW id, id = nextId PROVE ~HandledInsert(id)' /\ ~OnItsWay(id)'
  OBVIOUS
<1>0. /\ gen = 1 /\ up[1] \in Seq(Message) /\ BufferInv /\ Len(up[1]) \in Nat
  BY ConnectionAssumption, LenProperties DEF IInv, RInv, PlaceInv, TypeOK, Ports
<1>1. Written(up'[1], InsertMsg(id), FALSE) /\ served' = served
  BY DEF SaidOk, SayOutcome
<1>2. ~HandledInsert(id) /\ \A i \in 1..Len(up[1]) : up[1][i] # InsertMsg(id)
  BY FreshNumber
<1>3. ~HandledInsert(id)'
  BY <1>1, <1>2 DEF HandledInsert
<1>4. \A x \in Kept : x # InsertMsg(id)
  BY <1>0 DEF Kept, BufferInv, InsertMsg
<1>5. ASSUME NEW i \in 1..Len(up'[1]), up'[1][i] = InsertMsg(id) PROVE FALSE
  <2>1. i \in Nat /\ (i <= Len(up[1]) => i \in 1..Len(up[1]))
    BY <1>0
  <2>2. CASE i > Len(up[1])
    BY <1>0, <1>1, <1>4, <1>5, <2>2 DEF Written
  <2>3. CASE i <= Len(up[1])
    BY <1>0, <1>1, <1>2, <1>5, <2>1, <2>3 DEF Written
  <2> QED
    BY <1>0, <2>1, <2>2, <2>3
<1> QED
  BY <1>3, <1>5 DEF OnItsWay, InsertMsg

(* The request of a call: it waits for its reply, or the connection is     *)
(* failed.                                                                 *)
LEMMA SessionCalls ==
  ASSUME IInv, RInv, NEW op \in {"query", "getMore"}, ~failed, CallSend(op)
  PROVE  \E w : /\ SaidOk(w, [op |-> op, id |-> nextId])
                /\ IF w.ok THEN pc' = "recv" /\ call' = [op |-> op, id |-> nextId] /\ outcome' = outcome
                           ELSE pc' = "idle" /\ outcome' = "threw" /\ call' = call
<1>1. PICK w \in say([op |-> op, id |-> nextId]) :
         /\ Said(w)
         /\ IF w.ok THEN pc' = "recv" /\ call' = [op |-> op, id |-> nextId] /\ outcome' = outcome
                    ELSE pc' = "idle" /\ outcome' = "threw" /\ call' = call
  BY Zenon DEF CallSend
<1>2. op \in Ops
  BY DEF Ops, CheckedOps, ReplyOps
<1> QED
  BY <1>1, <1>2, SessionSays

(* What is left of the invariant after a message was said in a call that   *)
(* does not wait for a getlasterror.                                       *)
LEMMA SaidPlace ==
  ASSUME RInv, NEW w, NEW m, SaidOk(w, m), pc' \in {"idle", "recv"},
         pc' = "recv" => rpc' \in {"query", "gle"} /\ call'.op \in {"query", "getMore"}
                         /\ (rpc' = "gle" => call'.op = "query"),
         rpc' \in {"R", "unwind", "dead"} \/ (rpc' \in {"query", "gle"} /\ w.ok)
  PROVE  PlaceInv'
<1>1. gen' = 1 /\ failed' = ~w.ok /\ (w.ok => piggy' = <<>>) /\ w.ok \in BOOLEAN
  BY Zenon DEF SaidOk
<1>2. rpc' \in {"query", "end", "gle"} => ~failed' /\ piggy' = <<>>
  BY <1>1
<1> QED
  BY <1>1, <1>2 DEF PlaceInv

LEMMA QueryCallInv == ASSUME IInv, RInv, QueryCall PROVE RInv'
<1>0. RTypeOK /\ CoutInv /\ PlaceInv /\ OneMeansStored
  BY DEF RInv
<1>1. /\ rpc = "R" /\ oldbuf' = cout
      /\ UNCHANGED <<handle, inBatch, cursorId, jumped, ackVars, svars>>
      /\ (UNCHANGED vars /\ Caught) \/ (CheckThrows /\ Caught)
         \/ /\ Query("query")
            /\ IF outcome' = "threw" /\ pc' = "idle" THEN Caught
               ELSE rpc' = "query" /\ cout' = "local" /\ UNCHANGED result
  BY DEF QueryCall
<1>2. CASE (UNCHANGED vars /\ Caught) \/ (CheckThrows /\ Caught)
  <2>1. Quiet
    BY <1>1, <1>2 DEF Quiet, vars, netVars, portVars, thrVars, CheckThrows
  <2> QED
    BY <1>1, <1>2, <2>1, CaughtKeeps
<1>3. CASE Query("query") /\ IF outcome' = "threw" /\ pc' = "idle" THEN Caught
                             ELSE rpc' = "query" /\ cout' = "local" /\ UNCHANGED result
  <2>1. CallSend("query") /\ ~failed
    BY <1>0, <1>3 DEF Query, Checked, PlaceInv
  <2>2. PICK w : /\ SaidOk(w, [op |-> "query", id |-> nextId])
                 /\ IF w.ok THEN pc' = "recv" /\ call' = [op |-> "query", id |-> nextId] /\ outcome' = outcome
                            ELSE pc' = "idle" /\ outcome' = "threw" /\ call' = call
    BY <2>1, SessionCalls
  <2>3. \/ w.ok /\ pc' = "recv" /\ call'.op = "query" /\ rpc' = "query" /\ cout' = "local" /\ result' = result
        \/ ~w.ok /\ pc' = "idle" /\ rpc' = "R" /\ cout' = cout /\ result' = "0"
    BY <1>1, <1>3, <2>2 DEF Caught
  <2>4. /\ UNCHANGED <<insertId, acked, refused, joined, srvErr, gleReply, stored, silent>>
        /\ UNCHANGED <<handle, inBatch, cursorId, jumped>>
    BY <1>1 DEF ackVars, svars
  <2>5. RTypeOK' /\ CoutInv'
    BY <1>0, <1>1, <2>3, <2>4 DEF RTypeOK, CoutInv
  <2>6. PlaceInv'
    BY <2>2, <2>3, SaidPlace
  <2>7. RefusedInv'
    BY <2>1, <2>4, NoneRefused
  <2>8. GleInv' /\ OneMeansStored'
    BY <1>0, <2>3, <2>4 DEF GleInv, OneMeansStored
  <2> QED
    BY <2>5, <2>6, <2>7, <2>8 DEF RInv
<1> QED
  BY <1>1, <1>2, <1>3

LEMMA QueryMoreInv == ASSUME IInv, RInv, QueryMore PROVE RInv'
<1>0. RTypeOK /\ CoutInv /\ PlaceInv /\ OneMeansStored
  BY DEF RInv
<1>1. /\ rpc = "query" /\ pc = "idle" /\ CallSend("getMore")
      /\ rpc' = IF pc' = "idle" THEN "unwind" ELSE "query"
      /\ UNCHANGED <<handle, cout, oldbuf, inBatch, cursorId, jumped, insertId, acked, refused, joined>>
      /\ UNCHANGED <<srvErr, gleReply, stored, silent, result>>
  BY DEF QueryMore, GetMore, ackVars, svars
<1>2. ~failed
  BY <1>0, <1>1 DEF PlaceInv
<1>3. PICK w : /\ SaidOk(w, [op |-> "getMore", id |-> nextId])
               /\ IF w.ok THEN pc' = "recv" /\ call' = [op |-> "getMore", id |-> nextId] /\ outcome' = outcome
                          ELSE pc' = "idle" /\ outcome' = "threw" /\ call' = call
  BY <1>1, <1>2, SessionCalls
<1>4. \/ w.ok /\ pc' = "recv" /\ call'.op = "getMore" /\ rpc' = "query"
      \/ ~w.ok /\ pc' = "idle" /\ rpc' = "unwind"
  BY <1>1, <1>3
<1>5. RTypeOK' /\ CoutInv'
  BY <1>0, <1>1, <1>4 DEF RTypeOK, CoutInv
<1>6. PlaceInv'
  BY <1>3, <1>4, SaidPlace
<1>7. RefusedInv'
  BY <1>1, <1>2, NoneRefused
<1>8. GleInv' /\ OneMeansStored'
  BY <1>0, <1>1, <1>4 DEF GleInv, OneMeansStored
<1> QED
  BY <1>5, <1>6, <1>7, <1>8 DEF RInv

LEMMA InsertCallInv == ASSUME IInv, RInv, InsertCall PROVE RInv'
<1>0. RTypeOK /\ CoutInv /\ PlaceInv /\ OneMeansStored
  BY DEF RInv
<1>1. /\ rpc = "R" /\ oldbuf' = cout
      /\ UNCHANGED <<handle, inBatch, cursorId, jumped, svars>>
      /\ \/ UNCHANGED <<vars, ackVars>> /\ Caught
         \/ CheckThrows /\ Caught /\ UNCHANGED ackVars
         \/ /\ Insert /\ insertId' = nextId /\ acked' = acked
            /\ joined' = IF piggy = <<>> THEN joined ELSE joined \cup {nextId}
            /\ IF outcome' = "threw"
               THEN Caught /\ refused' = refused \cup {nextId}
               ELSE rpc' = "gle" /\ cout' = oldbuf' /\ UNCHANGED <<result, refused>>
  BY DEF InsertCall
<1>2. CASE (UNCHANGED <<vars, ackVars>> /\ Caught) \/ (CheckThrows /\ Caught /\ UNCHANGED ackVars)
  <2>1. Quiet /\ UNCHANGED ackVars
    BY <1>1, <1>2 DEF Quiet, vars, netVars, portVars, thrVars, CheckThrows
  <2> QED
    BY <1>1, <1>2, <2>1, CaughtKeeps
<1>3. CASE /\ Insert /\ insertId' = nextId /\ acked' = acked
           /\ joined' = IF piggy = <<>> THEN joined ELSE joined \cup {nextId}
           /\ IF outcome' = "threw"
              THEN Caught /\ refused' = refused \cup {nextId}
              ELSE rpc' = "gle" /\ cout' = oldbuf' /\ UNCHANGED <<result, refused>>
  <2>1. ~failed
    BY <1>0, <1>3 DEF Insert, Checked, PlaceInv
  <2>2. PICK w \in say([op |-> "insert", id |-> nextId]) :
           Said(w) /\ outcome' = IF w.ok THEN "ok" ELSE "threw"
    BY <1>3 DEF Insert
  <2>3. SaidOk(w, [op |-> "insert", id |-> nextId])
    <3>1. "insert" \in Ops
      BY DEF Ops, CheckedOps
    <3> QED
      BY <2>1, <2>2, <3>1, SessionSays
  <2>4. /\ pc' = "idle" /\ call' = call
        /\ \/ w.ok /\ rpc' = "gle" /\ cout' = cout /\ result' = result /\ refused' = refused
           \/ ~w.ok /\ rpc' = "R" /\ cout' = cout /\ result' = "0" /\ refused' = refused \cup {nextId}
    BY <1>1, <1>3, <2>2 DEF Caught, Insert
  <2>5. /\ UNCHANGED <<acked, srvErr, gleReply, stored, silent>>
        /\ UNCHANGED <<handle, inBatch, cursorId, jumped>>
    BY <1>1, <1>3 DEF svars
  <2>6. insertId' \in 1..MaxId /\ nextId \in 1..MaxId /\ MaxId \in Nat
    BY <1>3, <2>3, ConnectionAssumption DEF SaidOk
  <2>7. RTypeOK' /\ CoutInv'
    <3>a. insertId' \in 0..MaxId
      BY <2>6
    <3>1. refused' \subseteq 1..MaxId /\ joined' \subseteq 1..MaxId
      BY <1>0, <1>3, <2>4, <2>6 DEF RTypeOK
    <3>2. CoutInv' /\ oldbuf' \in {"std", "gone"}
      BY <1>0, <1>1, <2>4, <2>5 DEF RTypeOK, CoutInv
    <3> QED
      BY <1>0, <2>4, <2>5, <3>a, <3>1, <3>2 DEF RTypeOK
  <2>8. PlaceInv'
    BY <2>3, <2>4, SaidPlace
  <2>9. RefusedInv'
    <3>1. refused = {} /\ (refused' = refused => RefusedInv')
      BY <2>1, NoneRefused
    <3>2. CASE ~w.ok
      <4>1. PICK n : n = nextId
        OBVIOUS
      <4>2. refused' = {n} /\ rpc' = "R" /\ failed'
        BY <2>3, <2>4, <3>1, <3>2, <4>1 DEF SaidOk
      <4>3. ~HandledInsert(n)' /\ ~OnItsWay(n)'
        BY <2>1, <2>3, <3>2, <4>1, SaidRefused DEF InsertMsg
      <4>4. InBuffer(n)' => n \in joined'
        <5>1. CASE piggy = <<>>
          <6>1. Len(piggy') = 0
            BY <2>3, <5>1 DEF SaidOk
          <6> QED
            BY <6>1 DEF InBuffer
        <5>2. CASE piggy # <<>>
          BY <1>3, <4>1, <5>2
        <5> QED
          BY <5>1, <5>2
      <4> QED
        BY <4>2, <4>3, <4>4 DEF RefusedInv
    <3> QED
      BY <2>4, <3>1, <3>2
  <2>10. OneMeansStored'
    BY <1>0, <2>5 DEF OneMeansStored
  <2>11. GleInv'
    <3>1. CASE w.ok
      <4>2. sock'[1] = "open" => up'[1] # <<>> /\ up'[1][Len(up'[1])] = InsertMsg(insertId')
        BY <1>3, <2>3, <3>1 DEF SaidOk, SaidLast, InsertMsg
      <4> QED
        BY <2>4, <2>6, <4>2 DEF GleInv, InsertMsg
    <3>2. CASE ~w.ok
      BY <2>4, <3>2 DEF GleInv
    <3> QED
      BY <3>1, <3>2
  <2> QED
    BY <2>7, <2>8, <2>9, <2>10, <2>11 DEF RInv
<1> QED
  BY <1>1, <1>2, <1>3

(* The getlasterror follows its insert, with nothing between them.         *)
LEMMA GleSendInv == ASSUME IInv, RInv, GleSend PROVE RInv'
<1>0. RTypeOK /\ CoutInv /\ PlaceInv /\ OneMeansStored /\ GleInv
  BY DEF RInv
<1>1. /\ rpc = "gle" /\ pc = "idle" /\ Query("query")
      /\ rpc' = IF pc' = "idle" THEN "dead" ELSE "gle"
      /\ UNCHANGED <<handle, cout, oldbuf, inBatch, cursorId, jumped, insertId, acked, refused, joined>>
      /\ UNCHANGED <<srvErr, gleReply, stored, silent, result>>
  BY DEF GleSend, ackVars, svars
<1>2. ~failed /\ CallSend("query") /\ piggy = <<>>
  BY <1>0, <1>1 DEF PlaceInv, Query
<1>3. PICK w : /\ SaidOk(w, [op |-> "query", id |-> nextId])
               /\ IF w.ok THEN pc' = "recv" /\ call' = [op |-> "query", id |-> nextId] /\ outcome' = outcome
                          ELSE pc' = "idle" /\ outcome' = "threw" /\ call' = call
  BY <1>2, SessionCalls
<1>4. \/ w.ok /\ pc' = "recv" /\ call'.op = "query" /\ rpc' = "gle"
      \/ ~w.ok /\ pc' = "idle" /\ rpc' = "dead"
  BY <1>1, <1>3
<1>5. RTypeOK' /\ CoutInv'
  BY <1>0, <1>1, <1>4 DEF RTypeOK, CoutInv
<1>6. PlaceInv'
  BY <1>3, <1>4, SaidPlace
<1>7. RefusedInv'
  BY <1>1, <1>2, NoneRefused
<1>8. OneMeansStored'
  BY <1>0, <1>1 DEF OneMeansStored
<1>9. CASE w.ok
  <2> DEFINE m == [op |-> "query", id |-> nextId]
             q == up[1]
  <2>0. pc' = "recv" /\ rpc' = "gle"
    BY <1>4, <1>9
  <2>1. /\ q \in Seq(Message) /\ m \in Message /\ down' = down /\ up'[1] = w.up
        /\ (w.up = Append(q, m) /\ sock[1] = "open") \/ w.up = q
    BY <1>2, <1>3, <1>9, ConnectionAssumption DEF SaidOk, CleanSaid, IInv, TypeOK, Ports
  <2>2. /\ down[1] = <<>> /\ \A i \in 1..Len(q) : q[i].op # "query"
    <3>1. AtRest /\ gen = 1
      BY <1>0, <1>1, <1>2 DEF IInv, ReplyInv, PlaceInv
    <3> QED
      BY <3>1 DEF AtRest, ReplyOps
  <2>3. ASSUME NEW j \in 1..Len(up'[1]), up'[1][j].op = "query"
        PROVE  IF j = 1 THEN Verdict(srvErr)' ELSE up'[1][j - 1] = InsertMsg(insertId)
    <3>1. w.up = Append(q, m) /\ sock[1] = "open" /\ j = Len(q) + 1 /\ Len(q) \in Nat
      <4>1. w.up # q
        BY <2>1, <2>2, <2>3
      <4>2. w.up = Append(q, m) /\ sock[1] = "open" /\ Len(q) \in Nat
        BY <2>1, <4>1, LenProperties
      <4>3. Len(w.up) = Len(q) + 1 /\ \A i \in 1..Len(q) : w.up[i] = q[i]
        BY <2>1, <4>2, AppendProperties
      <4>4. ~(j \in 1..Len(q))
        BY <2>1, <2>2, <2>3, <4>3
      <4> QED
        BY <2>1, <4>2, <4>3, <4>4
    <3>3. IF q = <<>> THEN Verdict(srvErr) ELSE q[Len(q)] = InsertMsg(insertId)
      BY <1>0, <1>1, <3>1 DEF GleInv
    <3>4. CASE q = <<>>
      <4>1. j = 1 /\ Verdict(srvErr)
        BY <3>1, <3>3, <3>4, EmptySeq
      <4> QED
        BY <1>1, <4>1 DEF Verdict
    <3>5. CASE q # <<>>
      <4>1. Len(q) > 0 /\ j # 1 /\ j - 1 = Len(q) /\ Len(q) \in 1..Len(q)
        BY <2>1, <3>1, <3>5, EmptySeq
      <4>2. w.up[Len(q)] = q[Len(q)]
        BY <2>1, <3>1, <4>1, AppendProperties
      <4> QED
        BY <2>1, <3>3, <3>5, <4>1, <4>2
    <3> QED
      BY <3>4, <3>5
  <2>4. insertId' \in 1..MaxId /\ insertId' = insertId
    BY <1>0, <1>1 DEF GleInv
  <2>5. GleInv'
    BY <2>0, <2>1, <2>2, <2>3, <2>4 DEF GleInv, InsertMsg
  <2> QED
    BY <1>5, <1>6, <1>7, <1>8, <2>5 DEF RInv
<1>10. CASE ~w.ok
  <2>1. GleInv'
    BY <1>4, <1>10 DEF GleInv
  <2> QED
    BY <1>5, <1>6, <1>7, <1>8, <2>1 DEF RInv
<1> QED
  BY <1>9, <1>10

-----------------------------------------------------------------------------
(* Steps in which the reply is read, or does not come.                     *)

LEMMA SessionReads ==
  ASSUME IInv, RInv, RecvReply \/ RecvFails
  PROVE  /\ pc = "recv" /\ pc' = "idle" /\ UNCHANGED <<gen, piggy, up, served, nextId, call, sock>>
         /\ RecvReply => failed' = failed
         /\ RecvFails => failed' = TRUE
         /\ UNCHANGED refused => RefusedInv'
<1>1. pc = "recv" /\ UNCHANGED <<gen, piggy, up, served, nextId, call, sock>>
  BY DEF RecvReply, RecvFails, portVars, netVars
<1>2. pc' = "idle"
  <2>1. call.op \in {"query", "getMore"}
    BY <1>1 DEF RInv, PlaceInv
  <2> QED
    BY <2>1 DEF RecvReply, RecvFails
<1>3. /\ RecvReply => failed' = failed
      /\ RecvFails => failed' = TRUE
  BY DEF RecvReply, RecvFails, portVars
<1>4. UNCHANGED refused => RefusedInv'
  <2>1. rpc \in {"query", "gle"}
    BY <1>1 DEF RInv, PlaceInv
  <2> QED
    BY <2>1, NoneRefused
<1> QED
  BY <1>1, <1>2, <1>3, <1>4

LEMMA QueryReplyInv == ASSUME IInv, RInv, QueryReply \/ QueryNotFound PROVE RInv'
<1>0. RTypeOK /\ CoutInv /\ PlaceInv /\ OneMeansStored
  BY DEF RInv
<1>a. inBatch' \in 0..MaxBatch
  <2>1. inBatch' \in 0..MaxBatch \/ inBatch' = 0
    BY Zenon DEF QueryReply, QueryNotFound
  <2> QED
    BY <2>1, MongoRAssumption
<1>b. rpc' \in {"query", "end", "unwind"}
  BY DEF QueryReply, QueryNotFound
<1>1. /\ rpc = "query" /\ RecvReply
      /\ UNCHANGED <<handle, cout, oldbuf, jumped, insertId, acked, refused, joined>>
      /\ UNCHANGED <<srvErr, gleReply, stored, silent, result>>
  BY DEF QueryReply, QueryNotFound, ackVars, svars
<1>2. cursorId' \in BOOLEAN
  <2>1. cursorId' \in (IF Room THEN BOOLEAN ELSE {FALSE}) \/ cursorId' = FALSE
    BY Zenon DEF QueryReply, QueryNotFound
  <2> QED
    BY <2>1, Zenon
<1>3. /\ pc' = "idle" /\ UNCHANGED <<gen, piggy, up, served, nextId, call, failed>>
      /\ RefusedInv'
  BY <1>1, SessionReads
<1>4. RTypeOK' /\ CoutInv'
  BY <1>0, <1>a, <1>b, <1>1, <1>2 DEF RTypeOK, CoutInv
<1>5. PlaceInv'
  BY <1>0, <1>b, <1>1, <1>3 DEF PlaceInv
<1>6. GleInv' /\ OneMeansStored'
  BY <1>0, <1>b, <1>1 DEF GleInv, OneMeansStored
<1> QED
  BY <1>3, <1>4, <1>5, <1>6 DEF RInv

LEMMA LostInv == ASSUME IInv, RInv, QueryLost \/ GleLost PROVE RInv'
<1>0. RTypeOK /\ CoutInv /\ PlaceInv /\ OneMeansStored
  BY DEF RInv
<1>1. /\ rpc \in {"query", "gle"} /\ (RecvFails \/ RecvWrongId)
      /\ UNCHANGED <<handle, cout, oldbuf, inBatch, cursorId, jumped, insertId, acked, refused, joined>>
      /\ UNCHANGED <<srvErr, gleReply, stored, silent, result>>
      /\ rpc' \in {"unwind", "dead"}
  BY DEF QueryLost, GleLost, ackVars, svars
<1>2. RecvFails
  BY <1>0, <1>1, NoWrongReply DEF PlaceInv
<1>3. /\ pc' = "idle" /\ UNCHANGED <<gen, piggy, up, served, nextId, call>> /\ failed' = TRUE
      /\ RefusedInv'
  BY <1>1, <1>2, SessionReads
<1>4. RTypeOK' /\ CoutInv'
  BY <1>0, <1>1 DEF RTypeOK, CoutInv
<1>5. PlaceInv'
  BY <1>0, <1>1, <1>3 DEF PlaceInv
<1>6. GleInv' /\ OneMeansStored'
  BY <1>0, <1>1 DEF GleInv, OneMeansStored
<1> QED
  BY <1>3, <1>4, <1>5, <1>6 DEF RInv

LEMMA GleReplyInv == ASSUME IInv, RInv, GleReply PROVE RInv'
<1>0. RTypeOK /\ CoutInv /\ PlaceInv /\ OneMeansStored /\ GleInv
  BY DEF RInv
<1>1. /\ rpc = "gle" /\ RecvReply /\ rpc' = "R"
      /\ UNCHANGED <<handle, cout, oldbuf, inBatch, cursorId, jumped, insertId, refused, joined>>
      /\ UNCHANGED <<srvErr, gleReply, stored, silent>>
      /\ \/ gleReply = "code" /\ result' = "json" /\ acked' = acked
         \/ gleReply # "code" /\ result' = "1" /\ acked' = acked \cup {insertId}
  BY DEF GleReply, svars
<1>2. /\ pc = "recv" /\ pc' = "idle" /\ UNCHANGED <<gen, piggy, up, served, nextId, call, failed>>
      /\ RefusedInv'
  BY <1>1, SessionReads
<1>3. insertId \in 1..MaxId /\ down[1] # <<>>
  BY <1>0, <1>1, <1>2 DEF GleInv, PlaceInv, RecvReply
<1>4. gleReply # "code" => insertId \in stored \cup silent
  <2>1. Verdict(gleReply) /\ gleReply \in {"none", "code", "nocode"}
    BY <1>0, <1>1, <1>2, <1>3 DEF GleInv, RTypeOK
  <2> QED
    BY <2>1 DEF Verdict
<1>5. OneMeansStored'
  BY <1>0, <1>1, <1>4 DEF OneMeansStored
<1>6. RTypeOK' /\ CoutInv'
  <2>1. acked' \subseteq 1..MaxId
    BY <1>0, <1>1, <1>3 DEF RTypeOK
  <2> QED
    BY <1>0, <1>1, <2>1 DEF RTypeOK, CoutInv
<1>7. PlaceInv'
  BY <1>0, <1>1, <1>2 DEF PlaceInv
<1>8. GleInv'
  BY <1>1 DEF GleInv
<1> QED
  BY <1>2, <1>5, <1>6, <1>7, <1>8 DEF RInv

-----------------------------------------------------------------------------
(* The destructors.                                                        *)

(* mongo.close sends what is in the buffer.                                *)
LEMMA DisconnectInv == ASSUME IInv, RInv, mongoRdisconnect PROVE RInv'
<1>0. /\ RTypeOK /\ CoutInv /\ PlaceInv /\ OneMeansStored /\ RefusedInv
      /\ gen = 1 /\ 1 \in Ports /\ up \in [Ports -> Seq(Message)] /\ up[1] \in Seq(Message)
      /\ piggy \in Seq(Message) /\ sock[1] \in Sockets /\ Len(up[1]) \in Nat
  BY ConnectionAssumption, LenProperties DEF RInv, PlaceInv, IInv, TypeOK, Ports
<1>1. /\ rpc = "R" /\ Delete /\ handle' = "cleared" /\ result' = "1"
      /\ UNCHANGED <<rpc, cout, oldbuf, inBatch, cursorId, jumped, insertId, acked, refused, joined>>
      /\ UNCHANGED <<srvErr, gleReply, stored, silent>>
  BY DEF mongoRdisconnect, ackVars, svars
<1>2. PICK w \in flush : up' = [up EXCEPT ![gen] = w.up]
  BY <1>1 DEF Delete
<1>3. /\ up'[1] = w.up /\ piggy' = <<>> /\ pc' = "deleted"
      /\ UNCHANGED <<gen, failed, nextId, call, served>>
  BY <1>0, <1>1, <1>2 DEF Delete
<1>4. Written(up'[1], 0, FALSE)
  BY <1>0, <1>3, FlushResult
<1>5. RefusedInv'
  <2>1. ASSUME NEW id \in refused, HandledInsert(id)' \/ OnItsWay(id)' PROVE id \in joined
    <3>1. CASE HandledInsert(id)'
      <4>1. HandledInsert(id)
        BY <1>3, <3>1 DEF HandledInsert
      <4> QED
        BY <1>0, <4>1 DEF RefusedInv
    <3>2. ASSUME NEW i \in 1..Len(up'[1]), up'[1][i] = InsertMsg(id) PROVE id \in joined
      <4>1. CASE i > Len(up[1])
        <5>1. InsertMsg(id) \in Kept
          BY <1>0, <1>4, <3>2, <4>1 DEF Written
        <5>2. InBuffer(id)
          BY <5>1 DEF InBuffer, Kept
        <5> QED
          BY <1>0, <5>2 DEF RefusedInv
      <4>2. CASE i <= Len(up[1])
        <5>1. i \in 1..Len(up[1])
          BY <1>0, <4>2
        <5>2. OnItsWay(id)
          BY <1>0, <1>4, <3>2, <5>1 DEF Written, OnItsWay
        <5> QED
          BY <1>0, <5>2 DEF RefusedInv
      <4> QED
        BY <1>0, <4>1, <4>2
    <3> QED
      BY <2>1, <3>1, <3>2 DEF OnItsWay, InsertMsg
  <2>2. Len(piggy') = 0
    BY <1>3
  <2>3. \A id \in refused : ~InBuffer(id)'
    BY <2>2 DEF InBuffer
  <2> QED
    BY <1>0, <1>1, <1>3, <2>1, <2>3 DEF RefusedInv
<1>6. RTypeOK' /\ CoutInv'
  BY <1>0, <1>1 DEF RTypeOK, CoutInv
<1>7. PlaceInv'
  BY <1>0, <1>1, <1>3 DEF PlaceInv
<1>8. GleInv' /\ OneMeansStored'
  BY <1>0, <1>1 DEF GleInv, OneMeansStored
<1> QED
  BY <1>5, <1>6, <1>7, <1>8 DEF RInv

(* The cursor is destroyed at the end of the try block or on the way to    *)
(* the catch block: its killCursors message is buffered.                   *)
LEMMA CursorGoneInv == ASSUME IInv, RInv, Unwind \/ QueryReturn PROVE RInv'
<1>0. RTypeOK /\ CoutInv /\ PlaceInv /\ OneMeansStored
  BY DEF RInv
<1>1. /\ rpc \in {"unwind", "query", "end"} /\ rpc' = "R" /\ cout' = oldbuf /\ oldbuf' = oldbuf
      /\ result' \in {"0", "docs"} /\ inBatch' \in {0, inBatch} /\ cursorId' = FALSE
      /\ UNCHANGED <<handle, jumped, insertId, acked, refused, joined>>
      /\ UNCHANGED <<srvErr, gleReply, stored, silent>>
  BY DEF Unwind, QueryReturn, Caught, ackVars, svars
<1>2. RTypeOK' /\ CoutInv'
  <2>1. cursorId' \in BOOLEAN
    BY <1>1, Zenon
  <2>2. inBatch' \in 0..MaxBatch
    BY <1>0, <1>1, MongoRAssumption DEF RTypeOK
  <2> QED
    BY <1>0, <1>1, <2>1, <2>2 DEF RTypeOK, CoutInv
<1>3. GleInv' /\ OneMeansStored'
  BY <1>0, <1>1 DEF GleInv, OneMeansStored
<1>4. RefusedInv'
  BY <1>1, NoneRefused
<1>5. UNCHANGED <<gen, pc, call>>
  BY DEF Unwind, QueryReturn, Kill, vars, portVars, thrVars
<1>6. PlaceInv'
  <2>1. pc # "recv"
    <3>1. CASE Unwind
      BY <1>0, <3>1 DEF Unwind, PlaceInv
    <3>2. CASE QueryReturn
      BY <3>2 DEF QueryReturn
    <3> QED
      BY <3>1, <3>2
  <2> QED
    BY <1>0, <1>1, <1>5, <2>1 DEF PlaceInv
<1> QED
  BY <1>2, <1>3, <1>4, <1>6 DEF RInv

-----------------------------------------------------------------------------
(* The server and the network.                                             *)

(* Handled or cut, no message appears.                                     *)
LEMMA FewerRefused ==
  ASSUME RInv, UNCHANGED <<refused, joined, handle, rpc, failed, piggy>>,
         \A x \in {up'[1][i] : i \in 1..Len(up'[1])} : x \in {up[1][i] : i \in 1..Len(up[1])},
         \A i \in 1..Len(served') :
             \/ i \in 1..Len(served) /\ served'[i] = served[i]
             \/ served'[i][2] \in {up[1][j] : j \in 1..Len(up[1])}
  PROVE  RefusedInv'
<1>1. ASSUME NEW id \in refused
      PROVE  /\ InBuffer(id)' => InBuffer(id)
             /\ OnItsWay(id)' => OnItsWay(id)
             /\ HandledInsert(id)' => HandledInsert(id) \/ OnItsWay(id)
  <2>1. InBuffer(id)' => InBuffer(id)
    BY DEF InBuffer, InsertMsg
  <2>2. OnItsWay(id)' => OnItsWay(id)
    BY DEF OnItsWay, InsertMsg
  <2>3. HandledInsert(id)' => HandledInsert(id) \/ OnItsWay(id)
    BY DEF HandledInsert, OnItsWay, InsertMsg
  <2> QED
    BY <2>1, <2>2, <2>3
<1>2. RefusedInv
  BY DEF RInv
<1> QED
  BY <1>1, <1>2 DEF RefusedInv

LEMMA NetworkInv == ASSUME IInv, RInv, Network PROVE RInv'
<1>0. /\ RTypeOK /\ CoutInv /\ PlaceInv /\ OneMeansStored /\ GleInv /\ 1 \in Ports
      /\ up \in [Ports -> Seq(Message)] /\ down \in [Ports -> Seq(Reply)]
      /\ sock \in [Ports -> Sockets]
  BY ConnectionAssumption DEF RInv, IInv, TypeOK, Ports
<1>1. /\ Reset(1)
      /\ UNCHANGED <<rpc, handle, cout, oldbuf, inBatch, cursorId, jumped, insertId, acked, refused, joined>>
      /\ UNCHANGED <<srvErr, gleReply, stored, silent, result>>
      /\ UNCHANGED <<gen, pc, call, failed, piggy, served, nextId>>
  BY DEF Network, Reset, rvars, svars, portVars, thrVars
<1>2. PICK n \in 0..Len(up[1]) : up' = [up EXCEPT ![1] = SubSeq(@, 1, n)]
  BY <1>1 DEF Reset
<1>3. PICK k \in 0..Len(down[1]) : down' = [down EXCEPT ![1] = SubSeq(@, 1, k)]
  BY <1>1 DEF Reset
<1>4. sock'[1] = "reset"
  BY <1>0, <1>1 DEF Reset
<1>5. /\ Len(up'[1]) = n /\ n <= Len(up[1]) /\ n \in Nat /\ Len(up[1]) \in Nat
      /\ \A i \in 1..n : up'[1][i] = up[1][i]
  <2> DEFINE q == up[1]
  <2>1. q \in Seq(Message) /\ Len(q) \in Nat /\ up'[1] = SubSeq(q, 1, n)
    BY <1>0, <1>2, LenProperties
  <2>2. n \in Nat /\ n <= Len(q) /\ \A i \in 1..n : q[i] \in Message
    BY <2>1, ElementOfSeq
  <2>3. Len(SubSeq(q, 1, n)) = n /\ \A i \in 1..n : SubSeq(q, 1, n)[i] = q[i]
    <3> HIDE DEF q
    <3> QED
      BY <2>1, <2>2, Prefix
  <2> QED
    BY <2>1, <2>2, <2>3
<1>6. down'[1] # <<>> => down[1] # <<>>
  <2>1. down'[1] = SubSeq(down[1], 1, k) /\ Len(down[1]) \in Nat /\ down[1] \in Seq(Reply)
    BY <1>0, <1>3, LenProperties
  <2>2. ASSUME down[1] = <<>> PROVE down'[1] = <<>>
    <3>1. k = 0
      BY <2>2
    <3> QED
      BY <2>1, <2>2, <3>1, SubSeqEmpty
  <2> QED
    BY <2>2
<1>7. RefusedInv'
  BY <1>1, <1>5, FewerRefused
<1>8. RTypeOK' /\ CoutInv' /\ PlaceInv' /\ OneMeansStored'
  BY <1>0, <1>1 DEF RTypeOK, CoutInv, PlaceInv, OneMeansStored
<1>9. GleInv'
  <2>1. ASSUME rpc = "gle", pc = "recv", NEW j \in 1..Len(up'[1]), up'[1][j].op = "query"
        PROVE  IF j = 1 THEN Verdict(srvErr)' ELSE up'[1][j - 1] = InsertMsg(insertId)
    <3>0. j \in 1..Len(up[1]) /\ up[1][j].op = "query"
      BY <1>5, <2>1
    <3>1. IF j = 1 THEN Verdict(srvErr) ELSE up[1][j - 1] = InsertMsg(insertId)
      BY <1>0, <2>1, <3>0 DEF GleInv
    <3>2. j # 1 => j - 1 \in 1..n
      BY <1>5
    <3>3. Verdict(srvErr) => Verdict(srvErr)'
      BY <1>1 DEF Verdict
    <3> QED
      BY <1>5, <3>1, <3>2, <3>3
  <2>2. rpc = "gle" /\ pc = "recv" /\ down'[1] # <<>> => Verdict(gleReply)'
    BY <1>0, <1>1, <1>6 DEF GleInv, Verdict
  <2>3. rpc = "gle" => insertId' \in 1..MaxId
    BY <1>0, <1>1 DEF GleInv
  <2> QED
    BY <1>1, <1>4, <2>1, <2>2, <2>3 DEF GleInv, InsertMsg
<1> QED
  BY <1>7, <1>8, <1>9 DEF RInv

LEMMA SrvServeInv == ASSUME IInv, RInv, SrvServe PROVE RInv'
<1> DEFINE q == up[1]
           m == Head(q)
<1>0. /\ RTypeOK /\ CoutInv /\ PlaceInv /\ OneMeansStored /\ GleInv /\ 1 \in Ports
      /\ up \in [Ports -> Seq(Message)] /\ down \in [Ports -> Seq(Reply)]
      /\ served \in Seq(Ports \X Message) /\ MaxId \in Nat
  BY ConnectionAssumption DEF RInv, IInv, TypeOK, Ports
<1>1. /\ Serve(1)
      /\ UNCHANGED <<rpc, handle, cout, oldbuf, inBatch, cursorId, jumped, insertId, acked, refused, joined>>
      /\ result' = result
      /\ UNCHANGED <<gen, pc, call, failed, piggy, nextId, sock>>
  BY DEF SrvServe, Serve, rvars, portVars, thrVars
<1>2. /\ q # <<>> /\ up'[1] = Tail(q) /\ served' = Append(served, <<1, m>>)
      /\ m.op \notin ReplyOps => down' = down
  <2>1. q # <<>> /\ up' = [up EXCEPT ![1] = Tail(q)] /\ served' = Append(served, <<1, m>>)
    BY <1>1 DEF Serve
  <2>2. m.op \notin ReplyOps => down' = down
    BY <1>1 DEF Serve, ReplyOps
  <2> QED
    BY <1>0, <2>1, <2>2
<1>3. /\ q \in Seq(Message) /\ Len(q) \in Nat /\ Len(q) > 0 /\ m \in Message /\ m = q[1]
      /\ Len(Tail(q)) = Len(q) - 1 /\ \A i \in 1..(Len(q) - 1) : Tail(q)[i] = q[i + 1]
  <2>1. q \in Seq(Message) /\ q # <<>>
    BY <1>0, <1>2
  <2> HIDE DEF q
  <2>2. Len(q) \in Nat /\ Len(q) > 0 /\ m = q[1]
    BY <2>1, LenProperties, EmptySeq
  <2> QED
    BY <2>1, <2>2, HeadTailProperties
<1>4. RefusedInv'
  <2> HIDE DEF q
  <2>1. \A i \in 1..Len(up'[1]) : i + 1 \in 1..Len(q) /\ up'[1][i] = q[i + 1]
    BY <1>2, <1>3
  <2>2. \A x \in {up'[1][i] : i \in 1..Len(up'[1])} : x \in {q[i] : i \in 1..Len(q)}
    BY <2>1
  <2>3. <<1, m>> \in Ports \X Message /\ 1 \in 1..Len(q)
    BY <1>0, <1>3
  <2>4. \A i \in 1..Len(served') : (i \in 1..Len(served) /\ served'[i] = served[i]) \/ served'[i] = <<1, m>>
    BY <1>0, <1>2, <2>3, LenProperties, AppendProperties
  <2>5. \A i \in 1..Len(served') :
             \/ i \in 1..Len(served) /\ served'[i] = served[i]
             \/ served'[i][2] \in {q[j] : j \in 1..Len(q)}
    BY <1>3, <2>3, <2>4
  <2> QED
    BY <1>1, <2>2, <2>5, FewerRefused DEF q
<1>5. CoutInv' /\ PlaceInv'
  BY <1>0, <1>1 DEF CoutInv, PlaceInv
<1>6. \/ /\ m.op = "insert" /\ gleReply' = gleReply
         /\ srvErr' \in {"none", "code", "nocode"}
         /\ stored' = IF srvErr' = "none" THEN stored \cup {m.id} ELSE stored
         /\ silent' = IF srvErr' = "nocode" THEN silent \cup {m.id} ELSE silent
      \/ m.op = "query" /\ gleReply' = srvErr /\ UNCHANGED <<srvErr, stored, silent>>
      \/ m.op \notin {"insert", "query"} /\ UNCHANGED <<srvErr, gleReply, stored, silent>>
  BY DEF SrvServe, svars
<1>7. m.id \in 1..MaxId /\ m.op \in Ops
  BY <1>3 DEF Message
<1>8. RTypeOK' /\ OneMeansStored'
  <2>1. /\ srvErr' \in {"none", "code", "nocode"} /\ gleReply' \in {"none", "code", "nocode"}
        /\ stored' \subseteq 1..MaxId /\ silent' \subseteq 1..MaxId
        /\ stored \subseteq stored' /\ silent \subseteq silent'
    BY <1>0, <1>6, <1>7 DEF RTypeOK
  <2> QED
    BY <1>0, <1>1, <2>1 DEF RTypeOK, OneMeansStored
<1>9. ASSUME rpc = "gle" PROVE GleInv'
  <2>0. insertId \in 1..MaxId /\ ~failed /\ gen = 1 /\ ReplyInv
    BY <1>0, <1>9 DEF GleInv, PlaceInv, IInv
  <2>1. m = InsertMsg(insertId) => Verdict(srvErr)'
    BY <1>1, <1>6 DEF InsertMsg, Verdict
  <2>2. CASE pc = "idle"
    <3>1. sock[1] = "open" => q[Len(q)] = InsertMsg(insertId)
      BY <1>0, <1>2, <1>9, <2>2 DEF GleInv
    <3>2. ASSUME sock[1] = "open", Len(q) = 1 PROVE up'[1] = <<>> /\ Verdict(srvErr)'
      <4>1. Len(up'[1]) = 0 /\ up'[1] \in Seq(Message)
        BY <1>2, <1>3, <3>2, HeadTailProperties
      <4> QED
        BY <1>3, <2>1, <3>1, <3>2, <4>1, EmptySeq
    <3>3. ASSUME sock[1] = "open", Len(q) # 1
          PROVE  up'[1] # <<>> /\ up'[1][Len(up'[1])] = InsertMsg(insertId)
      <4> HIDE DEF q
      <4>1. Len(up'[1]) = Len(q) - 1 /\ Len(q) - 1 \in 1..(Len(q) - 1)
        BY <1>2, <1>3, <3>3
      <4>2. up'[1][Len(q) - 1] = q[Len(q)]
        BY <1>2, <1>3, <4>1
      <4>3. up'[1] # <<>>
        BY <4>1
      <4> QED
        BY <3>1, <3>3, <4>1, <4>2, <4>3
    <3> QED
      BY <1>1, <2>0, <2>2, <3>2, <3>3 DEF GleInv, InsertMsg
  <2>3. CASE pc = "recv"
    <3>0. Waiting /\ call.op = "query"
      BY <1>0, <1>9, <2>0, <2>3 DEF ReplyInv, PlaceInv
    <3>1. \A j \in 1..Len(q) : q[j].op = "query" =>
             IF j = 1 THEN Verdict(srvErr) ELSE q[j - 1] = InsertMsg(insertId)
      BY <1>0, <1>9, <2>3 DEF GleInv
    <3>2. \A i, j \in 1..Len(q) : q[i].op = "query" /\ q[j].op = "query" => i = j
      BY <2>0, <3>0 DEF Waiting, ReplyOps
    <3>3. m.op \in ReplyOps => m.op = "query" /\ down[1] = <<>>
      BY <1>3, <2>0, <3>0 DEF Waiting
    <3>4. ASSUME NEW j \in 1..Len(up'[1]), up'[1][j].op = "query"
          PROVE  IF j = 1 THEN Verdict(srvErr)' ELSE up'[1][j - 1] = InsertMsg(insertId)
      <4> HIDE DEF q
      <4>1. j + 1 \in 1..Len(q) /\ j + 1 # 1 /\ q[j + 1].op = "query" /\ j \in Nat /\ (j + 1) - 1 = j
        BY <1>2, <1>3, <3>4
      <4>2. q[j] = InsertMsg(insertId)
        BY <3>1, <4>1
      <4>3. CASE j = 1
        BY <1>3, <2>1, <4>2, <4>3
      <4>4. CASE j # 1
        <5>1. j - 1 \in 1..(Len(q) - 1) /\ (j - 1) + 1 = j
          BY <1>3, <4>1, <4>4
        <5> QED
          BY <1>2, <1>3, <4>2, <4>4, <5>1
      <4> QED
        BY <4>3, <4>4
    <3>5. down'[1] # <<>> => Verdict(gleReply)'
      <4>1. CASE m.op = "query"
        <5>1. Verdict(srvErr)
          BY <1>3, <3>1, <4>1
        <5>2. gleReply' = srvErr /\ UNCHANGED <<stored, silent, insertId>>
          BY <1>1, <1>6, <4>1
        <5> QED
          BY <5>1, <5>2 DEF Verdict
      <4>2. CASE m.op # "query"
        <5>1. down' = down /\ gleReply' = gleReply
          BY <1>2, <1>6, <3>3, <4>2
        <5>2. stored \subseteq stored' /\ silent \subseteq silent'
          BY <1>6, <4>2
        <5>3. down[1] # <<>> => Verdict(gleReply)
          BY <1>0, <1>9, <2>3 DEF GleInv
        <5> QED
          BY <1>1, <5>1, <5>2, <5>3 DEF Verdict
      <4> QED
        BY <4>1, <4>2
    <3> QED
      BY <1>1, <2>0, <2>3, <3>4, <3>5 DEF GleInv, InsertMsg
  <2>4. CASE pc \notin {"idle", "recv"}
    BY <1>1, <2>0, <2>4 DEF GleInv
  <2> QED
    BY <2>2, <2>3, <2>4
<1>10. GleInv'
  BY <1>1, <1>9 DEF GleInv
<1> QED
  BY <1>4, <1>5, <1>8, <1>10 DEF RInv

-----------------------------------------------------------------------------
(* The theorems.                                                           *)

LEMMA RNextInv == IInv /\ RInv /\ [RNext]_allVars => RInv'
BY RQuietInv, RLoopInv, QueryCallInv, QueryMoreInv, InsertCallInv, GleSendInv, QueryReplyInv,
   LostInv, GleReplyInv, DisconnectInv, CursorGoneInv, NetworkInv, SrvServeInv
   DEF RNext, RCall, RThread

LEMMA RInvariance == RSpec => []RInv
BY ConnectionInv, RInitInv, RNextInv, PTL DEF RSpec

(* Whatever exceptions a call meets, std::cout is given back before R goes *)
(* on, unless error() jumped out of the call (mongoR.cc:75-94, :119-133).  *)
THEOREM SessionKept == RSpec => []SessionInv
<1>1. RInv => SessionInv
  BY DEF RInv, CoutInv, SessionInv, CoutGivenBack
<1> QED
  BY <1>1, RInvariance, PTL

(* mongo.insert answers 1 for nothing but an insert the server stored, or  *)
(* rejected without a code: its getlasterror is answered after the insert, *)
(* and by nobody else's LastError (mongoR.cc:124, :136-141).               *)
THEOREM OneIsStored == RSpec => []OneMeansStored
<1>1. RInv => OneMeansStored
  BY DEF RInv
<1> QED
  BY <1>1, RInvariance, PTL

(* An insert answered with 0 is not applied while the handle is open, and  *)
(* after mongo.close only if it had joined buffered killCursors messages   *)
(* (mongoR.cc:126-130, message.cpp:266-271, :525-537).                     *)
THEOREM ZeroHoldsUntilClose == RSpec => []ZeroUntilClose
<1>1. RInv => ZeroUntilClose
  BY DEF RInv, RefusedInv, ZeroUntilClose
<1> QED
  BY <1>1, RInvariance, PTL

=============================================================================
