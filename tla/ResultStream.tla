---------------------------- MODULE ResultStream ----------------------------
(***************************************************************************)
(* What a query promises its caller: the matching documents, numbered in   *)
(* the server's order, each handed out once and without a gap, and an end  *)
(* that is announced only when there is nothing left to hand out.  A       *)
(* caller may give the last document back.  Once the transport or the      *)
(* server has failed the stream, only the order is promised.               *)
(***************************************************************************)
EXTENDS Integers, Sequences

VARIABLES
    wanted,  \* how many documents the caller asked for, 0 for all
    avail,   \* documents that match so far
    out,     \* documents the caller holds
    status   \* "open", "end" or "failed"

svars == <<wanted, avail, out, status>>

(* Documents a complete answer has.                                        *)
Full == IF wanted > 0 /\ wanted < avail THEN wanted ELSE avail

Init ==
    /\ wanted \in Nat
    /\ avail \in Nat
    /\ out = <<>>
    /\ status = "open"

Read ==
    /\ status = "open"
    /\ Len(out) < Full
    /\ out' = Append(out, Len(out) + 1)
    /\ UNCHANGED <<wanted, avail, status>>

Unread ==
    /\ out # <<>>
    /\ out' = SubSeq(out, 1, Len(out) - 1)
    /\ status' = IF status = "end" THEN "open" ELSE status
    /\ UNCHANGED <<wanted, avail>>

End ==
    /\ status = "open"
    /\ Len(out) = Full
    /\ status' = "end"
    /\ UNCHANGED <<wanted, avail, out>>

(* The caller asks again: a tailable query can have new documents.         *)
Reopen ==
    /\ status = "end"
    /\ status' = "open"
    /\ UNCHANGED <<wanted, avail, out>>

Fail ==
    /\ status' = "failed"
    /\ UNCHANGED <<wanted, avail, out>>

(* After a failure documents may be missing, but none comes twice.         *)
ReadOn ==
    /\ status = "failed"
    /\ \E d \in 1..avail :
          /\ \A i \in 1..Len(out) : out[i] < d
          /\ out' = Append(out, d)
    /\ UNCHANGED <<wanted, avail, status>>

Grow ==
    /\ avail' = avail + 1
    /\ UNCHANGED <<wanted, out, status>>

Next == Read \/ Unread \/ End \/ Reopen \/ Fail \/ ReadOn \/ Grow

Spec == Init /\ [][Next]_svars
=============================================================================
