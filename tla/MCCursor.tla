------------------------------ MODULE MCCursor ------------------------------
(***************************************************************************)
(* The caller of the cursor is any caller, or the loop                     *)
(* while ( more() ) next();  of itcount() and mongoRquery, whose thread    *)
(* runs.                                                                   *)
(***************************************************************************)
EXTENDS DBClientCursor

VARIABLE loop    \* the caller is the loop

MCInit == loop \in BOOLEAN /\ Init

MCSpec ==
    /\ MCInit
    /\ [][Next /\ (loop => Loop \/ ServerForgets) /\ UNCHANGED loop]_<<vars, loop>>
    /\ WF_<<vars, loop>>(loop /\ Loop /\ UNCHANGED loop)

(* The loop of a query that is not tailable comes to an end                *)
(* (dbclientcursor.cpp:141-157, dbclientcursor.h:93-99).                   *)
LoopEnds == loop /\ ~tailable => <>(answer = "no" \/ broken)

=============================================================================
