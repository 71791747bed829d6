---------------------------- MODULE SyncCluster ----------------------------
(***************************************************************************)
(* SyncClusterConnection (client/syncclusterconnection.cpp): a client      *)
(* writes one document to every config server in turn, after an fsync and  *)
(* followed by getlasterror, and reads it from the first that answers.     *)
(* Several clients do so at once; a write may stop anywhere.               *)
(***************************************************************************)
EXTENDS Naturals, Sequences

CONSTANTS
    Procs,      \* clients
    NServers,   \* config servers; the code insists on three
    MaxFaults   \* bound: calls that fail, servers skipped, clients that die

ASSUME ClusterAssumption == NServers \in Nat \ {0} /\ MaxFaults \in Nat

VARIABLES
    doc,     \* server -> the document [state, ts, process], or NoDoc
    op,      \* client -> the write it is doing, or NoOp
    at,      \* client -> the next server of that write
    count,   \* client -> "n" of getlasterror, for the servers written to
    faults

clusterVars == <<doc, op, at, count, faults>>

Servers == 1..NServers
NoDoc   == [state |-> 0, ts |-> 0, process |-> "absent"]
NoOp    == [kind |-> "none"]
Lost    == 2  \* in count: the write never reached the server

ClusterInit ==
    /\ doc = [s \in Servers |-> NoDoc]
    /\ op = [p \in Procs |-> NoOp]
    /\ at = [p \in Procs |-> 1]
    /\ count = [p \in Procs |-> <<>>]
    /\ faults = 0

(* Mutant of Matches: the update does not ask for state 0.                 *)
MatchesTaken(d, o) ==
    IF o.kind = "insert" THEN d = NoDoc
    ELSE d # NoDoc /\ (o.kind = "acquire" => o.seen \in {0, d.ts})

(* The writes: an insert of a free lock; $set state 0 or a new lock, for   *)
(* the document whatever it holds; and a new lock for a free document      *)
(* (whose ts is o.seen if the client knows one).                           *)
Matches(d, o) ==
    IF o.kind = "insert" THEN d = NoDoc
    ELSE d # NoDoc /\ (o.kind = "acquire" => d.state = 0 /\ o.seen \in {0, d.ts})

Written(d, o, p) ==
    CASE o.kind = "insert"               -> [state |-> 0, ts |-> 0, process |-> ""]
      [] o.kind \in {"takeover", "unlock"} -> [d EXCEPT !.state = 0]
      [] o.kind \in {"acquire", "force"} -> [state |-> 1, ts |-> o.ts, process |-> p]

Fault == faults < MaxFaults /\ faults' = faults + 1

-----------------------------------------------------------------------------

Begin(p, o) == op' = [op EXCEPT ![p] = o] /\ UNCHANGED <<doc, at, count>>

Apply(p) ==
    LET d == doc[at[p]]
    IN  doc' = [doc EXCEPT ![at[p]] = IF Matches(d, op[p]) THEN Written(d, op[p], p) ELSE d]

WriteOne(p) ==
    /\ op[p] # NoOp /\ at[p] <= NServers
    /\ Apply(p)
    /\ count' = [count EXCEPT ![p] = Append(@, IF Matches(doc[at[p]], op[p]) THEN 1 ELSE 0)]
    /\ at' = [at EXCEPT ![p] = @ + 1]
    /\ UNCHANGED <<op, faults>>

Over(p) ==
    /\ op' = [op EXCEPT ![p] = NoOp]
    /\ at' = [at EXCEPT ![p] = 1]
    /\ count' = [count EXCEPT ![p] = <<>>]

(* The connection to a server breaks; the server has the write or not, and *)
(* the servers after it are not written to.                                *)
WriteBreaks(p) ==
    /\ op[p] # NoOp /\ at[p] <= NServers
    /\ Fault
    /\ Apply(p) \/ UNCHANGED doc
    /\ Over(p)

(* The data is accepted for sending and lost: no exception, and the        *)
(* servers after it are written to.                                        *)
WriteLost(p) ==
    /\ op[p] # NoOp /\ at[p] <= NServers
    /\ Fault
    /\ count' = [count EXCEPT ![p] = Append(@, Lost)]
    /\ at' = [at EXCEPT ![p] = @ + 1]
    /\ UNCHANGED <<doc, op>>

(* A server has not got the write, so its getlasterror finds the broken    *)
(* connection.                                                             *)
Missing(p) == \E i \in 1..Len(count[p]) : count[p][i] = Lost

(* UserException: the fsync before the first write fails on a server, or   *)
(* the getlasterror after the last one does (_checkLast).                  *)
CheckFails(p) ==
    /\ op[p] # NoOp
    /\ \/ at[p] \in {1, NServers + 1} /\ ~Missing(p) /\ Fault
       \/ at[p] = NServers + 1 /\ Missing(p) /\ UNCHANGED faults
    /\ Over(p)
    /\ UNCHANGED doc

(* Mutant of Agreed: the loop ends one server early.                       *)
AgreedButLast(p) == \A s \in 1..(NServers - 1) : count[p][s] = count[p][1]

(* The servers agree on n, and the write is over; or update throws         *)
(* UpdateNotTheSame.                                                       *)
Agreed(p) == \A s \in Servers : count[p][s] = count[p][1]

Checked(p) ==
    /\ op[p] # NoOp /\ at[p] > NServers /\ ~Missing(p)
    /\ Over(p)
    /\ UNCHANGED <<doc, faults>>

(* _queryOnActive: the first server, or a later one when those before it   *)
(* fail; UserException 8002 when all fail.                                 *)
ReadsFrom(s) == (s = 1 /\ UNCHANGED faults) \/ (s > 1 /\ Fault)

=============================================================================
