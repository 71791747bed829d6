--------------------------- MODULE DBClientCursor ---------------------------
(***************************************************************************)
(* One DBClientCursor (client/dbclientcursor.cpp) and the cursor it stands *)
(* for on the server.                                                      *)
(*                                                                         *)
(* Documents are numbered in the order the server finds them.  Of the      *)
(* connection only what it promises is used: a call returns the reply to   *)
(* its own request or throws, and when it throws the server may or may not *)
(* have handled the request (DBClientConnection.tla).  "data" is the       *)
(* number of documents before the one the data pointer is at.              *)
(***************************************************************************)
EXTENDS Integers, Sequences

CONSTANTS
    Limits,       \* values tried for the constructor's _nToReturn
    BatchSizes,   \* values tried for the constructor's bs
    MaxDocs,      \* bound: documents that match
    DefaultBatch  \* documents the server sends at most when no size is asked

ASSUME CursorAssumption ==
    /\ Limits \subseteq Nat
    /\ BatchSizes \subseteq Nat
    /\ MaxDocs \in Nat
    /\ DefaultBatch \in Nat \ {0}

VARIABLES
    docs,       \* documents matching at the server
    tailable,   \* opts & QueryOption_CursorTailable
    limit,      \* the constructor's _nToReturn
    batchSize, nToReturn, cursorId, nReturned, pos, data, putBack,
    own,        \* _ownCursor
    client,     \* _client: "conn", "none" (attached to a host), "dangling"
    phase,      \* "new", "open", "null" (query returned 0) or "deleted"
    answer,     \* what more() said last
    broken,     \* history: a call of this cursor threw or did not find it
    srvOpen,    \* the server has a cursor for this query
    srvAt,      \* documents it has passed
    kill,       \* the killCursors message of the destructor
    delivered   \* documents the caller holds

inputs  == <<tailable, limit, batchSize>>
batch   == <<cursorId, nReturned, pos, data>>
server  == <<docs, srvOpen, srvAt>>
vars    == <<inputs, batch, server, nToReturn, putBack, own, client, phase, answer,
             broken, kill, delivered>>

TypeOK ==
    /\ docs \in 0..MaxDocs /\ srvAt \in 0..MaxDocs /\ srvOpen \in BOOLEAN
    /\ tailable \in BOOLEAN /\ limit \in Limits /\ batchSize \in Nat
    /\ nToReturn \in Nat
    /\ cursorId \in {0, 1}
    /\ nReturned \in Nat /\ pos \in Nat /\ data \in Nat
    /\ putBack \in Seq(1..MaxDocs) /\ delivered \in Seq(1..MaxDocs)
    /\ own \in BOOLEAN /\ broken \in BOOLEAN
    /\ client \in {"conn", "none", "dangling"}
    /\ phase \in {"new", "open", "null", "deleted"}
    /\ answer \in {"none", "yes", "no"}
    /\ kill \in {"none", "sent", "lost", "done"}

-----------------------------------------------------------------------------
(* The server.                                                             *)

(* Batch sizes with which the server may answer a request for n documents. *)
Batches(n, at) ==
    LET most == IF n = 0 THEN DefaultBatch ELSE n
        left == docs - at
    IN  {k \in 0..left : k <= most /\ (k = 0 => left = 0)}

-----------------------------------------------------------------------------
(* Mutant of ctorBatchSize: 1 is asked for as it is.                       *)
ctorBatchSizeAsIs(bs) == bs

(* The constructor.  A batch size of 1 would make the server close its     *)
(* cursor after the first document, so 2 is asked instead.                 *)
ctorBatchSize(bs) == IF bs = 1 THEN 2 ELSE bs

haveLimit == limit > 0 /\ ~tailable

Init ==
    /\ docs \in 0..MaxDocs
    /\ tailable \in BOOLEAN
    /\ limit \in Limits
    /\ batchSize \in {ctorBatchSize(bs) : bs \in BatchSizes}
    /\ nToReturn = limit
    /\ cursorId = 0 /\ nReturned = 0 /\ pos = 0 /\ data = 0
    /\ putBack = <<>>
    /\ own = TRUE
    /\ client = "conn"
    /\ phase = "new"
    /\ answer = "none"
    /\ broken = FALSE
    /\ srvOpen = FALSE /\ srvAt = 0
    /\ kill = "none"
    /\ delivered = <<>>

nextBatchSize(n) ==
    IF n = 0 THEN batchSize
    ELSE IF batchSize = 0 THEN n
    ELSE IF batchSize < n THEN batchSize ELSE n

(* dataReceived for a reply of k documents that follow document at.        *)
dataReceived(id, k, at) ==
    /\ cursorId' = IF cursorId = 0 \/ ~tailable THEN id ELSE cursorId
    /\ nReturned' = k
    /\ pos' = 0
    /\ data' = at

(* The server answers a request for n documents with k of them and the id  *)
(* 0 if it closed its cursor, which it does at the end of the data unless  *)
(* the cursor is tailable (a tailable one may still be closed there).  A   *)
(* first request for one document makes it close the cursor at once.       *)
Answers(n, at, first) ==
    {a \in [k : Batches(n, at), id : {0, 1}] :
        LET once == first /\ n = 1
        IN  /\ a.id = 0 => once \/ at + a.k = docs
            /\ once \/ (a.k = 0 /\ ~tailable) => a.id = 0}

Served(a, at) == srvOpen' = (a.id = 1) /\ srvAt' = at + a.k

(* query(): init() and its call, which may fail before or after the server *)
(* has seen the request.                                                   *)
Query ==
    /\ phase = "new"
    /\ \E a \in Answers(nextBatchSize(nToReturn), 0, TRUE) :
          /\ Served(a, 0)
          /\ dataReceived(a.id, a.k, 0)
    /\ phase' = "open"
    /\ UNCHANGED <<inputs, docs, nToReturn, putBack, own, client, answer, broken, kill, delivered>>

QueryFails ==
    /\ phase = "new"
    /\ \/ \E a \in Answers(nextBatchSize(nToReturn), 0, TRUE) : Served(a, 0)
       \/ UNCHANGED <<srvOpen, srvAt>>
    /\ phase' = "null"
    /\ broken' = TRUE
    /\ UNCHANGED <<inputs, batch, docs, nToReturn, putBack, own, client, answer, kill, delivered>>

-----------------------------------------------------------------------------
(* more()                                                                  *)

(* Mutant of AtLimit: off by one.                                          *)
AtLimitByOne == haveLimit /\ pos > nToReturn

AtLimit == haveLimit /\ pos >= nToReturn

(* Mutant of MoreLocal: one document too many in the batch.                *)
MoreLocalByOne ==
    /\ phase = "open"
    /\ putBack # <<>> \/ AtLimit \/ pos <= nReturned \/ cursorId = 0
    /\ answer' = IF putBack # <<>> \/ (~AtLimit /\ pos <= nReturned) THEN "yes" ELSE "no"
    /\ UNCHANGED <<inputs, batch, server, nToReturn, putBack, own, client, phase, broken,
                   kill, delivered>>

(* more() answers from what the cursor has.                                *)
MoreLocal ==
    /\ phase = "open"
    /\ putBack # <<>> \/ AtLimit \/ pos < nReturned \/ cursorId = 0
    /\ answer' = IF putBack # <<>> \/ (~AtLimit /\ pos < nReturned) THEN "yes" ELSE "no"
    /\ UNCHANGED <<inputs, batch, server, nToReturn, putBack, own, client, phase, broken,
                   kill, delivered>>

(* Mutant of remaining: a cursor without a limit counts down too.          *)
remainingAlways == nToReturn - nReturned

(* more() calls requestMore, which takes the documents of the batch off    *)
(* the limit before it asks.                                               *)
remaining == IF haveLimit THEN nToReturn - nReturned ELSE nToReturn

RequestMore ==
    /\ phase = "open"
    /\ putBack = <<>> /\ ~AtLimit /\ pos >= nReturned /\ cursorId # 0
    /\ nToReturn' = remaining
    /\ UNCHANGED <<inputs, docs, putBack, own, phase, kill, delivered>>

MoreReceived ==
    /\ RequestMore
    /\ srvOpen
    /\ \E a \in Answers(nextBatchSize(remaining), srvAt, FALSE) :
          /\ Served(a, srvAt)
          /\ dataReceived(a.id, a.k, srvAt)
          /\ answer' = IF a.k > 0 THEN "yes" ELSE "no"
    /\ UNCHANGED <<client, broken>>

(* The call, or opening a connection to the attached host, throws.         *)
MoreFails ==
    /\ RequestMore
    /\ \/ srvOpen /\ \E a \in Answers(nextBatchSize(remaining), srvAt, FALSE) : Served(a, srvAt)
       \/ UNCHANGED <<srvOpen, srvAt>>
    /\ broken' = TRUE
    /\ answer' = "none"
    /\ UNCHANGED <<batch, client>>

(* Mutant of ForgetCursor: the id is kept.                                 *)
KeepCursor == cursorId' = cursorId

(* What dataReceived does first for CursorNotFound.                        *)
ForgetCursor == cursorId' = 0

(* The reply is CursorNotFound.  Without the tailable option dataReceived  *)
(* throws: an attached cursor is left with _client pointing to the         *)
(* connection that the unwinding ScopedDbConnection deletes.               *)
MoreNotFound ==
    /\ RequestMore
    /\ ~srvOpen
    /\ ForgetCursor
    /\ broken' = TRUE
    /\ \/ /\ tailable
          /\ nReturned' = 0 /\ pos' = 0
          /\ answer' = "no"
          /\ UNCHANGED <<data, client>>
       \/ /\ ~tailable
          /\ answer' = "none"
          /\ client' = IF client = "none" THEN "dangling" ELSE client
          /\ UNCHANGED <<nReturned, pos, data>>
    /\ UNCHANGED <<srvOpen, srvAt>>

-----------------------------------------------------------------------------
(* next() and putBack().                                                   *)

NextPutBack ==
    /\ phase = "open"
    /\ putBack # <<>>
    /\ delivered' = Append(delivered, putBack[Len(putBack)])
    /\ putBack' = SubSeq(putBack, 1, Len(putBack) - 1)
    /\ answer' = "none"
    /\ UNCHANGED <<inputs, batch, server, nToReturn, own, client, phase, broken, kill>>

NextInBatch ==
    /\ phase = "open"
    /\ putBack = <<>>
    /\ pos < nReturned
    /\ delivered' = Append(delivered, data + 1)
    /\ pos' = pos + 1
    /\ data' = data + 1
    /\ answer' = "none"
    /\ UNCHANGED <<inputs, cursorId, nReturned, server, nToReturn, putBack, own, client, phase,
                   broken, kill>>

(* The caller gives the last document it holds back.                       *)
PutBack ==
    /\ phase = "open"
    /\ delivered # <<>>
    /\ putBack' = Append(putBack, delivered[Len(delivered)])
    /\ delivered' = SubSeq(delivered, 1, Len(delivered) - 1)
    /\ answer' = "none"
    /\ UNCHANGED <<inputs, batch, server, nToReturn, own, client, phase, broken, kill>>

-----------------------------------------------------------------------------
(* attach, decouple and the destructor.                                    *)

Attach ==
    /\ phase = "open"
    /\ client = "conn"
    /\ client' = "none"
    /\ UNCHANGED <<inputs, batch, server, nToReturn, putBack, own, phase, answer, broken, kill,
                   delivered>>

Decouple ==
    /\ phase = "open"
    /\ own
    /\ own' = FALSE
    /\ UNCHANGED <<inputs, batch, server, nToReturn, putBack, client, phase, answer, broken, kill,
                   delivered>>

(* Mutant of Destroy: an attached cursor is not killed.                    *)
DestroyLeaks ==
    /\ phase = "open"
    /\ phase' = "deleted"
    /\ kill' \in IF cursorId # 0 /\ own /\ client = "conn" THEN {"sent", "lost"} ELSE {kill}
    /\ UNCHANGED <<inputs, batch, server, nToReturn, putBack, own, client, answer, broken,
                   delivered>>

(* The message is piggy-backed, so it may be lost with the connection.     *)
Destroy ==
    /\ phase = "open"
    /\ phase' = "deleted"
    /\ kill' \in IF cursorId # 0 /\ own THEN {"sent", "lost"} ELSE {kill}
    /\ UNCHANGED <<inputs, batch, server, nToReturn, putBack, own, client, answer, broken,
                   delivered>>

-----------------------------------------------------------------------------
(* The server on its own: it handles the kill, times out or forgets its    *)
(* cursor in a restart, and finds new documents for a tailable query.      *)

ServerKill ==
    /\ kill = "sent"
    /\ kill' = "done"
    /\ srvOpen' = FALSE
    /\ UNCHANGED <<inputs, batch, docs, srvAt, nToReturn, putBack, own, client, phase, answer,
                   broken, delivered>>

ServerForgets ==
    /\ srvOpen
    /\ srvOpen' = FALSE
    /\ UNCHANGED <<inputs, batch, docs, srvAt, nToReturn, putBack, own, client, phase, answer,
                   broken, kill, delivered>>

Grow ==
    /\ tailable
    /\ docs < MaxDocs
    /\ docs' = docs + 1
    /\ UNCHANGED <<inputs, batch, srvOpen, srvAt, nToReturn, putBack, own, client, phase, answer,
                   broken, kill, delivered>>

More == MoreLocal \/ MoreReceived \/ MoreFails \/ MoreNotFound

Next ==
    \/ Query \/ QueryFails
    \/ More \/ NextPutBack \/ NextInBatch \/ PutBack
    \/ Attach \/ Decouple \/ Destroy
    \/ ServerKill \/ ServerForgets \/ Grow

Spec == Init /\ [][Next]_vars

-----------------------------------------------------------------------------
(* Properties.                                                             *)

(* isDead() for a tailable cursor.                                          *)
isDead == tailable /\ phase # "new" /\ cursorId = 0

(* The cursor keeps the promise of ResultStream: each document once, in    *)
(* order and without a gap across batches and putBack, and more() is false *)
(* only at the end of the data or of the limit, unless a call threw or a   *)
(* tailable cursor is dead (dbclientcursor.cpp:67-175).                    *)
Stream == INSTANCE ResultStream WITH
    wanted <- IF haveLimit THEN limit ELSE 0,
    avail  <- docs,
    out    <- delivered,
    status <- IF broken \/ isDead THEN "failed" ELSE IF answer = "no" THEN "end" ELSE "open"

KeepsPromise == Stream!Spec

(* The caller never gets more documents than it asked for, even when it    *)
(* goes on after an exception, and the assert of requestMore               *)
(* (dbclientcursor.cpp:70-73) never fires.                                 *)
LimitHeld ==
    haveLimit => nToReturn > 0 /\ Len(delivered) + Len(putBack) <= limit

(* An attached cursor whose getMore found no cursor keeps a pointer to a   *)
(* deleted connection (dbclientcursor.cpp:91-97), but then neither more()  *)
(* nor the destructor uses it.                                             *)
DanglingUnused == client = "dangling" => cursorId = 0

(* Destroying a cursor that owns a live server cursor asks the server to   *)
(* close it (dbclientcursor.cpp:218-245): the id is not lost on the way.   *)
NoLeakedCursor ==
    phase = "deleted" /\ own /\ srvOpen => kill \in {"sent", "lost"}

(* while ( more() ) next();  as in itcount() and in mongoRquery.           *)
Loop == Query \/ QueryFails \/ (answer # "yes" /\ More) \/ (answer = "yes" /\ NextInBatch)

=============================================================================
