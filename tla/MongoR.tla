------------------------------- MODULE MongoR -------------------------------
(***************************************************************************)
(* The R binding (src/mongoR.cc, bin/mongo.R): one R session and one       *)
(* handle, composed with the connection of DBClientConnection.tla, whose   *)
(* actions each C++ call below takes.  The constructor's defaults are      *)
(* used: no auto-reconnect (so one port) and no cached credentials.        *)
(*                                                                         *)
(* R is left by an exception that mongoR.cc does not catch, by exit(), or  *)
(* by a crash; R's error() is a longjmp that runs no destructor.           *)
(***************************************************************************)
EXTENDS DBClientConnection, FiniteSets

CONSTANT MaxBatch    \* bound: documents in one reply

ASSUME MongoRAssumption == MaxBatch \in Nat

VARIABLES
    rpc,       \* where the R thread is: "R", "query", "end" (more() answered no
               \* with the cursor open), "unwind", "gle" or "dead"
    handle,    \* the external pointer: "unbound", "live" or "cleared"
    cout,      \* std::cout's buffer: "std", "local" (this call's), "gone"
    oldbuf,    \* the buffer mongoRquery saved
    inBatch,   \* documents left in the cursor's batch
    cursorId,  \* the server has more for the cursor
    jumped,    \* history: error() was raised while cout was redirected
    insertId,  \* message of the last mongo.insert, 0 if it sent none
    acked,     \* history: inserts mongo.insert answered with 1
    refused,   \* history: inserts mongo.insert answered with 0
    joined,    \* history: inserts said while killCursors messages were buffered
    srvErr,    \* the server's LastError: "none", "code", "nocode"
    gleReply,  \* LastError as getlasterror reported it
    stored,    \* inserts the server applied
    silent,    \* history: inserts it rejected with an error that has no code
    result     \* what the last mongo.* call gave R

rvars == <<rpc, handle, cout, oldbuf, inBatch, cursorId, jumped, insertId,
           acked, refused, joined>>
svars == <<srvErr, gleReply, stored, silent>>
ackVars == <<insertId, acked, refused, joined>>
allVars == <<vars, rvars, svars, result>>

RTypeOK ==
    /\ rpc \in {"R", "query", "end", "unwind", "gle", "dead"}
    /\ handle \in {"unbound", "live", "cleared"}
    /\ cout \in {"std", "local", "gone"} /\ oldbuf \in {"std", "gone"}
    /\ inBatch \in 0..MaxBatch /\ cursorId \in BOOLEAN
    /\ jumped \in BOOLEAN
    /\ insertId \in 0..MaxId /\ acked \subseteq 1..MaxId
    /\ refused \subseteq 1..MaxId /\ joined \subseteq 1..MaxId
    /\ srvErr \in {"none", "code", "nocode"} /\ gleReply \in {"none", "code", "nocode"}
    /\ stored \subseteq 1..MaxId /\ silent \subseteq 1..MaxId
    /\ result \in {"none", "null", "0", "1", "json", "error", "docs"}

RInit ==
    /\ Init
    /\ AutoReconnect = FALSE /\ AuthEntries = 0
    /\ rpc = "R" /\ handle = "unbound"
    /\ cout = "std" /\ oldbuf = "std"
    /\ inBatch = 0 /\ cursorId = FALSE
    /\ jumped = FALSE
    /\ insertId = 0 /\ acked = {} /\ refused = {} /\ joined = {}
    /\ srvErr = "none" /\ gleReply = "none" /\ stored = {} /\ silent = {}
    /\ result = "none"

-----------------------------------------------------------------------------
(* mongo.open, mongo.close and every call on a handle that was closed.     *)

mongoRconnect ==
    /\ rpc = "R" /\ handle = "unbound"
    /\ \/ handle' = "live" /\ UNCHANGED rpc
       \/ rpc' = "dead" /\ UNCHANGED handle
    /\ UNCHANGED <<vars, cout, oldbuf, inBatch, cursorId, jumped, ackVars, svars, result>>

(* The stub returns R_NilValue and touches nothing.                        *)
mongoRauthenticate ==
    /\ rpc = "R"
    /\ result' = "null"
    /\ UNCHANGED <<vars, rvars, svars>>

mongoRdisconnect ==
    /\ rpc = "R" /\ handle = "live"
    /\ Delete
    /\ handle' = "cleared"
    /\ result' = "1"
    /\ UNCHANGED <<rpc, cout, oldbuf, inBatch, cursorId, jumped, ackVars, svars>>

NullHandle ==
    /\ rpc = "R" /\ handle = "cleared"
    /\ result' = "error"
    /\ UNCHANGED <<vars, rvars, svars>>

-----------------------------------------------------------------------------
(* mongoRquery                                                             *)

(* The bound on messages leaves room for the call to finish.               *)
Room == nextId < MaxId

(* A catch block: cout is given back and 0 returned.                       *)
Caught ==
    /\ rpc' = "R"
    /\ cout' = oldbuf'
    /\ result' = "0"

(* The call up to its first wait: cout is redirected, the query parsed and *)
(* sent; fromjson, checkConnection and the send may throw.                 *)
QueryCall ==
    /\ rpc = "R" /\ handle = "live"
    /\ oldbuf' = cout
    /\ \/ UNCHANGED vars /\ Caught
       \/ CheckThrows /\ Caught
       \/ /\ Query("query")
          /\ IF outcome' = "threw" /\ pc' = "idle" THEN Caught
             ELSE rpc' = "query" /\ cout' = "local" /\ UNCHANGED result
    /\ UNCHANGED <<handle, inBatch, cursorId, jumped, ackVars, svars>>

(* A batch arrives; the server's data ends before the bound on messages.   *)
(* more() answers no after a getMore whose batch is empty, even when the   *)
(* cursor is still open, and asks again after an empty first batch.        *)
QueryReply ==
    /\ rpc = "query"
    /\ RecvReply
    /\ inBatch' \in 0..MaxBatch
    /\ cursorId' \in IF Room THEN BOOLEAN ELSE {FALSE}
    /\ rpc' = IF call.op = "getMore" /\ inBatch' = 0 THEN "end" ELSE "query"
    /\ UNCHANGED <<handle, cout, oldbuf, jumped, ackVars, svars, result>>

(* The server does not know the cursor any more: dataReceived throws.      *)
QueryNotFound ==
    /\ rpc = "query" /\ call.op = "getMore"
    /\ RecvReply
    /\ inBatch' = 0 /\ cursorId' = FALSE
    /\ rpc' = "unwind"
    /\ UNCHANGED <<handle, cout, oldbuf, jumped, ackVars, svars, result>>

(* The reply does not come.  In the first call query() returns a null      *)
(* pointer, and more() is virtual: the call through it crashes before the  *)
(* test of 13348.  In a getMore call() throws.                             *)
QueryLost ==
    /\ rpc = "query"
    /\ RecvFails \/ RecvWrongId
    /\ rpc' = IF call.op = "query" /\ failed' THEN "dead" ELSE "unwind"
    /\ UNCHANGED <<handle, cout, oldbuf, inBatch, cursorId, jumped, ackVars, svars, result>>

(* ~DBClientCursor while the exception leaves the try block, then catch.   *)
Unwind ==
    /\ rpc = "unwind"
    /\ IF cursorId THEN Kill ELSE UNCHANGED vars
    /\ inBatch' = 0 /\ cursorId' = FALSE
    /\ UNCHANGED oldbuf
    /\ Caught
    /\ UNCHANGED <<handle, jumped, ackVars, svars>>

(* realloc, next() and mkChar for one document of the batch.               *)
MakeString ==
    /\ rpc = "query" /\ pc = "idle"
    /\ inBatch > 0
    /\ inBatch' = inBatch - 1
    /\ UNCHANGED <<vars, rpc, handle, cout, oldbuf, cursorId, jumped, ackVars, svars, result>>

(* next() or toString() throws on a document it cannot print, or on memory *)
(* it does not get: an exception on a connection that is not failed.       *)
DocumentThrows ==
    /\ rpc = "query" /\ pc = "idle"
    /\ inBatch > 0
    /\ rpc' = "unwind"
    /\ UNCHANGED <<vars, handle, cout, oldbuf, inBatch, cursorId, jumped, ackVars, svars, result>>

(* realloc or mkChar runs out of memory and error() jumps out of the call: *)
(* the stringstream's frame is gone, cout is not given back.               *)
OutOfMemory ==
    /\ rpc = "query" /\ pc = "idle"
    /\ inBatch > 0
    /\ rpc' = "R"
    /\ cout' = "gone"
    /\ jumped' = TRUE
    /\ result' = "error"
    /\ inBatch' = 0 /\ cursorId' = FALSE
    /\ UNCHANGED <<vars, handle, oldbuf, ackVars, svars>>

(* cursor->more() at the end of a batch.                                   *)
QueryMore ==
    /\ rpc = "query" /\ pc = "idle"
    /\ inBatch = 0 /\ cursorId
    /\ GetMore
    /\ rpc' = IF pc' = "idle" THEN "unwind" ELSE "query"
    /\ UNCHANGED <<handle, cout, oldbuf, inBatch, cursorId, jumped, ackVars, svars, result>>

(* Mutant of QueryReturn: cout is not given back.                          *)
QueryReturnRedirected ==
    /\ pc = "idle"
    /\ rpc = "end" \/ (rpc = "query" /\ inBatch = 0 /\ ~cursorId)
    /\ IF cursorId THEN Kill ELSE UNCHANGED vars
    /\ rpc' = "R"
    /\ cursorId' = FALSE
    /\ result' = "docs"
    /\ UNCHANGED <<handle, cout, oldbuf, inBatch, jumped, ackVars, svars>>

(* The loop is over: the cursor is destroyed at the end of the try block,  *)
(* cout is given back, and the strings are moved to a vector.              *)
QueryReturn ==
    /\ pc = "idle"
    /\ rpc = "end" \/ (rpc = "query" /\ inBatch = 0 /\ ~cursorId)
    /\ IF cursorId THEN Kill ELSE UNCHANGED vars
    /\ rpc' = "R"
    /\ cout' = oldbuf
    /\ cursorId' = FALSE
    /\ result' = "docs"
    /\ UNCHANGED <<handle, oldbuf, inBatch, jumped, ackVars, svars>>

-----------------------------------------------------------------------------
(* mongoRinsert                                                            *)

(* The try block: parse and say.  cout is redirected and given back within *)
(* it on every path.                                                       *)
InsertCall ==
    /\ rpc = "R" /\ handle = "live" /\ Room
    /\ oldbuf' = cout
    /\ \/ UNCHANGED <<vars, ackVars>> /\ Caught
       \/ CheckThrows /\ Caught /\ UNCHANGED ackVars
       \/ /\ Insert
          /\ insertId' = nextId
          /\ joined' = IF piggy = <<>> THEN joined ELSE joined \cup {nextId}
          /\ IF outcome' = "threw"
             THEN Caught /\ refused' = refused \cup {nextId}
             ELSE rpc' = "gle" /\ cout' = oldbuf' /\ UNCHANGED <<result, refused>>
          /\ UNCHANGED acked
    /\ UNCHANGED <<handle, inBatch, cursorId, jumped, svars>>

(* getLastErrorDetailed sends its query, outside any try block.            *)
GleSend ==
    /\ rpc = "gle" /\ pc = "idle"
    /\ Query("query")
    /\ rpc' = IF pc' = "idle" THEN "dead" ELSE "gle"
    /\ UNCHANGED <<handle, cout, oldbuf, inBatch, cursorId, jumped, ackVars, svars, result>>

(* Its answer: no "code" reads as 0, and 0 as success.                     *)
GleReply ==
    /\ rpc = "gle"
    /\ RecvReply
    /\ rpc' = "R"
    /\ IF gleReply = "code"
       THEN result' = "json" /\ UNCHANGED acked
       ELSE result' = "1" /\ acked' = acked \cup {insertId}
    /\ UNCHANGED <<handle, cout, oldbuf, inBatch, cursorId, jumped, insertId, refused, joined, svars>>

(* Mutant of GleLost: no answer is taken for no error.                     *)
GleLostIsSuccess ==
    /\ rpc = "gle"
    /\ RecvFails \/ RecvWrongId
    /\ rpc' = "R"
    /\ result' = "1"
    /\ acked' = acked \cup {insertId}
    /\ UNCHANGED <<handle, cout, oldbuf, inBatch, cursorId, jumped, insertId, refused, joined, svars>>

(* Mutant of GleLost: the exception is swallowed and the answer awaited.   *)
GleLostWaits ==
    /\ rpc = "gle"
    /\ RecvFails \/ RecvWrongId
    /\ UNCHANGED <<rvars, svars, result>>

(* findOne throws, and nothing catches it.                                 *)
GleLost ==
    /\ rpc = "gle"
    /\ RecvFails \/ RecvWrongId
    /\ rpc' = "dead"
    /\ UNCHANGED <<handle, cout, oldbuf, inBatch, cursorId, jumped, ackVars, svars, result>>

-----------------------------------------------------------------------------
(* The server: an insert is applied or raises an error, with or without a  *)
(* code; getlasterror is the query an insert is followed by.               *)

SrvServe ==
    /\ handle # "unbound"
    /\ Serve(1)
    /\ LET m == Head(up[1])
       IN  \/ /\ m.op = "insert"
              /\ srvErr' \in {"none", "code", "nocode"}
              /\ stored' = IF srvErr' = "none" THEN stored \cup {m.id} ELSE stored
              /\ silent' = IF srvErr' = "nocode" THEN silent \cup {m.id} ELSE silent
              /\ UNCHANGED gleReply
           \/ /\ m.op = "query"
              /\ gleReply' = srvErr
              /\ UNCHANGED <<srvErr, stored, silent>>
           \/ m.op \notin {"insert", "query"} /\ UNCHANGED svars
    /\ UNCHANGED <<rvars, result>>

Network ==
    /\ handle # "unbound"
    /\ Reset(1)
    /\ UNCHANGED <<rvars, svars, result>>

RThread ==
    \/ QueryReply \/ QueryNotFound \/ QueryLost \/ Unwind
    \/ MakeString \/ DocumentThrows \/ OutOfMemory \/ QueryMore \/ QueryReturn
    \/ GleSend \/ GleReply \/ GleLost

RCall ==
    mongoRconnect \/ mongoRauthenticate \/ mongoRdisconnect \/ NullHandle \/ QueryCall \/ InsertCall

RNext == RCall \/ RThread \/ SrvServe \/ Network

RSpec == RInit /\ [][RNext]_allVars

-----------------------------------------------------------------------------
(* Properties.                                                             *)

HandledInsert(id) ==
    \E i \in 1..Len(served) : served[i][2] = [op |-> "insert", id |-> id]

(* mongo.insert answers 1 only for an insert the server stored, or one it  *)
(* rejected with an error that has no code, which mongoR.cc:137 cannot     *)
(* see: the reply it judges by is the reply to its own getlasterror, on    *)
(* the same socket and behind the insert (mongoR.cc:124, :136-141).        *)
OneMeansStored == acked \subseteq stored \cup silent

(* An insert answered with 0 is not applied while the handle is open, by   *)
(* no later packet, and after mongo.close only if it had joined buffered   *)
(* killCursors messages: then the buffer may keep it (message.cpp:287) and *)
(* ~PiggyBackData sends it after all (mongoR.cc:126-130,                   *)
(* message.cpp:266-271, :525-537).                                         *)
ZeroUntilClose ==
    \A id \in refused : HandledInsert(id) => handle = "cleared" /\ id \in joined

(* Outside the calls of the driver std::cout has its own buffer, whatever  *)
(* exceptions the calls met, unless R's error() jumped out of one          *)
(* (mongoR.cc:75-94, :119-133).                                            *)
CoutGivenBack == rpc = "R" /\ ~jumped => cout = "std"

(* The state of the session between calls, with the types of the variables.*)
SessionInv == RTypeOK /\ CoutGivenBack

(* A call of the R thread comes back to R (or ends R) when the server      *)
(* handles what it received (mongoR.cc:80, :136).                          *)
RCallReturns == rpc \in {"query", "end", "unwind", "gle"} ~> rpc \in {"R", "dead"}

RFairSpec ==
    /\ RSpec
    /\ WF_allVars(QueryReply) /\ WF_allVars(GleReply)
    /\ WF_allVars(sock[gen] # "open" /\ (QueryLost \/ GleLost))
    /\ WF_allVars(MakeString) /\ WF_allVars(QueryMore) /\ WF_allVars(QueryReturn)
    /\ WF_allVars(Unwind) /\ WF_allVars(GleSend)
    /\ WF_allVars(SrvServe)

=============================================================================
