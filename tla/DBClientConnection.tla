------------------------ MODULE DBClientConnection ------------------------
(***************************************************************************)
(* One client thread using one DBClientConnection                          *)
(* (client/dbclient.cpp), its MessagingPort (util/message.cpp) and the     *)
(* server at the other end of the socket.                                  *)
(*                                                                         *)
(* A connection owns one port at a time; a reconnect replaces the port, so *)
(* ports are numbered 1, 2, ... and gen is the port in use.  What a port   *)
(* writes is a FIFO to the server (up), what the server writes is a FIFO   *)
(* back (down).  A message is its kind and its id, a reply the id it       *)
(* answers: what decides the fate of a connection is which reply is read   *)
(* by which request.                                                       *)
(***************************************************************************)
EXTENDS Naturals, Sequences

CONSTANTS
    AutoReconnect,  \* the constructor's _autoReconnect
    AuthEntries,    \* entries of authCache
    PiggyMax,       \* messages that fit the 1300-byte piggy-back buffer
    MaxGen,         \* bound: ports ever created
    MaxId,          \* bound: messages ever numbered
    MaxBlast,       \* bound: extra replies of one exhaust query
    MaxTime         \* bound: seconds

ASSUME ConnectionAssumption ==
    /\ AutoReconnect \in BOOLEAN
    /\ AuthEntries \in Nat
    /\ PiggyMax \in Nat \ {0}
    /\ MaxGen \in Nat \ {0}
    /\ MaxId \in Nat
    /\ MaxBlast \in Nat
    /\ MaxTime \in Nat \ {0}

VARIABLES
    sock,      \* port -> "none", "open", "reset" (peer gone), "closed" (sock = -1)
    up,        \* port -> messages written and not yet handled by the server
    down,      \* port -> replies written and not yet read by the client
    blast,     \* port -> replies the server still owes to an exhaust query
    gen,       \* the port p points to
    piggy,     \* contents of the current port's PiggyBackData
    failed,    \* DBClientConnection::failed
    lastTry,   \* lastReconnectTry, 0 when there was none
    now,       \* time(0)
    nextId,    \* NextMsgId
    authed,    \* history: port -> how the loop over authCache ended there
    pc,        \* where the client thread is
    call,      \* the request whose reply the thread waits for
    authLeft,  \* commands _checkConnection has still to send for authCache
    todo,      \* the operation _checkConnection was called for
    cursors,   \* live DBClientCursor objects of this connection
    served,    \* history: <<port, message>> in the order the server handled them
    thrown,    \* history: messages whose say() threw
    outcome    \* how the last operation ended

netVars  == <<sock, up, down, blast>>
portVars == <<gen, piggy, failed, lastTry, nextId, authed>>
thrVars  == <<pc, call, authLeft, todo, cursors, outcome>>
vars     == <<netVars, portVars, thrVars, now, served, thrown>>

Ports == 1..MaxGen

(* Operations of the connection.  insert (say), query and exhaust go       *)
(* through checkConnection; a cursor's getMore calls port().call without   *)
(* it; kill is a killCursors message kept for the next packet; auth is a   *)
(* command of DBClientWithCommands::auth.                                  *)
CheckedOps   == {"insert", "query", "exhaust"}
ReplyOps     == {"query", "exhaust", "getMore", "auth"}
Ops          == CheckedOps \cup ReplyOps \cup {"kill"}

Message == [op : Ops, id : 1..MaxId]
NoMsg   == [op |-> "none", id |-> 0]
Reply   == [to : 1..MaxId, last : BOOLEAN]
Sockets == {"none", "open", "reset", "closed"}

TypeOK ==
    /\ sock \in [Ports -> Sockets]
    /\ up \in [Ports -> Seq(Message)]
    /\ down \in [Ports -> Seq(Reply)]
    /\ blast \in [Ports -> [to : 0..MaxId, left : 0..MaxBlast]]
    /\ gen \in Ports
    /\ piggy \in Seq(Message)
    /\ failed \in BOOLEAN
    /\ lastTry \in 0..MaxTime
    /\ now \in 1..MaxTime
    /\ nextId \in 1..(MaxId + 1)
    /\ authed \in [Ports -> {"no", "yes", "threw"}]
    /\ pc \in {"idle", "auth", "checked", "recv", "exhaust", "deleted"}
    /\ call \in Message \cup {NoMsg}
    /\ authLeft \in 0..(2 * AuthEntries)
    /\ todo \in CheckedOps \cup {"none"}
    /\ cursors \in Nat
    /\ served \in Seq(Ports \X Message)
    /\ thrown \in SUBSET (1..MaxId)
    /\ outcome \in {"none", "ok", "threw", "wrongId"}

-----------------------------------------------------------------------------
(* The socket.                                                             *)

(* MessagingPort::send: writes all of msgs or throws.  It can throw on a   *)
(* live socket (any errno but EAGAIN, EINTR included) with part of the     *)
(* data out; a cut inside a message leaves a stream the server drops,      *)
(* which is what "reset" stands for.  A peer that is gone may still let    *)
(* one more write succeed into the kernel's buffer.                        *)
send(s, q, msgs) ==
    IF s = "open"
    THEN {[sock |-> "open", up |-> q \o msgs, ok |-> TRUE]}
         \cup UNION {{[sock |-> t, up |-> q \o SubSeq(msgs, 1, n), ok |-> FALSE] :
                         t \in {"open", "reset"}} : n \in 0..(Len(msgs) - 1)}
    ELSE {[sock |-> s, up |-> q, ok |-> b] : b \in {FALSE, s = "reset"}}

(* The message by itself, on a port whose socket and output are s and q.   *)
Alone(s, q, m) ==
    {[sock |-> w.sock, up |-> w.up, ok |-> w.ok, piggy |-> <<>>] : w \in send(s, q, <<m>>)}

(* Mutant of Together: the buffer is not emptied after the send.           *)
TogetherKept(m) ==
    {[sock |-> w.sock, up |-> w.up, ok |-> w.ok, piggy |-> Append(piggy, m)] :
        w \in send(sock[gen], up[gen], Append(piggy, m))}

(* The message joins the piggy-back buffer, which goes out as one packet   *)
(* and is emptied only after a successful send.                            *)
Together(m) ==
    {[sock |-> w.sock, up |-> w.up, ok |-> w.ok,
      piggy |-> IF w.ok THEN <<>> ELSE Append(piggy, m)] :
        w \in send(sock[gen], up[gen], Append(piggy, m))}

(* The buffer goes out first and the message after it.                     *)
Apart(m) ==
    UNION {IF w.ok THEN Alone(w.sock, w.up, m)
                   ELSE {[sock |-> w.sock, up |-> w.up, ok |-> FALSE, piggy |-> piggy]} :
              w \in send(sock[gen], up[gen], piggy)}

(* MessagingPort::say: a pending piggy-back buffer goes out in the same    *)
(* packet when the message fits, and before it when it does not.           *)
say(m) ==
    IF piggy = <<>> THEN Alone(sock[gen], up[gen], m)
    ELSE Apart(m) \cup (IF Len(piggy) < PiggyMax THEN Together(m) ELSE {})

(* Mutant of Said: a send that works clears failed.                        *)
SaidClears(w) ==
    /\ nextId <= MaxId
    /\ nextId' = nextId + 1
    /\ sock' = [sock EXCEPT ![gen] = w.sock]
    /\ up' = [up EXCEPT ![gen] = w.up]
    /\ piggy' = w.piggy
    /\ thrown' = IF w.ok THEN thrown ELSE thrown \cup {nextId}
    /\ failed' = ~w.ok
    /\ UNCHANGED <<down, blast, gen, lastTry, authed, now, served, cursors>>

(* Mutant of Said: the exception is passed on with failed unset.           *)
SaidIgnored(w) ==
    /\ nextId <= MaxId
    /\ nextId' = nextId + 1
    /\ sock' = [sock EXCEPT ![gen] = w.sock]
    /\ up' = [up EXCEPT ![gen] = w.up]
    /\ piggy' = w.piggy
    /\ thrown' = IF w.ok THEN thrown ELSE thrown \cup {nextId}
    /\ UNCHANGED <<failed, down, blast, gen, lastTry, authed, now, served, cursors>>

(* A message of kind op was numbered and handed to say(), with result w;   *)
(* DBClientConnection catches the SocketException and sets failed.         *)
Said(w) ==
    /\ nextId <= MaxId
    /\ nextId' = nextId + 1
    /\ sock' = [sock EXCEPT ![gen] = w.sock]
    /\ up' = [up EXCEPT ![gen] = w.up]
    /\ piggy' = w.piggy
    /\ thrown' = IF w.ok THEN thrown ELSE thrown \cup {nextId}
    /\ failed' = (failed \/ ~w.ok)
    /\ UNCHANGED <<down, blast, gen, lastTry, authed, now, served, cursors>>

(* The first half of DBClientConnection::call: port().say.                 *)
CallSend(op) ==
    \E w \in say([op |-> op, id |-> nextId]) :
        /\ Said(w)
        /\ IF w.ok
           THEN pc' = "recv" /\ call' = [op |-> op, id |-> nextId] /\ UNCHANGED outcome
           ELSE pc' = "idle" /\ outcome' = "threw" /\ UNCHANGED call
        /\ UNCHANGED <<authLeft, todo>>

(* PiggyBackData::flush from the destructor or from append().              *)
flush ==
    IF piggy = <<>> THEN {[sock |-> sock[gen], up |-> up[gen], ok |-> TRUE]}
                    ELSE send(sock[gen], up[gen], piggy)

-----------------------------------------------------------------------------
(* checkConnection: throw, or replace the port and present authCache.      *)

TooSoon == lastTry # 0 /\ now - lastTry < 2

CheckThrows ==
    /\ pc = "idle"
    /\ failed
    /\ TooSoon \/ ~AutoReconnect
    /\ outcome' = "threw"
    /\ UNCHANGED <<netVars, portVars, pc, call, authLeft, todo, cursors, now, served, thrown>>

(* _connect: p.reset(new MessagingPort) runs ~MessagingPort on the old     *)
(* port (flush, an exception swallowed, then close), and the new one is    *)
(* connected (t = "open") or not (t = "closed").                           *)
Reconnect(t) ==
    /\ pc = "idle"
    /\ failed /\ ~TooSoon /\ AutoReconnect
    /\ gen < MaxGen
    /\ gen' = gen + 1
    /\ sock' = [sock EXCEPT ![gen] = "closed", ![gen + 1] = t]
    /\ \E w \in flush : up' = [up EXCEPT ![gen] = w.up]
    /\ piggy' = <<>>
    /\ lastTry' = now
    /\ failed' = (t = "closed")
    /\ UNCHANGED <<down, blast, nextId, authed, call, cursors, now, served, thrown>>

ReconnectFails ==
    /\ Reconnect("closed")
    /\ outcome' = "threw"
    /\ UNCHANGED <<pc, authLeft, todo>>

(* Mutant of ReconnectWorks: the cached credentials are not presented.     *)
ReconnectWorksBare(op) ==
    /\ Reconnect("open")
    /\ pc' = "checked"
    /\ authLeft' = 0
    /\ todo' = op
    /\ UNCHANGED outcome

ReconnectWorks(op) ==
    /\ Reconnect("open")
    /\ pc' = "auth"
    /\ authLeft' = 2 * AuthEntries
    /\ todo' = op
    /\ UNCHANGED outcome

(* A command of DBClientWithCommands::auth: getnonce, then authenticate.   *)
AuthSend ==
    /\ pc = "auth" /\ authLeft > 0
    /\ CallSend("auth")

(* The loop over authCache has ended and the operation goes on.            *)
AuthDone ==
    /\ pc = "auth" /\ authLeft = 0
    /\ pc' = "checked"
    /\ authed' = [authed EXCEPT ![gen] = "yes"]
    /\ UNCHANGED <<netVars, gen, piggy, failed, lastTry, nextId, call, authLeft,
                   todo, cursors, outcome, now, served, thrown>>

Checked(op) ==
    \/ pc = "idle" /\ ~failed
    \/ pc = "checked" /\ todo = op

-----------------------------------------------------------------------------
(* The operations of the connection.                                       *)

(* insert, update, remove: DBClientConnection::say.                        *)
Insert ==
    /\ Checked("insert")
    /\ \E w \in say([op |-> "insert", id |-> nextId]) :
          Said(w) /\ outcome' = IF w.ok THEN "ok" ELSE "threw"
    /\ pc' = "idle"
    /\ UNCHANGED <<call, authLeft, todo>>

(* query() and the exhaust query(): checkConnection, then call.            *)
Query(op) ==
    /\ Checked(op)
    /\ CallSend(op)

(* DBClientCursor::requestMore: call, and nothing looks at failed.         *)
GetMore ==
    /\ pc = "idle"
    /\ cursors > 0
    /\ CallSend("getMore")

(* sayPiggyBack: when the buffer is full append() flushes it first; if     *)
(* that throws, the new message is dropped.                                *)
SayPiggyBack(m) ==
    \/ /\ Len(piggy) < PiggyMax
       /\ piggy' = Append(piggy, m)
       /\ UNCHANGED <<sock, up>>
    \/ /\ Len(piggy) >= PiggyMax
       /\ \E w \in flush :
             /\ sock' = [sock EXCEPT ![gen] = w.sock]
             /\ up' = [up EXCEPT ![gen] = w.up]
             /\ piggy' = IF w.ok THEN <<m>> ELSE piggy

(* Mutant of Kill: a cursor is destroyed twice.                            *)
KillTwice ==
    /\ pc = "idle"
    /\ nextId <= MaxId
    /\ SayPiggyBack([op |-> "kill", id |-> nextId])
    /\ nextId' = nextId + 1
    /\ cursors' = cursors - 1
    /\ UNCHANGED <<down, blast, gen, failed, lastTry, authed, pc, call,
                   authLeft, todo, outcome, now, served, thrown>>

(* ~DBClientCursor: sayPiggyBack of a killCursors message; the             *)
(* destructor's guard swallows an exception.                               *)
Kill ==
    /\ pc = "idle"
    /\ cursors > 0
    /\ nextId <= MaxId
    /\ SayPiggyBack([op |-> "kill", id |-> nextId])
    /\ nextId' = nextId + 1
    /\ cursors' = cursors - 1
    /\ UNCHANGED <<down, blast, gen, failed, lastTry, authed, pc, call,
                   authLeft, todo, outcome, now, served, thrown>>

(* ~DBClientConnection.                                                    *)
Delete ==
    /\ pc = "idle"
    /\ \E w \in flush : up' = [up EXCEPT ![gen] = w.up]
    /\ sock' = [sock EXCEPT ![gen] = "closed"]
    /\ piggy' = <<>>
    /\ pc' = "deleted"
    /\ UNCHANGED <<down, blast, gen, failed, lastTry, nextId, authed, call,
                   authLeft, todo, cursors, outcome, now, served, thrown>>

-----------------------------------------------------------------------------
(* The second half of call: MessagingPort::recv(toSend, response).         *)

Pop == down' = [down EXCEPT ![gen] = Tail(@)]

(* The reply read is the one asked for.  A command of auth may report      *)
(* failure (a getnonce that fails skips its authenticate), an exhaust      *)
(* query goes on until the server says it was the last reply.              *)
RecvReply ==
    /\ pc = "recv"
    /\ down[gen] # <<>>
    /\ Head(down[gen]).to = call.id
    /\ Pop
    /\ \/ /\ call.op = "auth"
          /\ \E n \in {1} \cup (IF authLeft % 2 = 0 THEN {2} ELSE {}) :
                authLeft' = authLeft - n
          /\ pc' = "auth"
          /\ UNCHANGED <<cursors, outcome>>
       \/ /\ call.op = "exhaust" /\ ~Head(down[gen]).last
          /\ pc' = "exhaust"
          /\ UNCHANGED <<authLeft, cursors, outcome>>
       \/ /\ call.op \in {"query", "getMore"} \/ (call.op = "exhaust" /\ Head(down[gen]).last)
          /\ pc' = "idle"
          /\ outcome' = "ok"
          /\ cursors' = IF call.op = "query" THEN cursors + 1 ELSE cursors
          /\ UNCHANGED authLeft
    /\ UNCHANGED <<sock, up, blast, portVars, call, todo, now, served, thrown>>

(* findOne or auth throws on the contents of a good reply ($err, a         *)
(* getnonce answer without a nonce): the exception leaves _checkConnection *)
(* with failed still false.                                                *)
AuthThrows ==
    /\ pc = "recv" /\ call.op = "auth"
    /\ down[gen] # <<>>
    /\ Head(down[gen]).to = call.id
    /\ Pop
    /\ pc' = "idle"
    /\ outcome' = "threw"
    /\ authed' = [authed EXCEPT ![gen] = "threw"]
    /\ UNCHANGED <<sock, up, blast, gen, piggy, failed, lastTry, nextId, call, authLeft, todo,
                   cursors, now, served, thrown>>

(* The reply answers another request: assert(false), which is not a        *)
(* SocketException, so failed is left as it was.                           *)
RecvWrongId ==
    /\ pc = "recv"
    /\ down[gen] # <<>>
    /\ Head(down[gen]).to # call.id
    /\ Pop
    /\ pc' = "idle"
    /\ outcome' = "wrongId"
    /\ UNCHANGED <<sock, up, blast, portVars, call, authLeft, todo, cursors, now, served, thrown>>

(* Mutant of RecvFails: the connection stays usable.                       *)
RecvFailsUsable ==
    /\ pc = "recv"
    /\ sock[gen] # "open" => down[gen] = <<>>
    /\ pc' = "idle"
    /\ outcome' = "threw"
    /\ UNCHANGED <<netVars, portVars, call, authLeft, todo, cursors, now, served, thrown>>

(* Mutant of RecvFails: a peer that is gone is not noticed.                *)
RecvFailsUnnoticed ==
    /\ pc = "recv"
    /\ sock[gen] = "open"
    /\ failed' = TRUE
    /\ pc' = "idle"
    /\ outcome' = "threw"
    /\ UNCHANGED <<netVars, gen, piggy, lastTry, nextId, authed, call, authLeft, todo,
                   cursors, now, served, thrown>>

(* recv throws: the peer is gone, or the read was interrupted twice, timed *)
(* out with the server not answering pings, or saw an impossible length.   *)
(* In the last cases the socket is still open.                             *)
RecvFails ==
    /\ pc = "recv"
    /\ sock[gen] # "open" => down[gen] = <<>>
    /\ failed' = TRUE
    /\ pc' = "idle"
    /\ outcome' = "threw"
    /\ UNCHANGED <<netVars, gen, piggy, lastTry, nextId, authed, call, authLeft, todo,
                   cursors, now, served, thrown>>

(* exhaustReceiveMore: recv without matching ids.                          *)
ExhaustRecv ==
    /\ pc = "exhaust"
    /\ down[gen] # <<>>
    /\ Pop
    /\ IF Head(down[gen]).last
       THEN pc' = "idle" /\ outcome' = "ok"
       ELSE UNCHANGED <<pc, outcome>>
    /\ UNCHANGED <<sock, up, blast, portVars, call, authLeft, todo, cursors, now, served, thrown>>

(* recv failed and left an empty message, or the callback threw: the       *)
(* connection is failed and its socket shut down.  Then the cursor, whose  *)
(* server cursor is open, is destroyed: a killCursors message for the      *)
(* closed port (the buffer is empty since the query was sent).             *)
ExhaustThrows ==
    /\ pc = "exhaust"
    /\ nextId <= MaxId
    /\ nextId' = nextId + 1
    /\ piggy' = Append(piggy, [op |-> "kill", id |-> nextId])
    /\ failed' = TRUE
    /\ sock' = [sock EXCEPT ![gen] = "closed"]
    /\ pc' = "idle"
    /\ outcome' = "threw"
    /\ UNCHANGED <<up, down, blast, gen, lastTry, authed, call, authLeft, todo, cursors, now,
                   served, thrown>>

(* The callback threw on the last batch: the server's cursor is closed.    *)
ExhaustLastThrows ==
    /\ pc = "exhaust" \/ (pc = "recv" /\ call.op = "exhaust")
    /\ down[gen] # <<>>
    /\ Head(down[gen]).last
    /\ pc = "recv" => Head(down[gen]).to = call.id
    /\ Pop
    /\ failed' = TRUE
    /\ sock' = [sock EXCEPT ![gen] = "closed"]
    /\ pc' = "idle"
    /\ outcome' = "threw"
    /\ UNCHANGED <<up, blast, gen, piggy, lastTry, nextId, authed, call, authLeft, todo, cursors,
                   now, served, thrown>>

-----------------------------------------------------------------------------
(* The server, the network and the clock.                                  *)

(* The server's writes reach the client only while the socket lives.       *)
Deliver(g, r) ==
    \/ sock[g] \in {"open", "reset"} /\ down' = [down EXCEPT ![g] = Append(@, r)]
    \/ sock[g] # "open" /\ UNCHANGED down

(* The server handles the next message of port g.                          *)
Serve(g) ==
    /\ up[g] # <<>>
    /\ blast[g].left = 0
    /\ LET m == Head(up[g])
       IN  /\ up' = [up EXCEPT ![g] = Tail(@)]
           /\ served' = Append(served, <<g, m>>)
           /\ \/ /\ m.op \notin ReplyOps
                 /\ UNCHANGED <<down, blast>>
              \/ /\ m.op \in ReplyOps \ {"exhaust"}
                 /\ Deliver(g, [to |-> m.id, last |-> TRUE])
                 /\ UNCHANGED blast
              \/ /\ m.op = "exhaust"
                 /\ \E n \in 0..MaxBlast :
                       /\ blast' = [blast EXCEPT ![g] = [to |-> m.id, left |-> n]]
                       /\ Deliver(g, [to |-> m.id, last |-> n = 0])
    /\ UNCHANGED <<sock, portVars, thrVars, now, thrown>>

(* The next reply of an exhaust query.                                     *)
BlastReply(g) ==
    /\ blast[g].left > 0
    /\ blast' = [blast EXCEPT ![g].left = @ - 1]
    /\ Deliver(g, [to |-> blast[g].to, last |-> blast[g].left = 1])
    /\ UNCHANGED <<sock, up, portVars, thrVars, now, served, thrown>>

(* The peer goes away: data in flight is lost from some point on.          *)
Reset(g) ==
    /\ sock[g] = "open"
    /\ sock' = [sock EXCEPT ![g] = "reset"]
    /\ \E n \in 0..Len(up[g]) : up' = [up EXCEPT ![g] = SubSeq(@, 1, n)]
    /\ \E n \in 0..Len(down[g]) : down' = [down EXCEPT ![g] = SubSeq(@, 1, n)]
    /\ UNCHANGED <<blast, portVars, thrVars, now, served, thrown>>

Tick ==
    /\ now < MaxTime
    /\ now' = now + 1
    /\ UNCHANGED <<netVars, portVars, thrVars, served, thrown>>

-----------------------------------------------------------------------------
(* connect(): with autoReconnect a connection whose connect() failed may   *)
(* be used; without it the caller is not to.                               *)
Init ==
    /\ failed \in {FALSE, AutoReconnect}
    /\ gen = 1
    /\ sock = [g \in Ports |-> IF g > 1 THEN "none" ELSE IF failed THEN "closed" ELSE "open"]
    /\ up = [g \in Ports |-> <<>>]
    /\ down = [g \in Ports |-> <<>>]
    /\ blast = [g \in Ports |-> [to |-> 0, left |-> 0]]
    /\ piggy = <<>>
    /\ lastTry = 0
    /\ now = 1
    /\ nextId = 1
    /\ authed = [g \in Ports |-> "no"]
    /\ pc = "idle"
    /\ call = NoMsg
    /\ authLeft = 0
    /\ todo = "none"
    /\ cursors = 0
    /\ served = <<>>
    /\ thrown = {}
    /\ outcome = "none"

(* The bound on messages leaves one for the cursor of an exhaust query.    *)
ClientSend ==
    \/ CheckThrows \/ ReconnectFails \/ AuthSend \/ AuthDone
    \/ \E op \in CheckedOps : ReconnectWorks(op)
    \/ Insert \/ Query("query") \/ (nextId < MaxId /\ Query("exhaust")) \/ GetMore
    \/ Kill \/ Delete

ClientRecv ==
    \/ RecvReply \/ AuthThrows \/ RecvWrongId \/ RecvFails
    \/ ExhaustRecv \/ ExhaustThrows \/ ExhaustLastThrows

Server == \E g \in Ports : Serve(g) \/ BlastReply(g)

Next == ClientSend \/ ClientRecv \/ Server \/ (\E g \in Ports : Reset(g)) \/ Tick

Spec == Init /\ [][Next]_vars

-----------------------------------------------------------------------------
(* Properties.                                                             *)

(* Replies the client could still read from port g.                        *)
Owed(g) ==
    {down[g][i].to : i \in 1..Len(down[g])}
    \cup {up[g][i].id : i \in {j \in 1..Len(up[g]) : up[g][j].op \in ReplyOps}}
    \cup (IF blast[g].left > 0 THEN {blast[g].to} ELSE {})

(* A connection that is not failed owes the thread nothing but the reply   *)
(* it is waiting for, so the next call cannot read somebody else's reply.  *)
(* call(), say() and the exhaust query() must set failed on every path     *)
(* that leaves a reply behind (dbclient.cpp:674, :901-911).                *)
NoStrayReply ==
    ~failed => Owed(gen) \subseteq (IF pc \in {"recv", "exhaust"} THEN {call.id} ELSE {})

(* The server handles a write or a request at most once, and those of one  *)
(* port in the order they were numbered, although say() and flush() may    *)
(* fail half way and keep what they could not send (message.cpp:283-289,   *)
(* :519-539).  Only two requests that both threw on the same port may come *)
(* twice or in the wrong order: the buffer that kept them can be sent in   *)
(* part by a cursor's getMore and once more, in full, by ~MessagingPort.   *)
OnceInOrder ==
    \A i, j \in 1..Len(served) :
        /\ i < j
        /\ served[i][2].op # "kill" /\ served[j][2].op # "kill"
        /\ served[i][1] = served[j][1] => ~({served[i][2].id, served[j][2].id} \subseteq thrown)
        => /\ served[i][2].id # served[j][2].id
           /\ served[i][1] = served[j][1] => served[i][2].id < served[j][2].id

(* A failed connection becomes usable again only with a new port           *)
(* (dbclient.cpp:574-603); a call that happens to work on the old one does *)
(* not clear failed.  Attempts are at least two seconds apart: "we wait a  *)
(* little before reconnect attempt to avoid constant hammering" (:577-581).*)
HealedByReconnect ==
    [][/\ failed /\ ~failed' => gen' = gen + 1 /\ sock'[gen'] = "open"
       /\ gen' # gen => failed /\ (lastTry # 0 => now - lastTry >= 2)]_vars

(* A thread waiting for a reply gets one or an exception                   *)
(* (message.cpp:497-517), as long as the server handles what it received.  *)
CallReturns == pc \in {"recv", "exhaust"} ~> pc \notin {"recv", "exhaust"}

FairSpec ==
    /\ Spec
    /\ WF_vars(RecvReply) /\ WF_vars(RecvWrongId) /\ WF_vars(ExhaustRecv)
    /\ WF_vars(pc \in {"recv", "exhaust"} /\ sock[gen] # "open" /\ (RecvFails \/ ExhaustThrows))
    /\ \A g \in Ports : WF_vars(Serve(g)) /\ WF_vars(BlastReply(g))

(* assert(false) on a reply with the wrong id (message.cpp:512) does not   *)
(* fire.                                                                   *)
NoWrongId == outcome # "wrongId"

(* A write or query that reaches the server over a port made by a          *)
(* reconnect comes after the cached credentials were presented there       *)
(* (dbclient.cpp:521-523, :596-602).  Two holes are left out of it: when   *)
(* auth itself throws (an $err reply, the assert at dbclient.cpp:353)      *)
(* failed is already false and the port stays in use; and a getMore goes   *)
(* past checkConnection (dbclientcursor.cpp:85).                           *)
AuthPresented ==
    \A i \in 1..Len(served) :
        served[i][1] > 1 /\ served[i][2].op \in {"insert", "query", "exhaust"}
        => authed[served[i][1]] # "no"

=============================================================================
