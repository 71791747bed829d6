----------------------------- MODULE ConnectBG -----------------------------
(***************************************************************************)
(* MessagingPort::connect (util/message.cpp): the calling thread opens a   *)
(* socket and lets a BackgroundJob (util/background.cpp) call ::connect,   *)
(* so that it can give up after five seconds.  The job is a local variable *)
(* of the caller, and it names the socket by its number, which the kernel  *)
(* gives out again once it is closed.                                      *)
(***************************************************************************)
EXTENDS Naturals, Sequences

CONSTANTS
    Threads,   \* threads of the process
    Hosts,     \* addresses
    Fds,       \* descriptor numbers
    MaxSock    \* bound: sockets ever opened

Sockets == 1..MaxSock
NoHost == "none"

ASSUME ConnectAssumption ==
    /\ MaxSock \in Nat
    /\ Fds \subseteq Nat \ {0}
    /\ NoHost \notin Hosts

VARIABLES
    fdTable,   \* descriptor -> the socket it names, 0 if it is free
    peer,      \* socket -> the host it is connected to, or NoHost
    trying,    \* socket -> the host a ::connect is connecting it to, or NoHost
    nextSock,  \* sockets opened so far
    fg,        \* thread -> "out" of connect, in its first "wait", in the "late" one
    sock,      \* thread -> MessagingPort::sock of the connect it is in
    far,       \* thread -> farEnd
    state,     \* thread -> JobStatus::state of its job, "none" without one
    bg,        \* thread -> where its job's thread is
    bgFd,      \* thread -> ConnectBG::_sock
    bgSock,    \* thread -> the socket that thread's ::connect works on
    res,       \* thread -> _res of its job
    stray      \* history: a job connected a socket that is not its caller's

kernelVars == <<fdTable, peer, trying, nextSock>>
callVars   == <<fg, sock, far>>
jobVars    == <<state, bg, bgFd, bgSock, res, stray>>
portVars   == <<kernelVars, callVars, jobVars>>


PortTypeOK ==
    /\ fdTable \in [Fds -> 0..MaxSock]
    /\ peer \in [Sockets -> Hosts \cup {NoHost}]
    /\ trying \in [Sockets -> Hosts \cup {NoHost}]
    /\ nextSock \in 0..MaxSock
    /\ fg \in [Threads -> {"out", "wait", "late"}]
    /\ sock \in [Threads -> Fds \cup {0}]
    /\ far \in [Threads -> Hosts \cup {NoHost}]
    /\ state \in [Threads -> {"none", "NotStarted", "Running", "Done"}]
    /\ bg \in [Threads -> {"none", "start", "run", "connect", "end"}]
    /\ bgFd \in [Threads -> Fds \cup {0}]
    /\ bgSock \in [Threads -> 0..MaxSock]
    /\ res \in [Threads -> {"unset", "ok", "error"}]
    /\ stray \in BOOLEAN

PortInit ==
    /\ fdTable = [f \in Fds |-> 0]
    /\ peer = [s \in Sockets |-> NoHost]
    /\ trying = [s \in Sockets |-> NoHost]
    /\ nextSock = 0
    /\ fg = [t \in Threads |-> "out"]
    /\ sock = [t \in Threads |-> 0]
    /\ far = [t \in Threads |-> NoHost]
    /\ state = [t \in Threads |-> "none"]
    /\ bg = [t \in Threads |-> "none"]
    /\ bgFd = [t \in Threads |-> 0]
    /\ bgSock = [t \in Threads |-> 0]
    /\ res = [t \in Threads |-> "unset"]
    /\ stray = FALSE

Free(table) == {f \in Fds : table[f] = 0}

(* closesocket on descriptors.                                             *)
Closed(table, fs) == [f \in Fds |-> IF f \in fs THEN 0 ELSE table[f]]

-----------------------------------------------------------------------------
(* The calling thread.                                                     *)

(* socket() takes the lowest free number of table; ConnectBG::go().        *)
PortConnect(t, h, table) ==
    /\ fg[t] = "out"
    /\ nextSock < MaxSock
    /\ nextSock' = nextSock + 1
    /\ \E f \in Free(table) :
          /\ \A g \in Free(table) : f <= g
          /\ fdTable' = [table EXCEPT ![f] = nextSock']
          /\ sock' = [sock EXCEPT ![t] = f]
          /\ bgFd' = [bgFd EXCEPT ![t] = f]
    /\ far' = [far EXCEPT ![t] = h]
    /\ fg' = [fg EXCEPT ![t] = "wait"]
    /\ state' = [state EXCEPT ![t] = "NotStarted"]
    /\ bg' = [bg EXCEPT ![t] = "start"]
    /\ res' = [res EXCEPT ![t] = "unset"]
    /\ UNCHANGED <<peer, trying, bgSock, stray>>

(* connect() returns, and the job goes out of scope with its status.       *)
Leave(t) ==
    /\ fg' = [fg EXCEPT ![t] = "out"]
    /\ sock' = [sock EXCEPT ![t] = 0]
    /\ state' = [state EXCEPT ![t] = "none"]
    /\ bgFd' = [bgFd EXCEPT ![t] = 0]
    /\ res' = [res EXCEPT ![t] = "unset"]
    /\ far' = [far EXCEPT ![t] = NoHost]

(* wait(5000) sees Done, and ::connect returned 0.                         *)
ConnectWorks(t) ==
    /\ fg[t] = "wait" /\ state[t] = "Done" /\ res[t] = "ok"
    /\ Leave(t)
    /\ UNCHANGED <<kernelVars, bg, bgSock, stray>>

(* Mutant of ConnectRefused: the socket is left open.                      *)
ConnectRefusedOpen(t) ==
    /\ fg[t] = "wait" /\ state[t] = "Done" /\ res[t] # "ok"
    /\ Leave(t)
    /\ UNCHANGED <<kernelVars, bg, bgSock, stray>>

ConnectRefused(t) ==
    /\ fg[t] = "wait" /\ state[t] = "Done" /\ res[t] # "ok"
    /\ fdTable' = Closed(fdTable, {sock[t]})
    /\ Leave(t)
    /\ UNCHANGED <<peer, trying, nextSock, bg, bgSock, stray>>

(* timed_wait gives up; it does not look at the state again.               *)
ConnectTimesOut(t) ==
    /\ fg[t] = "wait"
    /\ fdTable' = Closed(fdTable, {sock[t]})
    /\ sock' = [sock EXCEPT ![t] = 0]
    /\ fg' = [fg EXCEPT ![t] = "late"]
    /\ UNCHANGED <<peer, trying, nextSock, far, jobVars>>

(* Mutant of LateEnds: the second wait is left out.                        *)
LateEndsAtOnce(t) ==
    /\ fg[t] = "late"
    /\ Leave(t)
    /\ UNCHANGED <<kernelVars, bg, bgSock, stray>>

(* "so bg stays in scope until bg thread terminates".                      *)
LateEnds(t) ==
    /\ fg[t] = "late" /\ state[t] = "Done"
    /\ Leave(t)
    /\ UNCHANGED <<kernelVars, bg, bgSock, stray>>

-----------------------------------------------------------------------------
(* The job's thread: BackgroundJob::jobBody and ConnectBG::run.            *)

JobStarts(t) ==
    /\ bg[t] = "start"
    /\ bg' = [bg EXCEPT ![t] = "run"]
    /\ state' = [state EXCEPT ![t] = "Running"]
    /\ UNCHANGED <<kernelVars, callVars, bgFd, bgSock, res, stray>>

(* ::connect looks its descriptor up.  It fails when the number is closed  *)
(* or names a connected socket, and waits together with a ::connect that   *)
(* is already at work on the socket.                                       *)
JobCalls(t) ==
    /\ bg[t] = "run"
    /\ LET s == fdTable[bgFd[t]]
       IN  IF s # 0 /\ peer[s] = NoHost
           THEN /\ bg' = [bg EXCEPT ![t] = "connect"]
                /\ bgSock' = [bgSock EXCEPT ![t] = s]
                /\ trying' = [trying EXCEPT ![s] = IF @ = NoHost THEN far[t] ELSE @]
                /\ stray' = (stray \/ fg[t] # "wait")
                /\ UNCHANGED res
           ELSE /\ bg' = [bg EXCEPT ![t] = "end"]
                /\ res' = [res EXCEPT ![t] = "error"]
                /\ UNCHANGED <<trying, bgSock, stray>>
    /\ UNCHANGED <<fdTable, peer, nextSock, callVars, state, bgFd>>

(* ::connect returns: the attempt ends here, or another thread's call has  *)
(* ended it.                                                               *)
JobReturns(t) ==
    /\ bg[t] = "connect"
    /\ LET s == bgSock[t]
       IN  /\ \/ trying[s] # NoHost /\ peer' = [peer EXCEPT ![s] = trying[s]]
              \/ UNCHANGED peer
           /\ trying' = [trying EXCEPT ![s] = NoHost]
           /\ res' = [res EXCEPT ![t] = IF peer'[s] = NoHost THEN "error" ELSE "ok"]
    /\ bg' = [bg EXCEPT ![t] = "end"]
    /\ bgSock' = [bgSock EXCEPT ![t] = 0]
    /\ UNCHANGED <<fdTable, nextSock, callVars, state, bgFd, stray>>

(* Mutant of JobEnds: the thread ends without a word to who waits.         *)
JobEndsUntold(t) ==
    /\ bg[t] = "end"
    /\ bg' = [bg EXCEPT ![t] = "none"]
    /\ UNCHANGED <<kernelVars, callVars, state, bgFd, bgSock, res, stray>>

JobEnds(t) ==
    /\ bg[t] = "end"
    /\ bg' = [bg EXCEPT ![t] = "none"]
    /\ state' = [state EXCEPT ![t] = "Done"]
    /\ UNCHANGED <<kernelVars, callVars, bgFd, bgSock, res, stray>>

Job(t) == JobStarts(t) \/ JobCalls(t) \/ JobReturns(t) \/ JobEnds(t)

=============================================================================
