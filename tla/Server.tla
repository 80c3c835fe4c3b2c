------------------------------- MODULE Server -------------------------------
(***************************************************************************)
(* HTTP::Server (Server.cpp) and the lifecycle of its connections: accept, *)
(* the one second step, the WebSocket hand-over, and Stop() against the    *)
(* single thread that runs every handler.                                  *)
(*                                                                         *)
(* One action is one handler invocation (the io_context has one thread),   *)
(* or one step of the thread that calls Run() and Stop().  An asynchronous *)
(* operation is "none", "pending", or completed with the outcome its       *)
(* handler will see: a completed operation is queued and cannot be         *)
(* cancelled any more, which is what makes stopping hard.                  *)
(*                                                                         *)
(* A connection is one address of the heap; a deleted one may be reused.   *)
(***************************************************************************)
EXTENDS Naturals, FiniteSets

CONSTANTS Conns,         \* addresses for connection objects
          None,          \* nullptr
          MaxSilentTime, \* Config::Connection::MaxSilentTime, in steps
          MaxAccepts,    \* bound on the connections clients open
          MaxResponses   \* bound on the responses served

ASSUME ServerAssumption ==
  /\ IsFiniteSet(Conns) /\ None \notin Conns
  /\ MaxSilentTime \in Nat /\ MaxAccepts \in Nat /\ MaxResponses \in Nat

VARIABLES
  \* The server object.
  IsRunning, ConnLst, NextConn,
  TotalConnCount, TotalRespCount, BaseRespCount, ConnCount,
  \* The io_context, its thread (RunTh), and the operations of the server.
  thread,          \* "none", "starting", "running" (holds RunMtx), "exited"
  ctxStopped,      \* io_context::stopped()
  accept, timer,   \* the async_accept and the async_wait
  stopPosted,      \* StopInternal() is queued
  caller,          \* where the thread calling Run() and Stop() is
  graceful,        \* RetVal of Stop()
  \* The connection objects.
  alive,           \* those constructed and not yet deleted
  conn,            \* [Conns -> ConnRecord]
  served           \* history: responses counted by any connection

serverVars == <<IsRunning, ConnLst, NextConn, TotalConnCount, TotalRespCount,
                BaseRespCount, ConnCount>>
ctxVars == <<thread, ctxStopped, accept, timer, stopPosted, caller,
             graceful>>
connVars == <<alive, conn, served>>
vars == <<serverVars, ctxVars, connVars>>

ConnRecord == [
  ws   : BOOLEAN,                 \* a WebSocket connection
  busy : BOOLEAN,                 \* coroutine running, resp. operations
                                  \*   outstanding (~IsDeletable, ~SAFE_ALL)
  handler : BOOLEAN,              \* WebSocket: MyHandler # nullptr
  open : BOOLEAN,                 \* MySock is open
  SilentTime : 0 .. MaxSilentTime + 1,
  ResponseCount : 0 .. MaxResponses,
  NextConn : Conns \union {None}] \* the upgraded connection waiting for OnStep

\* Constructors: Connection::Connection(), and WebSocket::Connection(), which
\* starts to read at once.
NewHttp == [ws |-> FALSE, busy |-> FALSE, handler |-> FALSE, open |-> TRUE,
            SilentTime |-> 0, ResponseCount |-> 0, NextConn |-> None]
NewWs(isOpen) == [NewHttp EXCEPT !.ws = TRUE, !.busy = TRUE, !.handler = TRUE,
                                 !.open = isOpen]

Free == Conns \ alive
Handling == thread = "running" /\ ~ctxStopped

Init ==
  /\ IsRunning = FALSE /\ ConnLst = {} /\ NextConn = None
  /\ TotalConnCount = 0 /\ TotalRespCount = 0
  /\ BaseRespCount = 0 /\ ConnCount = 0
  /\ thread = "none" /\ ctxStopped = FALSE
  /\ accept = "none" /\ timer = "none" /\ stopPosted = FALSE
  /\ caller = "idle" /\ graceful = TRUE
  /\ alive = {} /\ conn = [c \in Conns |-> NewHttp] /\ served = 0

-----------------------------------------------------------------------------
(* The operations of the io_context.                                       *)

\* RestartAccept() with NextConn=next before the call, and the objects that
\* are alive then: creates the connection the next client will get.
RestartAccept(running, next, objects) ==
  IF ~running
    THEN /\ NextConn' = next /\ accept' = "none" /\ alive' = objects
         /\ UNCHANGED conn
  ELSE IF next # None
    THEN /\ NextConn' = next /\ accept' = "pending" /\ alive' = objects
         /\ UNCHANGED conn
  ELSE \E c \in Conns \ objects :
         /\ NextConn' = c /\ accept' = "pending" /\ alive' = objects \union {c}
         /\ conn' = [conn EXCEPT ![c] = NewHttp]

RestartTimerNever(running) == timer' = "none"      \* a slip: not re-armed
RestartTimer(running) == timer' = IF running THEN "pending" ELSE "none"

\* A client arrives, or accept() fails.  Bounds: MaxAccepts, and a free address
\* for the connection object that follows.
AcceptCompletes(outcome) ==
  /\ accept = "pending"
  /\ outcome = "ok" => TotalConnCount < MaxAccepts /\ Free # {}
  /\ accept' = outcome
  /\ UNCHANGED <<serverVars, thread, ctxStopped, timer, stopPosted, caller,
                 graceful, connVars>>

TimerExpires ==
  /\ timer = "pending"
  /\ timer' = "ok"
  /\ UNCHANGED <<serverVars, thread, ctxStopped, accept, stopPosted, caller,
                 graceful, connVars>>

-----------------------------------------------------------------------------
(* Handlers of the server.                                                 *)

\* NextConn->Start(): IsDeletable=false, and the coroutine is spawned.
OnAcceptStarted ==
  /\ Handling /\ accept = "ok"
  /\ TotalConnCount' = TotalConnCount + 1
  /\ ConnLst' = ConnLst \union {NextConn}
  /\ LET started == [conn EXCEPT ![NextConn].busy = TRUE] IN
     IF IsRunning
       THEN \E c \in Free :
              /\ NextConn' = c /\ alive' = alive \union {c}
              /\ conn' = [started EXCEPT ![c] = NewHttp]
              /\ accept' = "pending"
       ELSE /\ NextConn' = None /\ conn' = started /\ accept' = "none"
            /\ UNCHANGED alive
  /\ UNCHANGED <<IsRunning, TotalRespCount, BaseRespCount, ConnCount, thread,
                 ctxStopped, timer, stopPosted, caller, graceful, served>>

\* The connection filter refuses the client: closed and deleted.
OnAcceptRefused ==
  /\ Handling /\ accept = "ok"
  /\ RestartAccept(IsRunning, None, alive \ {NextConn})
  /\ UNCHANGED <<IsRunning, ConnLst, TotalConnCount, TotalRespCount,
                 BaseRespCount, ConnCount, thread, ctxStopped, timer,
                 stopPosted, caller, graceful, served>>

\* Also the abort by MyAcceptor.close(): NextConn is kept.
OnAcceptError ==
  /\ Handling /\ accept \in {"error", "aborted"}
  /\ RestartAccept(IsRunning, NextConn, alive)
  /\ UNCHANGED <<IsRunning, ConnLst, TotalConnCount, TotalRespCount,
                 BaseRespCount, ConnCount, thread, ctxStopped, timer,
                 stopPosted, caller, graceful, served>>

\* OnStep() of one connection.  An HTTP connection that hands its successor
\* over times out at once.
TimesOut(c) == conn[c].NextConn # None \/ conn[c].SilentTime + 1 > MaxSilentTime
StaysIfTimedIn(c) == ~TimesOut(c)                 \* a slip: coroutine ignored
Stays(c) ==
  \/ conn[c].busy
  \/ ~TimesOut(c) /\ (conn[c].ws => conn[c].handler)
Stepped(c) ==
  [conn[c] EXCEPT
     !.NextConn = None,
     !.SilentTime = IF TimesOut(c) THEN MaxSilentTime + 1 ELSE @ + 1,
     !.open = @ /\ ~TimesOut(c),
     !.handler = @ /\ ~TimesOut(c)]

\* The sum of ResponseCount: as many pairs of a connection and a number up to it.
Counted(objects, cs) ==
  {p \in cs \X (1 .. MaxResponses) : p[2] <= objects[p[1]].ResponseCount}
Responses(cs) == Cardinality(Counted(conn, cs))
HandedOverByKept ==                                \* a slip: lost on deletion
  {conn[c].NextConn : c \in {d \in ConnLst : Stays(d)}} \ {None}
HandedOver == {conn[c].NextConn : c \in ConnLst} \ {None}
BaseAfterStepLost(kept) == BaseRespCount           \* a slip: not added
BaseAfterStepAll(kept) ==                          \* a slip: kept ones, too
  BaseRespCount + Responses(ConnLst)
BaseAfterStep(kept) == BaseRespCount + Responses(ConnLst \ kept)

OnTimer ==
  LET kept == {c \in ConnLst : Stays(c)} IN
  /\ Handling /\ timer = "ok"
  /\ ConnLst' = kept \union HandedOver
  /\ alive' = alive \ (ConnLst \ kept)
  /\ conn' = [c \in Conns |-> IF c \in ConnLst THEN Stepped(c) ELSE conn[c]]
  /\ BaseRespCount' = BaseAfterStep(kept)
  /\ TotalRespCount' = BaseAfterStep(kept) + Responses(kept)
  /\ ConnCount' = Cardinality(kept)
  /\ RestartTimer(IsRunning)
  /\ UNCHANGED <<IsRunning, NextConn, TotalConnCount, thread, ctxStopped,
                 accept, stopPosted, caller, graceful, served>>

OnTimerAborted ==
  /\ Handling /\ timer = "aborted"
  /\ timer' = "none"
  /\ UNCHANGED <<serverVars, thread, ctxStopped, accept, stopPosted, caller,
                 graceful, connVars>>

\* Stop() of one connection: an HTTP connection closes its own socket only,
\* which it no longer has once it was upgraded; a WebSocket connection ends
\* its handler, too.
Stopped(c) == [conn[c] EXCEPT !.open = FALSE, !.handler = FALSE]

StopInternal ==
  /\ Handling /\ stopPosted
  /\ stopPosted' = FALSE
  /\ IsRunning' = FALSE
  /\ accept' = IF accept = "pending" THEN "aborted" ELSE accept
  /\ timer' = IF timer = "pending" THEN "aborted" ELSE timer
  /\ conn' = [c \in Conns |-> IF c \in ConnLst THEN Stopped(c) ELSE conn[c]]
  /\ UNCHANGED <<ConnLst, NextConn, TotalConnCount, TotalRespCount,
                 BaseRespCount, ConnCount, thread, ctxStopped, caller, graceful,
                 alive, served>>

-----------------------------------------------------------------------------
(* Handlers of the connections.                                            *)

ConnStep(c) == Handling /\ c \in alive /\ conn[c].busy
ConnFrame == UNCHANGED <<serverVars, ctxVars>>

\* The coroutine, or a WebSocket, reads or writes something.
Progress(c) ==
  /\ ConnStep(c) /\ conn[c].open
  /\ conn' = [conn EXCEPT ![c].SilentTime = 0]
  /\ UNCHANGED <<alive, served>> /\ ConnFrame

\* ResponseHandler() of a request that does not upgrade.
Respond(c) ==
  /\ ConnStep(c) /\ ~conn[c].ws /\ served < MaxResponses
  /\ conn' = [conn EXCEPT ![c].ResponseCount = @ + 1, ![c].SilentTime = 0]
  /\ served' = served + 1
  /\ UNCHANGED alive /\ ConnFrame

\* IResponse::Upgrade(): the socket moves to the WebSocket connection, and the
\* coroutine ends without suspending again.  Bound: a free address, besides
\* the one OnAccept may need.
Upgrade(c) ==
  /\ ConnStep(c) /\ ~conn[c].ws /\ served < MaxResponses
  /\ served' = served + 1
  /\ accept = "ok" => Cardinality(Free) > 1
  /\ \E w \in Free :
       /\ conn' = [conn EXCEPT
                     ![c].ResponseCount = @ + 1, ![c].busy = FALSE,
                     ![c].open = FALSE, ![c].NextConn = w,
                     ![w] = NewWs(conn[c].open)]
       /\ alive' = alive \union {w}
  /\ ConnFrame

\* The coroutine ends (keep-alive over, an error, a closed socket); a WebSocket
\* has lost its last operation.
Finish(c) ==
  /\ ConnStep(c)
  /\ conn' = [conn EXCEPT ![c].busy = FALSE, ![c].handler = FALSE,
                          ![c].open = @ /\ conn[c].ws]
  /\ UNCHANGED <<alive, served>> /\ ConnFrame

\* A WebSocket closed by a close frame goes on reading without a handler.
HandlerClosed(c) ==
  /\ ConnStep(c) /\ conn[c].handler
  /\ conn' = [conn EXCEPT ![c].handler = FALSE]
  /\ UNCHANGED <<alive, served>> /\ ConnFrame

-----------------------------------------------------------------------------
(* The background thread, and the thread that calls Run() and Stop().      *)

Run ==
  /\ caller = "idle" /\ thread = "none"
  /\ IsRunning' = TRUE
  /\ RestartAccept(TRUE, NextConn, alive)
  /\ RestartTimer(TRUE)
  /\ thread' = "starting"
  /\ UNCHANGED <<ConnLst, TotalConnCount, TotalRespCount, BaseRespCount,
                 ConnCount, ctxStopped, stopPosted, caller, graceful, served>>

\* ProcessThread() locks RunMtx and enters io_context::run().
ThreadStarts ==
  /\ thread = "starting"
  /\ thread' = "running"
  /\ UNCHANGED <<serverVars, ctxStopped, accept, timer, stopPosted, caller,
                 graceful, connVars>>

\* run() returns when it was stopped or has nothing left to wait for.
WorkLeft ==
  \/ accept # "none" \/ timer # "none" \/ stopPosted
  \/ \E c \in alive : conn[c].busy
ThreadExits ==
  /\ thread = "running"
  /\ ctxStopped \/ ~WorkLeft
  /\ thread' = "exited" /\ ctxStopped' = TRUE
  /\ UNCHANGED <<serverVars, accept, timer, stopPosted, caller, graceful,
                 connVars>>

StopCalled ==
  /\ caller = "idle" /\ thread # "none"
  /\ caller' = "locking" /\ stopPosted' = TRUE
  /\ UNCHANGED <<serverVars, thread, ctxStopped, accept, timer, graceful,
                 connVars>>

\* RunMtx.try_lock_for(Timeout) gets the mutex and Stop() unlocks it again:
\* the thread has left run(), or has not yet locked the mutex.
StopLocked ==
  /\ caller = "locking" /\ thread # "running"
  /\ caller' = "joining" /\ graceful' = TRUE
  /\ UNCHANGED <<serverVars, thread, ctxStopped, accept, timer, stopPosted,
                 connVars>>

\* Timed out: MyIOS.stop(), and one more second for the mutex.
StopForced ==
  /\ caller = "locking" /\ thread = "running"
  /\ caller' = "joining" /\ ctxStopped' = TRUE /\ graceful' = FALSE
  /\ UNCHANGED <<serverVars, thread, accept, timer, stopPosted, connVars>>

\* RunTh->join() returns; every listed connection, and what it has not handed
\* over, is deleted, then NextConn, which is dereferenced unchecked.
StopJoined ==
  /\ caller = "joining" /\ thread = "exited"
  /\ caller' = IF NextConn = None THEN "crashed" ELSE "returned"
  /\ thread' = "none"
  /\ alive' = alive \ (ConnLst \union HandedOver \union {NextConn})
  /\ ConnLst' = {} /\ NextConn' = None
  /\ UNCHANGED <<IsRunning, TotalConnCount, TotalRespCount, BaseRespCount,
                 ConnCount, ctxStopped, accept, timer, stopPosted,
                 graceful, conn, served>>

-----------------------------------------------------------------------------
ServerHandler ==
  \/ OnAcceptStarted \/ OnAcceptRefused \/ OnAcceptError
  \/ OnTimer \/ OnTimerAborted \/ StopInternal

ConnHandler(c) ==
  \/ Progress(c) \/ Respond(c) \/ Upgrade(c) \/ Finish(c) \/ HandlerClosed(c)

StopStep == StopLocked \/ StopForced \/ StopJoined

Next ==
  \/ \E outcome \in {"ok", "error"} : AcceptCompletes(outcome)
  \/ TimerExpires
  \/ ServerHandler
  \/ \E c \in Conns : ConnHandler(c)
  \/ Run \/ ThreadStarts \/ ThreadExits
  \/ StopCalled \/ StopStep

\* The io_context runs every handler that is queued, the timer expires, an
\* operation on a closed socket completes, and the calling thread is scheduled.
\* Nothing makes a client arrive, speak or close, or Run() and Stop() be called.
Fairness ==
  /\ WF_vars(TimerExpires) /\ WF_vars(ThreadStarts) /\ WF_vars(ThreadExits)
  /\ WF_vars(OnAcceptStarted \/ OnAcceptRefused \/ OnAcceptError)
  /\ WF_vars(OnTimer \/ OnTimerAborted) /\ WF_vars(StopInternal)
  /\ \A c \in Conns : WF_vars(Finish(c) /\ ~conn[c].open)
  /\ WF_vars(StopLocked \/ StopForced) /\ WF_vars(StopJoined)

Spec == Init /\ [][Next]_vars /\ Fairness

-----------------------------------------------------------------------------
\* Every variable keeps its type; no counter exceeds what clients have done.
TypeOK ==
  /\ IsRunning \in BOOLEAN /\ ConnLst \subseteq Conns
  /\ NextConn \in Conns \union {None}
  /\ TotalConnCount \in 0 .. MaxAccepts
  /\ {TotalRespCount, BaseRespCount, served} \subseteq 0 .. MaxResponses
  /\ ConnCount \in 0 .. Cardinality(Conns)
  /\ thread \in {"none", "starting", "running", "exited"}
  /\ {ctxStopped, stopPosted, graceful} \subseteq BOOLEAN
  /\ accept \in {"none", "pending", "ok", "error", "aborted"}
  /\ timer \in {"none", "pending", "ok", "aborted"}
  /\ caller \in {"idle", "locking", "joining", "returned", "crashed"}
  /\ alive \subseteq Conns /\ conn \in [Conns -> ConnRecord]

\* Every connection object has exactly one owner: the list, the accept in
\* progress, or the listed connection that was upgraded to it.  So nothing
\* leaks, is deleted twice, or is reached after its deletion.
OneOwner ==
  /\ alive = (ConnLst \union HandedOver \union {NextConn}) \ {None}
  /\ NextConn \notin ConnLst \union HandedOver
  /\ ConnLst \intersect HandedOver = {}
  /\ \A c, d \in ConnLst :
        conn[c].NextConn = conn[d].NextConn /\ c # d => conn[c].NextConn = None

\* A connection is deleted only when its coroutine has ended, resp. none of its
\* operations is outstanding, as their handlers use it.  Only a Stop() that
\* returns false deletes what still runs, when no handler will run any more.
DeletedWhenQuiet ==
  [][\A c \in alive \ alive' :
       conn[c].busy => caller = "joining" /\ ~graceful]_vars

\* No response is lost or counted twice when its connection is deleted or
\* hands its socket over, until Stop() drops the list.
ResponsesAccounted ==
  caller \notin {"returned", "crashed"} =>
    BaseRespCount + Responses(ConnLst) = served

\* While the server runs, a listed connection moves data again and again, or is
\* deleted: MaxSilentTime catches every peer that went away.
SilentIsDeleted ==
  \A c \in Conns :
    \/ []<>(c \notin ConnLst \/ ~IsRunning \/ ctxStopped)
    \/ []<><<Progress(c) \/ Respond(c)>>_vars

\* An upgraded connection reaches the list, where it is stepped, although the
\* connection that holds it is deleted by the same step.
UpgradeIsListed ==
  \A w \in Conns :
    (\E c \in ConnLst : conn[c].NextConn = w)
      ~> w \in ConnLst \/ ~IsRunning \/ ctxStopped

-----------------------------------------------------------------------------
\* README.md:56 "Stop the server, allowing 4 seconds for the background thread
\* to exit.": the call returns, whatever the clients do.  It neither waits in
\* join() for ever nor ends in the dereference of a null NextConn.
StopReturns == caller = "locking" ~> caller = "returned"
=============================================================================
