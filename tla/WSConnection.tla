---------------------------- MODULE WSConnection ----------------------------
(***************************************************************************)
(* HTTP::WebSocket::Connection (WSConnection.cpp): one WebSocket between   *)
(* its peer, the server thread that runs every handler, the step timer,    *)
(* and the thread of the message handler (IMsgHandler), which sends        *)
(* through IMsgSender whenever it likes while it holds the send mutex.     *)
(*                                                                         *)
(* One action is one handler of the io_context, or one critical section of *)
(* the message handler.  A frame is its opcode, its FIN flag and whether   *)
(* it exceeds MaxFrameSize; it comes in two parts, the one that tells its  *)
(* length and the rest.  WriteBuffQueue is reduced to the numbers of the   *)
(* blocks Pop() hands out: blocks 1..released are released, the next ones  *)
(* up to popped are being written, and waiting more can be popped.         *)
(***************************************************************************)
EXTENDS Naturals, Sequences, FiniteSets

CONSTANTS Frames,        \* the frames a peer sends, a subset of Frame
          MaxRead,       \* bound on the frame parts one read returns
          MaxFragments,  \* Config::MaxFragmentedSize, in fragments
          MaxEvents,     \* bound on the frames and the calls of the message
                         \*   handler, together
          MaxSilentTime  \* Config::MaxSilentTime, in steps

Opcodes == {"CONTINUATION", "TEXT", "CLOSE", "PING", "PONG", "UNKNOWN"}
Frame == [op : Opcodes, fin : BOOLEAN, huge : BOOLEAN]
IsControl(f) == f.op \notin {"CONTINUATION", "TEXT"}

ASSUME WSAssumption ==
  /\ Frames \subseteq Frame
  /\ MaxRead \in Nat /\ MaxFragments \in Nat
  /\ MaxEvents \in Nat /\ MaxSilentTime \in Nat

VARIABLES
  SafeRead, SafeWrite,   \* the bits of SafeStates
  SilentTime,
  frag,          \* FragMsgData, as indices of frames; FragOpCode is
                 \*   OCN_CONTINUATION iff it is empty
  handler,       \* MyHandler # nullptr
  open,          \* MySock.is_open()
  parsed,        \* number of frames consumed from ReadBuff
  arrived,       \* number of frame parts ever read into ReadBuff
  waiting, popped, released,   \* blocks of WriteBuff, see above
  \* The io_context.
  readOp,        \* async_read_some: "none", "pending", "ok", "error"
  ops,           \* async_writes: [block, outcome], "pending", "ok" or "error"
  posts,         \* posted StartAsyncWrite[Close]External calls
  \* The object and its user.
  life,          \* "alive", "deleted", or "crashed": null MyHandler used
  stopped,       \* the server has stopped: no more steps
  \* History.
  stream,        \* the frames whose first part has arrived
  delivered,     \* arguments of OnMessage(), as indices of frames
  told,          \* number of OnClose() calls
  closedSelf,    \* the message handler has called Close()
  sends,         \* number of calls of the message handler
  split          \* a StartAsyncWrite() has popped more than one block

readVars  == <<frag, parsed, arrived, stream, delivered>>
writeVars == <<SafeWrite, waiting, popped, released, ops, split>>
userVars  == <<posts, closedSelf, sends>>
vars == <<SafeRead, SilentTime, handler, open, readOp, life, stopped, told,
          readVars, writeVars, userVars>>

Init ==
  /\ SafeRead = FALSE /\ SafeWrite = TRUE /\ SilentTime = 0
  /\ frag = << >> /\ handler = TRUE /\ open = TRUE
  /\ parsed = 0 /\ arrived = 0
  /\ waiting = 0 /\ popped = 0 /\ released = 0
  /\ readOp = "pending" /\ ops = {} /\ posts = << >>
  /\ life = "alive" /\ stopped = FALSE
  /\ stream = << >> /\ delivered = << >> /\ told = 0
  /\ closedSelf = FALSE /\ sends = 0 /\ split = FALSE

-----------------------------------------------------------------------------
(* Sending.                                                                *)

\* The numbers of waiting blocks after a Commit(): it may extend the last one.
Committed(n) == IF n = 0 THEN {1} ELSE {n, n + 1}

MayWriteAlways(safe) == TRUE                 \* a slip: SAFE_WRITE not looked at
MayWrite(safe) == safe

PoppedAfterStuck(n) == popped                \* a slip: FirstPendingI not moved
PoppedAfter(n) == popped + n

\* StartAsyncWrite(), with SAFE_WRITE as given, when n blocks wait and old are
\* the operations outstanding: every block is popped, and gets an async_write of its own,
\* whose state is then one of first.
StartAsyncWrite(safe, n, old, first) ==
  IF MayWrite(safe) /\ n > 0
    THEN /\ SafeWrite' = FALSE /\ waiting' = 0 /\ popped' = PoppedAfter(n)
         /\ \E f \in [popped + 1 .. popped + n -> first] :
              ops' = old \union {[block |-> b, outcome |-> f[b]] : b \in DOMAIN f}
         /\ split' = (split \/ n > 1)
    ELSE /\ SafeWrite' = safe /\ waiting' = n /\ ops' = old
         /\ UNCHANGED <<popped, split>>

\* SendControlFrame() or SendCloseInternal(), and StartAsyncWrite(): an
\* Allocate() always succeeds (the heap is not exhausted).
FirstOutcome == {IF open THEN "pending" ELSE "error"}
SendNow ==
  \E n \in Committed(waiting) : StartAsyncWrite(SafeWrite, n, ops, FirstOutcome)

\* The operations as the closing of the socket leaves them.
Aborted(os) ==
  {[o EXCEPT !.outcome = IF @ = "pending" THEN "error" ELSE @] : o \in os}
AbortedRead == IF readOp = "pending" THEN "error" ELSE readOp

\* Calls of OnClose() by "if (MyHandler) { OnClose(); MyHandler=nullptr; }".
ToldEvenIfNone == told + 1                   \* a slip: MyHandler not tested
ToldClose == told + (IF handler THEN 1 ELSE 0)

-----------------------------------------------------------------------------
(* Receiving.                                                              *)

\* ProcessFrame() of the data frame number k, f: the message it completes, if
\* any, and FragMsgData after it.
IsFragment(f) == frag # << >> /\ f.op = "CONTINUATION"
IsFirst(f) == frag = << >> /\ f.op # "CONTINUATION"
FragAfterKept(f, k) ==                       \* a slip: not cleared
  IF IsFragment(f) THEN Append(frag, k) ELSE <<k>>
FragAfter(f, k) ==
  IF f.fin THEN << >> ELSE IF IsFragment(f) THEN Append(frag, k) ELSE <<k>>
Message(f, k) == IF IsFragment(f) THEN Append(frag, k) ELSE <<k>>

\* What ProcessFrame() returns: CR_NONE, or the reason to close for.
ReasonOf(f) ==
  IF IsControl(f)
    THEN IF f.fin /\ f.op # "UNKNOWN" THEN "NONE" ELSE "PROT_ERROR"
  ELSE IF ~IsFragment(f) /\ ~IsFirst(f) THEN "PROT_ERROR"
  ELSE IF IsFragment(f) /\ Len(frag) + 1 > MaxFragments THEN "SIZE_LIMIT"
  ELSE "NONE"

\* The ends of OnRead(): another read, or OnProtocolError() and SAFE_READ.
ReadOn ==
  /\ readOp' = (IF open THEN "pending" ELSE "error")
  /\ UNCHANGED SafeRead
EndAfterError ==
  /\ told' = ToldClose /\ handler' = FALSE
  /\ SafeRead' = TRUE /\ readOp' = "none"
  /\ IF handler THEN SendNow ELSE UNCHANGED <<SafeWrite, waiting, popped, ops, split>>
  /\ UNCHANGED <<released, life>>

\* ProcessFrame() of the frame number k, f, and the end of OnRead().
DataFrame(f, k) ==
  /\ ~IsControl(f) /\ ReasonOf(f) = "NONE"
  /\ frag' = FragAfter(f, k)
  /\ IF f.fin /\ ~handler
       THEN life' = "crashed" /\ UNCHANGED delivered
       ELSE /\ delivered' = IF f.fin THEN Append(delivered, Message(f, k))
                                     ELSE delivered
            /\ UNCHANGED life
  /\ ReadOn
  /\ UNCHANGED <<told, handler, writeVars>>

PongFrame(f) ==
  /\ f.op = "PONG" /\ f.fin
  /\ ReadOn
  /\ UNCHANGED <<told, handler, life, frag, delivered, writeVars>>

PingFrame(f) ==
  /\ f.op = "PING" /\ f.fin
  /\ SendNow /\ ReadOn
  /\ UNCHANGED <<told, handler, life, frag, delivered, released>>

\* The connection goes on reading, until its peer closes the socket.
CloseFrame(f) ==
  /\ f.op = "CLOSE" /\ f.fin
  /\ told' = ToldClose /\ handler' = FALSE
  /\ IF handler THEN SendNow ELSE UNCHANGED <<SafeWrite, waiting, popped, ops, split>>
  /\ ReadOn
  /\ UNCHANGED <<life, frag, delivered, released>>

BadFrame(f) ==
  /\ ReasonOf(f) # "NONE"
  /\ EndAfterError
  /\ UNCHANGED <<frag, delivered>>

\* ProcessIncoming(), when s has arrived in n parts: at most one frame.
ProcessIncoming(s, n) ==
  LET k == parsed + 1
      Parts == n - 2 * parsed     \* of the first frame, and more
  IN
  \/ /\ Parts = 0 \/ (Parts = 1 /\ ~s[k].huge)
     /\ ReadOn
     /\ UNCHANGED <<parsed, frag, delivered, told, handler, life, writeVars>>
  \/ /\ Parts > 0 /\ s[k].huge
     /\ EndAfterError
     /\ UNCHANGED <<parsed, frag, delivered>>
  \/ /\ Parts > 1 /\ ~s[k].huge
     /\ parsed' = k
     /\ \/ DataFrame(s[k], k) \/ PongFrame(s[k]) \/ PingFrame(s[k])
        \/ CloseFrame(s[k]) \/ BadFrame(s[k])

FramesIn(parts) == (parts + 1) \div 2

OnRead ==
  /\ life = "alive" /\ readOp = "ok"
  /\ SilentTime' = 0
  /\ \E n \in 0 .. MaxRead :
       /\ FramesIn(arrived + n) + sends <= MaxEvents
       /\ arrived' = arrived + n
       /\ \E new \in [1 .. FramesIn(arrived + n) - FramesIn(arrived) -> Frames] :
            /\ stream' = stream \o new
            /\ ProcessIncoming(stream \o new, arrived + n)
  /\ UNCHANGED <<open, stopped, userVars>>

SafeReadAtEndNever == FALSE                  \* a slip: SAFE_READ not set
SafeReadAtEnd == TRUE

OnReadError ==
  /\ life = "alive" /\ readOp = "error"
  /\ SafeRead' = SafeReadAtEnd /\ readOp' = "none"
  /\ told' = ToldClose /\ handler' = FALSE
  /\ UNCHANGED <<SilentTime, open, life, stopped, readVars, writeVars, userVars>>

\* The bytes are in ReadBuff, resp. the write is over, and the handler is queued.
ReadCompletes(outcome) ==
  /\ life = "alive" /\ readOp = "pending"
  /\ readOp' = outcome
  /\ UNCHANGED <<SafeRead, SilentTime, handler, open, life, stopped, told,
                 readVars, writeVars, userVars>>

WriteCompletes(o, outcome) ==
  /\ life = "alive" /\ o.outcome = "pending"
  /\ ops' = (ops \ {o}) \union {[o EXCEPT !.outcome = outcome]}
  /\ UNCHANGED <<SafeRead, SilentTime, handler, open, readOp, life, stopped,
                 told, readVars, SafeWrite, waiting, popped, released, split,
                 userVars>>

OnWrite(o) ==
  /\ life = "alive" /\ o.outcome = "ok"
  /\ released' = released + 1
  /\ StartAsyncWrite(TRUE, waiting, ops \ {o}, FirstOutcome)
  /\ UNCHANGED <<SafeRead, SilentTime, handler, open, readOp, life, stopped,
                 told, readVars, userVars>>

OnWriteError(o) ==
  /\ life = "alive" /\ o.outcome = "error"
  /\ SafeWrite' = TRUE /\ ops' = ops \ {o}
  /\ told' = ToldClose /\ handler' = FALSE
  /\ UNCHANGED <<SafeRead, SilentTime, open, readOp, life, stopped, readVars,
                 waiting, popped, released, split, userVars>>

-----------------------------------------------------------------------------
(* The message handler.  It stops sending when OnClose() is called, and after *)
(* its own Close().                                                           *)

MaySend == told = 0 /\ ~closedSelf /\ Len(stream) + sends < MaxEvents

\* Allocate() and Send(), or SendPing(), with the send mutex held.
Send ==
  /\ MaySend /\ life = "alive"
  /\ waiting' \in Committed(waiting)
  /\ posts' = Append(posts, "write") /\ sends' = sends + 1
  /\ UNCHANGED <<SafeRead, SilentTime, handler, open, readOp, life, stopped,
                 told, readVars, SafeWrite, popped, released, ops, split,
                 closedSelf>>

Close ==
  /\ MaySend /\ life = "alive"
  /\ waiting' \in Committed(waiting)
  /\ posts' = Append(posts, "close") /\ sends' = sends + 1
  /\ closedSelf' = TRUE
  /\ UNCHANGED <<SafeRead, SilentTime, handler, open, readOp, life, stopped,
                 told, readVars, SafeWrite, popped, released, ops, split>>

\* StartAsyncWriteExternal(), StartAsyncWriteCloseExternal().
RunPost ==
  /\ life = "alive" /\ posts # << >>
  /\ posts' = Tail(posts)
  /\ handler' = (handler /\ Head(posts) # "close")
  /\ StartAsyncWrite(SafeWrite, waiting, ops, FirstOutcome)
  /\ UNCHANGED <<SafeRead, SilentTime, open, readOp, life, stopped, told,
                 readVars, released, closedSelf, sends>>

-----------------------------------------------------------------------------
(* The server.                                                             *)

DeletableIfUnread == SafeRead                \* a slip: writes forgotten
Deletable == SafeRead /\ SafeWrite

LifeAfterStep == IF Deletable THEN "deleted" ELSE "alive"

OnStepInTime ==
  /\ SilentTime + 1 <= MaxSilentTime
  /\ life' = IF handler THEN "alive" ELSE LifeAfterStep
  /\ UNCHANGED <<handler, told, open, readOp, ops>>

ToldAtTimeout == ToldClose
OnStepTimeout ==
  /\ SilentTime + 1 > MaxSilentTime
  /\ told' = ToldAtTimeout /\ handler' = FALSE
  /\ open' = FALSE /\ readOp' = AbortedRead /\ ops' = Aborted(ops)
  /\ life' = LifeAfterStep

\* Bound: time does not go on once it is over.
OnStep ==
  /\ life = "alive" /\ ~stopped
  /\ SilentTime' = IF SilentTime > MaxSilentTime THEN SilentTime
                                                  ELSE SilentTime + 1
  /\ OnStepInTime \/ OnStepTimeout
  /\ UNCHANGED <<SafeRead, stopped, readVars, SafeWrite, waiting, popped,
                 released, split, userVars>>

\* OnProtocolError(CR_EXIT), and the socket is closed: what is not sent at once
\* is aborted.
Stop ==
  /\ life = "alive" /\ ~stopped
  /\ stopped' = TRUE
  /\ told' = ToldClose /\ handler' = FALSE
  /\ open' = FALSE /\ readOp' = AbortedRead
  /\ IF handler
       THEN \E n \in Committed(waiting) :
              StartAsyncWrite(SafeWrite, n, Aborted(ops), {"ok", "error"})
       ELSE /\ ops' = Aborted(ops)
            /\ UNCHANGED <<SafeWrite, waiting, popped, split>>
  /\ UNCHANGED <<SafeRead, SilentTime, life, released, readVars, userVars>>

-----------------------------------------------------------------------------
Next ==
  \/ \E outcome \in {"ok", "error"} :
        \/ ReadCompletes(outcome)
        \/ \E o \in ops : WriteCompletes(o, outcome)
  \/ OnRead \/ OnReadError
  \/ \E o \in ops : OnWrite(o) \/ OnWriteError(o)
  \/ Send \/ Close \/ RunPost
  \/ OnStep \/ Stop

\* The io_context runs the handlers that are queued, and the server steps the
\* connection every second.  Nothing makes the peer send, read or close.
Fairness ==
  /\ WF_vars(OnRead) /\ WF_vars(OnReadError) /\ WF_vars(RunPost)
  /\ WF_vars(\E o \in ops : OnWrite(o)) /\ WF_vars(\E o \in ops : OnWriteError(o))
  /\ WF_vars(OnStep)

Spec == Init /\ [][Next]_vars /\ Fairness

-----------------------------------------------------------------------------
\* Every variable keeps its type, and no write is started or released twice.
TypeOK ==
  /\ {SafeRead, SafeWrite, handler, open, stopped, closedSelf, split}
       \subseteq BOOLEAN
  /\ SilentTime \in 0 .. MaxSilentTime + 1
  /\ parsed \in 0 .. MaxEvents /\ arrived \in 0 .. 2 * MaxEvents
  /\ frag \in Seq(1 .. MaxEvents) /\ stream \in Seq(Frames)
  /\ delivered \in Seq(Seq(1 .. MaxEvents))
  /\ waiting \in Nat /\ popped \in Nat /\ released \in 0 .. popped
  /\ readOp \in {"none", "pending", "ok", "error"}
  /\ ops \subseteq [block : 1 .. popped, outcome : {"pending", "ok", "error"}]
  /\ posts \in Seq({"write", "close"}) /\ sends \in 0 .. MaxEvents
  /\ life \in {"alive", "deleted", "crashed"} /\ told \in Nat

\* The messages handed over are those of the frames that were consumed: each
\* is the unfragmented frame, or the run of fragments from a first frame to the
\* next final one, whatever control frames stand between them.
DataIn(n) == {i \in 1 .. n : ~IsControl(stream[i])}
IsMessage(m) ==
  /\ stream[m[1]].op = "TEXT"
  /\ \A j \in 2 .. Len(m) : stream[m[j]].op = "CONTINUATION"
  /\ \A j \in 1 .. Len(m) : stream[m[j]].fin <=> j = Len(m)
Delivered == {delivered[i] : i \in DOMAIN delivered}
Within(m) == {m[j] : j \in DOMAIN m}
MessagesAssembled ==
  /\ \A m \in Delivered : IsMessage(m)
  /\ \A i, j \in DOMAIN delivered :
        i < j => delivered[i][Len(delivered[i])] < delivered[j][1]
  /\ handler => DataIn(parsed) = UNION {Within(m) : m \in Delivered \union {frag}}

\* The message handler is told once that its connection is over, by whichever
\* of a close frame, an error, a timeout and Stop() comes first, and it is not
\* told later than the connection is deleted: its IMsgSender stays valid.
ToldOnceInTime ==
  /\ told <= 1
  /\ life = "deleted" => told = 1 \/ closedSelf

\* Unless a StartAsyncWrite() popped several blocks, there is one async_write
\* at a time: no two writes mix their bytes on the wire, and Release() does not
\* free the block of another write than the one that is over.
OneWriteAtATime ==
  ~split => Cardinality(ops) <= 1 /\ (\A o \in ops : o.block > released)

\* Under the same condition, and while no posted call is queued, the object is
\* deleted only when none of its handlers can still be called.
DeletedWhenSafe ==
  [][life = "alive" /\ life' = "deleted" /\ ~split /\ posts = << >>
       => readOp = "none" /\ ops = {}]_vars

\* A connection that has timed out is deleted: SafeStates is not stuck.
TimedOutIsDeleted ==
  ~open /\ ~stopped ~> life # "alive" \/ stopped

-----------------------------------------------------------------------------
\* IMsgHandler.h:22 "Called when a new message arrives on the websocket
\* connection.": the connection does not wait for its peer while ReadBuff holds
\* a complete frame.
WaitsForFrameOnly ==
  readOp = "pending" /\ handler => arrived < 2 * (parsed + 1)
=============================================================================
