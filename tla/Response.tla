------------------------------ MODULE Response ------------------------------
(***************************************************************************)
(* How HTTP::Connection::ResponseHandler() sends a response, and the       *)
(* IResponse::Read() of the response sources that ship with the server.    *)
(*                                                                         *)
(* An action is what the coroutine does between two suspensions: it asks   *)
(* the response for a block, hands the block to async_write() and goes on  *)
(* when that is over.  A body is a sequence of cells, numbered from 1;     *)
(* Junk is a cell of the write buffer that Read() did not write to.  There *)
(* is never more than one block in the write queue while the coroutine is  *)
(* suspended, so the queue (module WriteBuffQueue) is the variable block.  *)
(***************************************************************************)
EXTENDS Integers, Sequences, SequencesExt

CONSTANTS WriteBuffSize,            \* BuildConfig::WriteBuffSize
          GzipHeader, GzipFooter,   \* sizes of GZipHeaderA and GzipFooterA
          Responses                 \* what Create() may return

Unknown == -1                       \* GetLength() of a chunked response
Junk == 0

\* source: "string" (StringResponse, and with size 0 a preflight, an upgrade, a
\* 304), "message" (CommonError), "file" (FS), "deflated" and "stored" (Zip),
\* "generated" (CoroResponse), or "redirect" (Combiner::RedirectResponse).  size:
\* cells the string, message, file, archive entry or generator has; length: the
\* length a generator announces.
Sources == {"string", "message", "file", "deflated", "stored", "generated",
            "redirect"}
Response == [source : Sources, size : Nat, length : Nat \union {Unknown},
             upgrades : BOOLEAN]

ASSUME ResponseAssumption ==
  /\ WriteBuffSize \in Nat \ {0, 1}
  /\ GzipHeader \in 1 .. WriteBuffSize /\ GzipFooter \in Nat \ {0}
  /\ Responses \subseteq Response
  /\ \A r \in Responses : /\ r.source = "message" => r.size < WriteBuffSize
                          /\ r.source = "redirect" => r.size = 0

VARIABLES
  phase,       \* of ResponseHandler(): "idle", "headers", "read", "block",
               \*   "final" (the last chunk is written), "end"
  resp,        \* CurrResp
  RespLength,  \* what is left of it, or Unknown
  place,       \* ReadPos, FilePos, CompPos: cells taken from the source
  CState, CStatePos,   \* of Zip::Response
  onDisk,      \* size of the file that is sent
  IsFinished,  \* result of the last Read()
  block,       \* what async_write() is writing of the body
  sent,        \* history: the cells of the body that were written
  RetVal       \* result of ResponseHandler()

sourceVars == <<place, CState, CStatePos>>
respVars == <<phase, resp, RespLength, sourceVars, onDisk, IsFinished, block,
              sent, RetVal>>

Smaller(a, b) == IF a <= b THEN a ELSE b
NoResponse == [source |-> "string", size |-> 0, length |-> 0, upgrades |-> FALSE]

\* GetLength().
Announced(r) ==
  CASE r.source = "deflated" -> GzipHeader + r.size + GzipFooter
    [] r.source = "generated" -> r.length
    [] r.source \in {"message", "redirect"} -> Unknown
    [] OTHER -> r.size

RespInit ==
  /\ phase = "idle" /\ resp = NoResponse /\ RespLength = 0
  /\ place = 0 /\ CState = "CS_HEADER" /\ CStatePos = 0 /\ onDisk = 0
  /\ IsFinished = FALSE /\ block = << >> /\ sent = << >> /\ RetVal = FALSE

-----------------------------------------------------------------------------
(* IResponse::Read(), with TargetBuff of max cells: what it returns, and    *)
(* the cells of TargetBuff as far as OutLength.                             *)

Upto(from, n) == [i \in 1 .. n |-> from + i]

ReadString(max) ==
  LET n == Smaller(max, resp.size - place) IN
  /\ block' = Upto(place, n)
  /\ place' = place + n
  /\ IsFinished' = (place + n >= resp.size)
  /\ UNCHANGED <<CState, CStatePos>>

\* OutLength is not what read() could read; the file may have become shorter.
ReadFile(max) ==
  LET n == Smaller(max, resp.size - place) IN
  /\ block' = [i \in 1 .. n |-> IF place + i <= onDisk THEN place + i ELSE Junk]
  /\ place' = place + n
  /\ IsFinished' = (place + n = resp.size \/ place + n > onDisk)
  /\ UNCHANGED <<CState, CStatePos>>

\* One turn of the loop of Zip::Response::Read(): z is the state, with out the
\* cells in TargetBuff, rem RemLength, and over whether it has returned true.
\* The gzip header fits into max, as ResponseHandler() asks for a whole block.
ZipHeader(z) ==
  [z EXCEPT !.state = "CS_BODY", !.rem = @ - GzipHeader,
            !.out = @ \o Upto(0, GzipHeader)]

\* The end of the entry is where read() has less than it was asked for.
ZipBody(z) ==
  LET count == Smaller(z.rem, resp.size - z.comp)
      first == IF z.state = "CS_BODY" THEN GzipHeader + z.comp ELSE z.comp
      ended == count < z.rem
  IN
  IF ended /\ z.state = "CS_BODYONLY"
    THEN [z EXCEPT !.comp = @ + count, !.over = TRUE]   \* count is forgotten
    ELSE [z EXCEPT !.comp = @ + count, !.rem = @ - count,
                   !.out = @ \o Upto(first, count),
                   !.state = IF ended THEN "CS_FOOTER" ELSE @,
                   !.pos = IF ended THEN 0 ELSE @]

FooterFromStart(z) == 0                      \* a slip: CStatePos not used
FooterFrom(z) == z.pos
ZipFooter(z) ==
  LET n == Smaller(z.rem, GzipFooter - z.pos) IN
  [z EXCEPT !.pos = @ + n, !.rem = @ - n,
            !.out = @ \o Upto(GzipHeader + resp.size + FooterFrom(z), n),
            !.over = (z.pos + n = GzipFooter)]

ZipTurn(z) ==
  IF z.over \/ z.rem = 0 THEN z
  ELSE CASE z.state = "CS_HEADER" -> ZipHeader(z)
         [] z.state = "CS_FOOTER" -> ZipFooter(z)
         [] OTHER -> ZipBody(z)

\* Three turns are enough: no state is entered twice in one call.
ReadZip(max) ==
  LET start == [state |-> CState, pos |-> CStatePos, comp |-> place,
                rem |-> max, out |-> << >>, over |-> FALSE]
      z == ZipTurn(ZipTurn(ZipTurn(start)))
  IN
  /\ block' = z.out
  /\ place' = z.comp /\ CState' = z.state /\ CStatePos' = z.pos
  /\ IsFinished' = z.over

\* The generator writes as much as it likes, and nothing when it is at its end.
ReadGenerated(max) ==
  \E n \in 1 .. Smaller(max, resp.size - place)
           \union {i \in {0} : place = resp.size} :
    /\ block' = Upto(place, n)
    /\ place' = place + n
    /\ IsFinished' = (n = 0)
    /\ UNCHANGED <<CState, CStatePos>>

\* There is no body, and Read() never says that it is at its end.
ReadRedirect ==
  /\ block' = << >> /\ IsFinished' = FALSE
  /\ UNCHANGED sourceVars

Read(max) ==
  CASE resp.source \in {"string", "message"} -> ReadString(max)
    [] resp.source = "file" -> ReadFile(max)
    [] resp.source = "generated" -> ReadGenerated(max)
    [] resp.source = "redirect" -> ReadRedirect
    [] OTHER -> ReadZip(max)

-----------------------------------------------------------------------------
(* ResponseHandler().                                                      *)

\* The response is created, and its headers are written.
BeginResponse(r) ==
  /\ phase' = "headers" /\ resp' = r /\ RespLength' = Announced(r)
  /\ place' = 0 /\ CStatePos' = 0 /\ onDisk' = r.size
  /\ CState' = IF r.source = "stored" THEN "CS_BODYONLY" ELSE "CS_HEADER"
  /\ IsFinished' = FALSE /\ block' = << >> /\ sent' = << >> /\ RetVal' = FALSE

\* CurrResp is deleted; the exception of a failed write forgets it.
EndResponse ==
  /\ phase' = "idle" /\ resp' = NoResponse /\ RespLength' = 0
  /\ place' = 0 /\ CState' = "CS_HEADER" /\ CStatePos' = 0 /\ onDisk' = 0
  /\ IsFinished' = FALSE /\ block' = << >> /\ sent' = << >> /\ RetVal' = FALSE

HeadersWritten ==
  /\ phase = "headers"
  /\ phase' = IF RespLength = 0 THEN "end" ELSE "read"
  /\ UNCHANGED <<resp, RespLength, sourceVars, onDisk, IsFinished, block, sent,
                 RetVal>>

ReadFixed ==
  /\ phase = "read" /\ RespLength # Unknown
  /\ Read(WriteBuffSize)
  /\ RespLength' = RespLength - Smaller(Len(block'), RespLength)
  /\ phase' = "block"
  /\ UNCHANGED <<resp, onDisk, sent, RetVal>>

\* The response is complete when Read() says so at the very end of its length.
CompleteIfEither == IsFinished \/ RespLength = 0     \* a slip: or, not and
Complete == IsFinished /\ RespLength = 0

\* What was not written for an empty block does not matter: WriteNext() returns.
FixedWritten ==
  /\ phase = "block" /\ RespLength # Unknown
  /\ sent' = sent \o block /\ block' = << >>
  /\ RetVal' = Complete
  /\ phase' = IF IsFinished \/ RespLength = 0 THEN "end" ELSE "read"
  /\ UNCHANGED <<resp, RespLength, sourceVars, onDisk, IsFinished>>

\* A chunk of no cells would be the last one: nothing is committed for it, and
\* it ends the response whatever Read() said.
LastChunkSaid == IsFinished                  \* a slip: Read() is relied upon
LastChunk == IsFinished \/ block = << >>
ChunkRoom == WriteBuffSize - 1      \* a header and a footer of a chunk are less
ReadChunk ==
  /\ phase = "read" /\ RespLength = Unknown
  /\ Read(ChunkRoom)
  /\ phase' = IF LastChunk' THEN "final" ELSE "block"
  /\ UNCHANGED <<resp, RespLength, onDisk, sent, RetVal>>

ChunkWritten ==
  /\ phase = "block" /\ RespLength = Unknown
  /\ sent' = sent \o block /\ block' = << >>
  /\ phase' = "read"
  /\ UNCHANGED <<resp, RespLength, sourceVars, onDisk, IsFinished, RetVal>>

\* WriteAll(), with the last chunk.
FinalWritten ==
  /\ phase = "final"
  /\ sent' = sent \o block /\ block' = << >>
  /\ RetVal' = TRUE /\ phase' = "end"
  /\ UNCHANGED <<resp, RespLength, sourceVars, onDisk, IsFinished>>

\* Someone else makes the file shorter while it is sent.
FileTruncated ==
  /\ phase \in {"headers", "read", "block"} /\ resp.source = "file"
  /\ \E n \in 0 .. onDisk - 1 : onDisk' = n
  /\ UNCHANGED <<phase, resp, RespLength, sourceVars, IsFinished, block, sent,
                 RetVal>>

\* What ResponseHandler() returns: an upgraded connection has no next request.
Continues == RetVal /\ ~resp.upgrades

SendStep ==
  \/ HeadersWritten
  \/ ReadFixed \/ FixedWritten
  \/ ReadChunk \/ ChunkWritten \/ FinalWritten

-----------------------------------------------------------------------------
\* Every variable keeps its type, and a block fits into the write buffer.
RespTypeOK ==
  /\ phase \in {"idle", "headers", "read", "block", "final", "end"}
  /\ resp \in Responses \union {NoResponse}
  /\ RespLength \in Nat \union {Unknown}
  /\ place \in 0 .. resp.size /\ onDisk \in 0 .. resp.size
  /\ CState \in {"CS_HEADER", "CS_BODY", "CS_BODYONLY", "CS_FOOTER"}
  /\ CStatePos \in 0 .. GzipFooter
  /\ {IsFinished, RetVal} \subseteq BOOLEAN
  /\ block \in Seq(Nat) /\ Len(block) <= WriteBuffSize /\ sent \in Seq(Nat)

\* When the connection is kept alive, the client has got exactly the body whose
\* length it was told, so that it finds the next response where it looks for
\* it: also when a file was truncated under way, or a generator writes more or
\* less than it said.
KeptInStep ==
  phase = "end" /\ Continues =>
    Announced(resp) \in {Unknown, Len(sent)}

\* The body is sent from its beginning and in order, without a gap or a
\* repetition, whatever blocks it is cut into; only a truncated file leaves
\* junk.  When all is said to be sent, all of the source is.
BodySize(r) ==
  IF r.source = "deflated" THEN GzipHeader + r.size + GzipFooter ELSE r.size
BodyInOrder ==
  LET out == sent \o block IN
  /\ \A i \in 1 .. Len(out) :
        out[i] = i \/ (resp.source = "file" /\ out[i] = Junk /\ i > onDisk)
  /\ phase = "end" /\ Announced(resp) = Unknown => Len(out) = BodySize(resp)

-----------------------------------------------------------------------------
\* IResponse.h:27 "@return The length of the response, or ~0, if it's unknown.":
\* a response that was sent to its end without an error has that length.
LengthKept ==
  phase = "end" /\ resp.source \in {"string", "deflated", "stored"}
    => Len(sent) = Announced(resp)
=============================================================================
