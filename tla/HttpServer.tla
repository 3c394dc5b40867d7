----------------------------- MODULE HttpServer -----------------------------
(***************************************************************************)
(* Http_Server::OnMessage of Http.hpp on one connection: requests in       *)
(* segments cut anywhere, several in one segment, malformed and too long   *)
(* ones, and the shutdown that follows the last answer, in which           *)
(* Connection::ShutDownInLoop calls OnMessage again.                       *)
(*                                                                         *)
(* Why else a connection is closed, and how output is sent in parts, is    *)
(* TcpServer's; which page a request gets is HttpTarget's.                 *)
(***************************************************************************)
EXTENDS HttpContent

CONSTANTS
  MaxLate,     (* bound: most atoms at once after an error was answered    *)
  Own          (* Connection headers that user handlers set: "none" (they  *)
               (* leave it alone), "close", "keep-alive"                   *)

ASSUME HttpAssumption ==
  /\ {LF, CR, Keep, Length} \union Requests \subseteq Chars
  /\ LF # CR
  /\ Headers \intersect ({LF, CR} \union Requests) = {}
  /\ Keep # Length
  /\ BodyLen \in Nat
  /\ MAX_LINE \in Nat \ {0}
  /\ MaxSegment \in Nat
  /\ MaxLate \in Nat
  /\ Own \subseteq {"none", "close", "keep-alive"}

VARIABLES
  status,    (* the connection: "open", "closing" (DISCONNECTING), "closed"*)
  unsent,    (* _OutBuffer holds data                                      *)
  answer,    (* history: the answer that was sent in the last step         *)
  refused    (* history: an error has been answered                        *)

connVars == <<status, unsent, answer, refused>>
vars == <<parserVars, connVars>>

None == [kind |-> "none"]
Error == [kind |-> "error"]

Init ==
  /\ inbuf = <<>>
  /\ context = NewContext
  /\ pc = "poll"
  /\ status = "open"
  /\ unsent = FALSE
  /\ answer = None
  /\ refused = FALSE

(* OnMessage's loop begins with a test for unread data. *)
OnMessage(buf) == IF buf = <<>> THEN "poll" ELSE "line"

(* Connection::HanderRead, also while the connection shuts down. *)
HanderRead(seg) ==
  /\ pc = "poll" /\ status # "closed"
  /\ refused => Len(seg) <= MaxLate
  /\ inbuf' = inbuf \o seg
  /\ pc' = OnMessage(inbuf')
  /\ answer' = None
  /\ UNCHANGED <<context, status, unsent, refused>>

Parse ==
  /\ RecvHttpRequest
  /\ answer' = None
  /\ UNCHANGED <<status, unsent, refused>>

(* WriteResponse sets the header Connection unless the handler did. *)
WriteResponse(own) ==
  [kind |-> "response", body |-> context.request.body,
   close |-> own = "close" \/ (own = "none" /\ Is_Cose(context.request.headers))]

(* An error is answered, whatever else was parsed since; the rest of the   *)
(* input is dropped, so that Shutdown does not call OnMessage.             *)
AnswerError ==
  /\ pc = "answer" /\ context.resq >= 400
  /\ answer' = Error
  /\ refused' = TRUE
  /\ unsent' = TRUE
  /\ context' = NewContext
  /\ inbuf' = <<>>
  /\ status' = "closing"
  /\ pc' = "poll"

(* Mistake: the loop goes on as long as there is unread data. *)
AwaitMoreInLoop ==
  /\ pc = "answer" /\ context.resq < 400 /\ context.recv # "OVER"
  /\ pc' = OnMessage(inbuf)
  /\ answer' = None
  /\ UNCHANGED <<inbuf, context, status, unsent, refused>>

AwaitMore ==
  /\ pc = "answer" /\ context.resq < 400 /\ context.recv # "OVER"
  /\ pc' = "poll"
  /\ answer' = None
  /\ UNCHANGED <<inbuf, context, status, unsent, refused>>

(* Mistake: one request is answered for each message. *)
AnswerRequestOnce(own) ==
  /\ pc = "answer" /\ context.resq < 400 /\ context.recv = "OVER"
  /\ answer' = WriteResponse(own)
  /\ unsent' = TRUE
  /\ context' = NewContext
  /\ status' = IF answer'.close THEN "closing" ELSE status
  /\ pc' = "poll"
  /\ UNCHANGED <<inbuf, refused>>

(* The next request in the buffer is handled by OnMessage's own loop, or   *)
(* by its call from the ShutDownInLoop of this one.                        *)
AnswerRequest(own) ==
  /\ pc = "answer" /\ context.resq < 400 /\ context.recv = "OVER"
  /\ answer' = WriteResponse(own)
  /\ unsent' = TRUE
  /\ context' = NewContext
  /\ status' = IF answer'.close THEN "closing" ELSE status
  /\ pc' = OnMessage(inbuf)
  /\ UNCHANGED <<inbuf, refused>>

(* The output went out: a connection that shuts down is released. *)
HanderWrite ==
  /\ pc = "poll" /\ unsent
  /\ unsent' = FALSE
  /\ status' = IF status = "closing" THEN "closed" ELSE status
  /\ answer' = None
  /\ UNCHANGED <<parserVars, refused>>

Next ==
  \/ \E seg \in Segments : HanderRead(seg)
  \/ Parse
  \/ AnswerError
  \/ AwaitMore
  \/ \E own \in Own : AnswerRequest(own)
  \/ HanderWrite

(* The loop's thread goes on.  The peer reads what it is sent, however     *)
(* much it sends itself: epoll_wait reports that output can go out again   *)
(* and again, next to the input (hence SF).                                *)
Fairness ==
  /\ WF_vars(Parse \/ AnswerError \/ AwaitMore)
  /\ WF_vars(\E own \in Own : AnswerRequest(own))
  /\ SF_vars(HanderWrite)

Spec == Init /\ [][Next]_vars /\ Fairness

-----------------------------------------------------------------------------
RequestType == [headers : [Headers -> {"absent", "exact", "longer"}], body : Seq(Chars)]

ContextType ==
  [recv : {"LINE", "HEAD", "BODY", "OVER", "ERR"}, resq : {200, 400, 414}, request : RequestType]

TypeOK ==
  /\ inbuf \in Seq(Chars)
  /\ context \in ContextType
  /\ pc \in {"poll", "line", "head", "body", "answer"}
  /\ status \in {"open", "closing", "closed"}
  /\ unsent \in BOOLEAN
  /\ answer \in {None, Error} \union
                [kind : {"response"}, body : Seq(Chars), close : BOOLEAN]
  /\ refused \in BOOLEAN

AtRest == pc = "poll"

(* Between messages the parser waits for more of a sound request: no error *)
(* is left unanswered, no request that is complete unanswered, and in none *)
(* of its states would OnMessage's loop turn for ever on data that         *)
(* RecvHttpRequest does not take.                                          *)
ParserAwaitsMore ==
  AtRest => /\ context.resq = 200
            /\ context.recv \in {"LINE", "HEAD", "BODY"}
            /\ context.recv = "BODY" =>
                 inbuf = <<>> /\ Len(context.request.body) < BodySize(context.request.headers)
            /\ ~HasLine(inbuf)

(* What a connection keeps of a line that does not end is at most MAX_LINE,*)
(* and of a body at most what was announced, however the peer sends it.    *)
InputBounded ==
  /\ AtRest => Len(inbuf) <= MAX_LINE
  /\ Len(context.request.body) <= BodySize(context.request.headers)

(* Up to the first error the answers are those of the stream, however it   *)
(* was cut, and the connection is closed when and only when it promised    *)
(* to.  (What arrives between the error and the close is parsed anew, and  *)
(* may be answered; that is left out.)                                     *)
bad == context.resq >= 400
Stage ==
  IF bad THEN "bad"
  ELSE CASE context.recv = "LINE" -> "line"
         [] context.recv = "HEAD" -> "head"
         [] context.recv = "BODY" ->
              IF BodySize(context.request.headers) = 0 THEN "over" ELSE "body"
         [] OTHER -> "over"

Stream == INSTANCE HttpStream WITH
  unread  <- IF refused \/ bad THEN <<>> ELSE inbuf,
  reader  <- [stage |-> IF refused THEN "line" ELSE Stage, line |-> <<>>,
              request |-> IF refused \/ bad THEN NewRequest ELSE context.request],
  answer  <- IF refused /\ status # "closed" THEN Error ELSE answer,
  closing <- status # "open",
  closed  <- status = "closed"

ImplementsHttpStream == Stream!Steps

(* OnMessage always returns to the loop; what was read is answered, and a  *)
(* connection that promised to close is closed.                            *)
HandlerReturns == []<>AtRest
EverythingIsAnswered == HandlerReturns /\ Stream!Fairness
=============================================================================
