----------------------------- MODULE EchoServer -----------------------------
(***************************************************************************)
(* OnMessage of the HTTP server in echo/echoserver.cc on one connection.   *)
(* It shares the parser with Http_Server, but stores a ConnContext* in the *)
(* connection and asks for a ConnContext, which Any never finds: every     *)
(* message is parsed by a new context.  And it handles one request for a   *)
(* message.                                                                *)
(***************************************************************************)
EXTENDS HttpContent, HttpReader

CONSTANT
  Old        (* the requests of HTTP/1.0                                   *)

VARIABLES
  version,   (* the request line of the current request                    *)
  status,    (* the connection: "open", "closing" (DISCONNECTING), "closed"*)
  unsent,    (* _OutBuffer holds data                                      *)
  answer,    (* history: what was answered in the last step                *)
  seen       (* history: the text of the current request                   *)

vars == <<parserVars, version, status, unsent, answer, seen>>

Init ==
  /\ inbuf = <<>>
  /\ context = NewContext
  /\ pc = "poll"
  /\ version = "none"
  /\ status = "open"
  /\ unsent = FALSE
  /\ answer = "none"
  /\ seen = <<>>

(* The beginning of OnMessage: Get<ConnContext>() returns nullptr. *)
OnMessage ==
  /\ pc' = "line"
  /\ context' = NewContext

HanderRead(seg) ==
  /\ pc = "poll" /\ status # "closed"
  /\ inbuf' = inbuf \o seg
  /\ OnMessage
  /\ answer' = "none"
  /\ seen' = seen \o seg
  /\ UNCHANGED <<version, status, unsent>>

Parse ==
  /\ RecvHttpRequest
  /\ version' = IF pc = "line" /\ HasLine(inbuf) /\ IsRequestLine(Line(inbuf))
                THEN Content(Line(inbuf))[1] ELSE version
  /\ answer' = "none"
  /\ UNCHANGED <<status, unsent, seen>>

(* ShutDownInLoop calls OnMessage for what is left in the buffer. *)
Shutdown ==
  /\ status' = "closing"
  /\ IF inbuf # <<>> THEN OnMessage ELSE pc' = "poll" /\ context' = NewContext

AnswerError ==
  /\ pc = "answer" /\ context.resq # 200
  /\ answer' = "error"
  /\ unsent' = TRUE
  /\ Shutdown
  /\ UNCHANGED <<inbuf, version, seen>>

AwaitMore ==
  /\ pc = "answer" /\ context.resq = 200 /\ context.recv # "OVER"
  /\ pc' = "poll"
  /\ answer' = "none"
  /\ UNCHANGED <<inbuf, context, version, status, unsent, seen>>

(* HTTP/1.0 stays connected on request only; nothing in this alphabet asks *)
(* HTTP/1.1 to close.                                                      *)
KeepAlive == version \in Old => context.request.headers[Keep] = "exact"

AnswerRequest ==
  /\ pc = "answer" /\ context.resq = 200 /\ context.recv = "OVER"
  /\ answer' = "response"
  /\ unsent' = TRUE
  /\ seen' = inbuf
  /\ IF KeepAlive
     THEN pc' = "poll" /\ context' = NewContext /\ UNCHANGED status
     ELSE Shutdown
  /\ UNCHANGED <<inbuf, version>>

HanderWrite ==
  /\ pc = "poll" /\ unsent
  /\ unsent' = FALSE
  /\ status' = IF status = "closing" THEN "closed" ELSE status
  /\ answer' = "none"
  /\ UNCHANGED <<parserVars, version, seen>>

Next ==
  \/ \E seg \in Segments : HanderRead(seg)
  \/ Parse
  \/ AnswerError
  \/ AwaitMore
  \/ AnswerRequest
  \/ HanderWrite

Spec == Init /\ [][Next]_vars

-----------------------------------------------------------------------------
(* A request is refused only when its text is malformed or too long, in    *)
(* how many parts ever it was received: where the parser says that there   *)
(* is not enough yet, receiving goes on.                                   *)
SoundIsNotRefused ==
  answer = "error" => After(NewReader, seen, Len(seen)).stage = "bad"
=============================================================================
