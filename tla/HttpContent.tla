---------------------------- MODULE HttpContent -----------------------------
(***************************************************************************)
(* The parser of a connection, HttpContent of Http.hpp: RecvHttpRequest    *)
(* falls through RecvHttpLine, RecvHttpHead and RecvHttpBody, each of      *)
(* which does nothing unless the request has got that far, and returns to  *)
(* the caller at "answer".  One iteration of a loop is one step; no other  *)
(* thread sees the states in between.                                      *)
(***************************************************************************)
EXTENDS HttpMessage

VARIABLES
  inbuf,     (* _Inbuffer of the connection: received and not parsed       *)
  context,   (* the connection's HttpContent                               *)
  pc         (* where RecvHttpRequest is: "line", "head", "body", "answer";*)
             (* "poll" outside of the handlers                             *)

parserVars == <<inbuf, context, pc>>

(* Mistake: the constructor leaves the response status alone. *)
NewContextUnset == [recv |-> "LINE", resq |-> 0, request |-> NewRequest]

NewContext == [recv |-> "LINE", resq |-> 200, request |-> NewRequest]

Fail(code) == [context EXCEPT !.recv = "ERR", !.resq = code]

(* Mistake: only a line that has been received whole is measured. *)
TooLongOfLines == Len(Line(inbuf)) > MAX_LINE

(* The next line is longer than MAX_LINE, whether it is there or not. *)
TooLong == Len(IF HasLine(inbuf) THEN Line(inbuf) ELSE inbuf) > MAX_LINE

RecvHttpLine ==
  /\ pc = "line"
  /\ pc' = "head"
  /\ \/ /\ context.recv # "LINE"
        /\ UNCHANGED <<inbuf, context>>
     \/ /\ context.recv = "LINE"
        /\ inbuf' = AfterLine(inbuf)
        /\ context' =
             IF TooLong THEN Fail(414)
             ELSE IF ~HasLine(inbuf) THEN context
             ELSE IF IsRequestLine(Line(inbuf)) THEN [context EXCEPT !.recv = "HEAD"]
             (* ParseHttpLine says ERR, its caller goes on to HEAD *)
             ELSE [context EXCEPT !.recv = "HEAD", !.resq = 400]

RecvHttpHead ==
  /\ pc = "head"
  /\ \/ /\ context.recv # "HEAD" \/ (~HasLine(inbuf) /\ ~TooLong)
        /\ pc' = "body"
        /\ UNCHANGED <<inbuf, context>>
     \/ /\ context.recv = "HEAD" /\ (HasLine(inbuf) \/ TooLong)
        /\ inbuf' = AfterLine(inbuf)
        /\ LET line == Line(inbuf) IN
           IF TooLong
           THEN context' = Fail(414) /\ pc' = "body"
           ELSE IF IsBlank(line)
           THEN context' = [context EXCEPT !.recv = "BODY"] /\ pc' = "body"
           ELSE IF IsHeader(line)
           THEN /\ context' = [context EXCEPT !.request.headers = SetHeader(@, line)]
                /\ pc' = "head"
           ELSE context' = Fail(400) /\ pc' = "body"

(* Mistake: each part of a body is taken for its beginning. *)
MissingWhole == BodySize(context.request.headers)

(* What the body still lacks. *)
Missing == BodySize(context.request.headers) - Len(context.request.body)

RecvHttpBody ==
  /\ pc = "body"
  /\ pc' = "answer"
  /\ \/ /\ context.recv # "BODY"
        /\ UNCHANGED <<inbuf, context>>
     \/ /\ context.recv = "BODY"
        /\ LET n == IF Len(inbuf) >= Missing THEN Missing ELSE Len(inbuf) IN
           /\ context' = [context EXCEPT
                !.request.body = @ \o SubSeq(inbuf, 1, n),
                !.recv = IF n = Missing THEN "OVER" ELSE "BODY"]
           /\ inbuf' = SubSeq(inbuf, n + 1, Len(inbuf))

RecvHttpRequest == RecvHttpLine \/ RecvHttpHead \/ RecvHttpBody
=============================================================================
