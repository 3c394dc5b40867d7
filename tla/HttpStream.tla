----------------------------- MODULE HttpStream -----------------------------
(***************************************************************************)
(* What an HTTP connection promises, told byte by byte and hence without   *)
(* regard to how the network cuts the stream: requests are read in order,  *)
(* each is answered once and whole; after a request that does not ask to   *)
(* stay connected, or a malformed or too long line, which is answered by   *)
(* an error, the connection is closed, and for no other reason.            *)
(*                                                                         *)
(* HttpServer is shown to implement this module.                           *)
(***************************************************************************)
EXTENDS HttpReader

CONSTANT
  Own          (* Connection headers that user handlers set themselves     *)

VARIABLES
  unread,      (* received and not read                                    *)
  reader,      (* what has been read of the current request                *)
  answer,      (* the answer given in the last step                        *)
  refused,     (* an error has been answered                               *)
  closing,     (* the connection is to be closed                           *)
  closed

vars == <<unread, reader, answer, refused, closing, closed>>

None == [kind |-> "none"]
Error == [kind |-> "error"]

(* The answer to a request; a handler's own Connection header counts first. *)
Response(request, own) ==
  [kind |-> "response", body |-> request.body,
   close |-> own = "close" \/ (own = "none" /\ Is_Cose(request.headers))]

Init ==
  /\ unread = <<>>
  /\ reader = NewReader
  /\ answer = None
  /\ refused = FALSE
  /\ closing = FALSE
  /\ closed = FALSE

Arrive(seg) ==
  /\ ~closed
  /\ unread' = IF refused THEN <<>> ELSE unread \o seg
  /\ answer' = None
  /\ UNCHANGED <<reader, refused, closing, closed>>

Read(n) ==
  /\ ~closed
  /\ reader' = After(reader, unread, n)
  /\ reader'.stage # "spilled"
  /\ unread' = IF reader'.stage = "bad" THEN <<>> ELSE SubSeq(unread, n + 1, Len(unread))
  /\ answer' = None
  /\ UNCHANGED <<refused, closing, closed>>

Answer(own) ==
  /\ ~closed
  /\ reader.stage = "over"
  /\ reader' = NewReader
  /\ answer' = Response(reader.request, own)
  /\ closing' = (closing \/ answer'.close)
  /\ UNCHANGED <<unread, refused, closed>>

Refuse ==
  /\ ~closed
  /\ reader.stage = "bad"
  /\ reader' = NewReader
  /\ answer' = Error
  /\ closing' = TRUE
  /\ refused' = TRUE
  /\ UNCHANGED <<unread, closed>>

Close ==
  /\ closing /\ ~closed
  /\ closed' = TRUE
  /\ answer' = None
  /\ UNCHANGED <<unread, reader, refused, closing>>

Next ==
  \/ \E seg \in Segments : Arrive(seg)
  \/ \E n \in 0 .. Len(unread) : Read(n)
  \/ \E own \in Own : Answer(own)
  \/ Refuse
  \/ Close

(* A request that was read is answered, and a connection that is to be     *)
(* closed is closed.                                                       *)
Fairness == WF_vars(\E own \in Own : Answer(own)) /\ WF_vars(Refuse) /\ WF_vars(Close)

Steps == Init /\ [][Next]_vars

Spec == Steps /\ Fairness
=============================================================================
