----------------------------- MODULE HttpReader -----------------------------
(***************************************************************************)
(* How HTTP reads a request, one byte at a time: the reference for the     *)
(* parser of Http.hpp, which reads lines and bodies out of whatever the    *)
(* buffer holds.                                                           *)
(***************************************************************************)
EXTENDS HttpMessage

NewReader == [stage |-> "line", line |-> <<>>, request |-> NewRequest]
BadReader == [NewReader EXCEPT !.stage = "bad"]

EndOfLine(r, line) ==
  IF r.stage = "line"
  THEN IF IsRequestLine(line) THEN [NewReader EXCEPT !.stage = "head"] ELSE BadReader
  ELSE IF IsBlank(line)
  THEN [r EXCEPT !.line = <<>>,
                 !.stage = IF BodySize(r.request.headers) = 0 THEN "over" ELSE "body"]
  ELSE IF IsHeader(line)
  THEN [r EXCEPT !.line = <<>>, !.request.headers = SetHeader(@, line)]
  ELSE BadReader

(* A reader that is "over" is not given more bytes. *)
Byte(r, c) ==
  IF r.stage = "bad" THEN r
  ELSE IF r.stage = "over" THEN [r EXCEPT !.stage = "spilled"]
  ELSE IF r.stage = "body"
  THEN LET body == Append(r.request.body, c) IN
       [r EXCEPT !.request.body = body,
                 !.stage = IF Len(body) = BodySize(r.request.headers) THEN "over" ELSE @]
  ELSE LET line == Append(r.line, c) IN
       IF Len(line) > MAX_LINE THEN BadReader
       ELSE IF c = LF THEN EndOfLine(r, line)
       ELSE [r EXCEPT !.line = line]

(* The reader after the first n bytes of a text. *)
After(r, text, n) ==
  LET f[i \in 0 .. n] == IF i = 0 THEN r ELSE Byte(f[i - 1], text[i])
  IN  f[n]
=============================================================================
