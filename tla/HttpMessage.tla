---------------------------- MODULE HttpMessage -----------------------------
(***************************************************************************)
(* What a line of an HTTP request says, as the parser of Http.hpp reads it *)
(* (ParseHttpLine, ParseHttpHead, HttpRequest).                            *)
(*                                                                         *)
(* Text is cut into atoms: LF and CR; Keep, which stands for the text      *)
(* "Connection: keep-alive"; Length, for "Content-Length: " and a number;  *)
(* Requests, each for a whole well-formed request line; and others, which  *)
(* hold no ": ".  A stream may be cut, and a line be broken, between any   *)
(* two of them.                                                            *)
(***************************************************************************)
EXTENDS Naturals, Sequences

CONSTANTS
  Chars,       (* the atoms of the stream                                  *)
  LF, CR,      (* line feed and carriage return                            *)
  Requests,    (* request lines that match the parser's expression         *)
  Keep,        (* the header of a connection that is to stay open          *)
  Length,      (* the header that announces a body ...                     *)
  BodyLen,     (* ... and the length it gives                              *)
  MAX_LINE,    (* longest line                                             *)
  MaxSegment   (* bound: see Segments                                      *)

Headers == {Keep, Length}

(* Buffer::GetLine: everything up to the first line feed, or nothing. *)
HasLine(text) == \E i \in 1 .. Len(text) : text[i] = LF

LineEnd(text) ==
  CHOOSE i \in 1 .. Len(text) : text[i] = LF /\ \A j \in 1 .. i - 1 : text[j] # LF

Line(text) == IF HasLine(text) THEN SubSeq(text, 1, LineEnd(text)) ELSE <<>>

AfterLine(text) == SubSeq(text, Len(Line(text)) + 1, Len(text))

(* A line without its LF or CR LF. *)
Content(line) ==
  LET n == Len(line) IN
  SubSeq(line, 1, IF n > 1 /\ line[n - 1] = CR THEN n - 2 ELSE n - 1)

IsBlank(line) == Content(line) = <<>>

(* ParseHttpLine: the expression has to match the line from end to end. *)
IsRequestLine(line) == \E r \in Requests : Content(line) = <<r>>

(* ParseHttpHead: a header is a line that holds ": " anywhere. *)
IsHeader(line) ==
  \E i \in 1 .. Len(Content(line)) : Content(line)[i] \in Headers

NoHeaders == [h \in Headers |-> "absent"]

(* HttpRequest::SetHeader inserts: the first header of a name counts.  Its *)
(* value may be followed by more text; headers of other names are left out.*)
SetHeader(headers, line) ==
  LET key == Content(line)[1]
      val == IF Content(line) = <<key>> THEN "exact" ELSE "longer"
  IN  IF key \in Headers /\ headers[key] = "absent"
      THEN [headers EXCEPT ![key] = val]
      ELSE headers

(* HttpRequest::Is_Cose: only the exact text keeps the connection open. *)
Is_Cose(headers) == headers[Keep] # "exact"

(* HttpRequest::BodySize: stol reads the number and ignores what follows. *)
BodySize(headers) == IF headers[Length] = "absent" THEN 0 ELSE BodyLen

(* What may arrive at once: few atoms, or the end of a request (or a whole *)
(* one) and the whole next one.                                            *)
Segments ==
  (UNION {[1 .. n -> Chars] : n \in 1 .. MaxSegment})
    \union {<<LF, r, LF, LF>> : r \in Requests}
    \union {<<r, LF, Keep, LF, LF, r, LF, LF>> : r \in Requests}

NewRequest == [headers |-> NoHeaders, body |-> <<>>]
=============================================================================
