-------------------------- MODULE HttpServerProofs --------------------------
(***************************************************************************)
(* Proofs about HttpServer, for every alphabet, line limit and body length *)
(* and for segments of every kind.                                         *)
(***************************************************************************)
EXTENDS HttpServer, SequenceTheorems, FiniteSetTheorems, WellFoundedInduction, TLAPS

body == context.request.body
announced == BodySize(context.request.headers)

(* What has been taken of the buffer so far cannot be parsed further.      *)
Exhausted == ~HasLine(inbuf) /\ Len(inbuf) <= MAX_LINE
Lacking == Len(body) < announced

BodyInv ==
  /\ Len(body) <= announced
  /\ context.recv \in {"LINE", "HEAD"} => body = <<>>

PollInv ==
  pc = "poll" =>
    /\ context.resq = 200
    /\ context.recv \in {"LINE", "HEAD", "BODY"}
    /\ context.recv = "BODY" => inbuf = <<>> /\ Lacking
    /\ Exhausted

LineInv ==
  pc = "line" =>
    /\ context.resq = 200
    /\ context.recv \in {"LINE", "HEAD", "BODY"}
    /\ context.recv = "BODY" => Lacking

(* An error of the request line is forgotten by its caller, which goes on  *)
(* to the headers; the status remembers it.                                *)
HeadInv ==
  pc = "head" =>
    /\ context.recv \in {"LINE", "HEAD", "BODY", "ERR"}
    /\ context.recv = "LINE" => Exhausted
    /\ context.recv = "ERR" => context.resq >= 400

RestInv ==
  pc \in {"body", "answer"} =>
    /\ context.recv = "OVER" => pc = "answer"
    /\ context.recv \in {"LINE", "HEAD"} => Exhausted
    /\ context.recv = "ERR" => context.resq >= 400
    /\ pc = "answer" /\ context.recv = "BODY" => inbuf = <<>> /\ Lacking

ParserInv == TypeOK /\ BodyInv /\ PollInv /\ LineInv /\ HeadInv /\ RestInv

-----------------------------------------------------------------------------
(* Lines. *)

LEMMA Constants ==
  /\ BodyLen \in Nat /\ MAX_LINE \in Nat /\ 0 \in Nat /\ <<>> \in Seq(Chars)
  /\ Len(<<>>) = 0 /\ ~HasLine(<<>>)
<1>1. <<>> \in Seq(Chars) /\ Len(<<>>) = 0
  OBVIOUS
<1>2. ~HasLine(<<>>)
  BY <1>1 DEF HasLine
<1> QED
  BY <1>1, <1>2, HttpAssumption

LEMMA SizeIsNat ==
  ASSUME NEW h \in [Headers -> {"absent", "exact", "longer"}]
  PROVE  BodySize(h) \in Nat
BY HttpAssumption DEF BodySize

LEMMA CutType ==
  ASSUME NEW s \in Seq(Chars), NEW n \in Nat
  PROVE  SubSeq(s, n + 1, Len(s)) \in Seq(Chars)
<1>1. \A i \in n + 1 .. Len(s) : s[i] \in Chars
  OBVIOUS
<1>2. n + 1 \in Int /\ Len(s) \in Int
  OBVIOUS
<1> QED
  BY <1>1, <1>2, SubSeqProperties

(* The least of a set of numbers: the prefixes 0 .. k of the numbers are    *)
(* finite sets, of which one includes no other.                            *)
LEMMA LeastExists ==
  ASSUME NEW S \in SUBSET Nat, S # {}
  PROVE  \E k \in S : \A j \in S : k <= j
<1> DEFINE Prefixes == {0 .. k : k \in S}
           R == StrictSubsetOrdering(Nat)
<1>1. Prefixes # {}
  OBVIOUS
<1>2. Prefixes \subseteq FiniteSubsetsOf(Nat)
  <2>1. ASSUME NEW k \in S PROVE 0 .. k \in FiniteSubsetsOf(Nat)
    <3>1. IsFiniteSet(0 .. k)
      BY FS_Interval
    <3>2. 0 .. k \subseteq Nat
      OBVIOUS
    <3> QED
      BY <3>1, <3>2 DEF FiniteSubsetsOf
  <2> QED
    BY <2>1
<1>3. PICK x \in Prefixes : \A y \in Prefixes : <<y, x>> \notin R
  <2>1. IsWellFoundedOn(R, FiniteSubsetsOf(Nat))
    BY FS_StrictSubsetOrderingWellFounded
  <2> QED
    BY <1>1, <1>2, <2>1, WFMin
<1>4. PICK k \in S : x = 0 .. k
  OBVIOUS
<1>5. ASSUME NEW j \in S, ~(k <= j) PROVE FALSE
  <2>1. 0 .. j \subseteq 0 .. k /\ k \in 0 .. k /\ k \notin 0 .. j
    BY <1>5
  <2>2. <<0 .. j, 0 .. k>> \in R
    BY <2>1 DEF StrictSubsetOrdering
  <2> QED
    BY <1>3, <1>4, <2>2
<1> QED
  BY <1>5

LEMMA PrefixType ==
  ASSUME NEW text \in Seq(Chars), NEW n \in 0 .. Len(text)
  PROVE  SubSeq(text, 1, n) \in Seq(Chars) /\ Len(SubSeq(text, 1, n)) = n
<1>1. \A i \in 1 .. n : text[i] \in Chars
  OBVIOUS
<1>2. 1 \in Int /\ n \in Int
  OBVIOUS
<1>3. SubSeq(text, 1, n) \in Seq(Chars) /\ Len(SubSeq(text, 1, n)) = IF 1 <= n THEN n - 1 + 1 ELSE 0
  BY <1>1, <1>2, SubSeqProperties
<1> QED
  BY <1>3

(* Where the first line ends. *)
LEMMA FirstLine ==
  ASSUME NEW text \in Seq(Chars), HasLine(text)
  PROVE  /\ LineEnd(text) \in 1 .. Len(text)
         /\ text[LineEnd(text)] = LF
         /\ \A j \in 1 .. LineEnd(text) - 1 : text[j] # LF
         /\ Line(text) = SubSeq(text, 1, LineEnd(text))
         /\ Len(Line(text)) = LineEnd(text)
<1> DEFINE First(i) == text[i] = LF /\ \A j \in 1 .. i - 1 : text[j] # LF
           Ends == {i \in 1 .. Len(text) : text[i] = LF}
<1>1. Ends # {} /\ Ends \subseteq Nat
  BY DEF HasLine
<1>2. PICK k \in Ends : \A j \in Ends : k <= j
  BY <1>1, LeastExists
<1>3. k \in 1 .. Len(text) /\ First(k)
  BY <1>2
<1>4. LineEnd(text) \in 1 .. Len(text) /\ First(LineEnd(text))
  BY <1>3 DEF LineEnd
<1>5. Line(text) = SubSeq(text, 1, LineEnd(text))
  BY DEF Line
<1>6. Len(Line(text)) = LineEnd(text)
  <2>1. LineEnd(text) \in 0 .. Len(text)
    BY <1>4
  <2> QED
    BY <1>5, <2>1, PrefixType
<1> QED
  BY <1>4, <1>5, <1>6

LEMMA LineType ==
  ASSUME NEW s \in Seq(Chars)
  PROVE  Line(s) \in Seq(Chars) /\ Len(Line(s)) \in Nat
<1>1. CASE HasLine(s)
  <2>1. LineEnd(s) \in 0 .. Len(s) /\ Line(s) = SubSeq(s, 1, LineEnd(s))
    BY <1>1, FirstLine
  <2> QED
    BY <2>1, PrefixType
<1>2. CASE ~HasLine(s)
  BY <1>2 DEF Line
<1> QED
  BY <1>1, <1>2

LEMMA AfterLineType ==
  ASSUME NEW s \in Seq(Chars)
  PROVE  AfterLine(s) \in Seq(Chars)
BY LineType, CutType DEF AfterLine

(* Where there is no whole line, nothing is taken.                         *)
LEMMA NoLineNothingTaken ==
  ASSUME NEW s \in Seq(Chars), ~HasLine(s)
  PROVE  AfterLine(s) = s
<1>1. Line(s) = <<>>
  BY DEF Line
<1>2. AfterLine(s) = SubSeq(s, 1, Len(s))
  BY <1>1 DEF AfterLine
<1> QED
  BY <1>2, SubSeqFull

(* A text that is not too long and holds no line is short.                 *)
LEMMA ShortIsExhausted ==
  ASSUME inbuf \in Seq(Chars), ~HasLine(inbuf), ~TooLong
  PROVE  Exhausted
BY HttpAssumption DEF TooLong, Exhausted

LEMMA NewContextType ==
  /\ NewContext \in ContextType
  /\ NewContext.recv = "LINE" /\ NewContext.resq = 200
  /\ NewContext.request.body = <<>>
BY DEF NewContext, ContextType, RequestType, NewRequest, NoHeaders

LEMMA ContextParts ==
  ASSUME context \in ContextType
  PROVE  /\ context.recv \in {"LINE", "HEAD", "BODY", "OVER", "ERR"}
         /\ context.resq \in {200, 400, 414}
         /\ context.request \in RequestType
         /\ context.request.headers \in [Headers -> {"absent", "exact", "longer"}]
         /\ body \in Seq(Chars)
         /\ Len(body) \in Nat
         /\ announced \in Nat
<1>1. /\ context.recv \in {"LINE", "HEAD", "BODY", "OVER", "ERR"}
      /\ context.resq \in {200, 400, 414}
      /\ context.request \in RequestType
  BY DEF ContextType
<1>2. /\ context.request.headers \in [Headers -> {"absent", "exact", "longer"}]
      /\ body \in Seq(Chars)
  BY <1>1 DEF RequestType, body
<1>3. announced \in Nat
  BY <1>2, SizeIsNat DEF announced
<1> QED
  BY <1>1, <1>2, <1>3

(* What Fail leaves behind.                                                *)
LEMMA FailType ==
  ASSUME context \in ContextType, NEW c \in {400, 414}
  PROVE  /\ Fail(c) \in ContextType
         /\ Fail(c).recv = "ERR" /\ Fail(c).resq = c
         /\ Fail(c).request = context.request
BY DEF Fail, ContextType

(* What a request line leaves behind, sound or not.                        *)
LEMMA ToHeadType ==
  ASSUME context \in ContextType,
         NEW c, c \in {[context EXCEPT !.recv = "HEAD"],
                       [context EXCEPT !.recv = "HEAD", !.resq = 400]}
  PROVE  c \in ContextType /\ c.recv = "HEAD" /\ c.request = context.request
<1>1. CASE c = [context EXCEPT !.recv = "HEAD"]
  BY <1>1 DEF ContextType
<1>2. CASE c = [context EXCEPT !.recv = "HEAD", !.resq = 400]
  BY <1>2 DEF ContextType
<1> QED
  BY <1>1, <1>2

LEMMA EmptyBodyFits ==
  ASSUME context \in ContextType, body = <<>>
  PROVE  Len(body) <= announced
BY ContextParts

-----------------------------------------------------------------------------
LEMMA InitParser == Init => ParserInv
<1> SUFFICES ASSUME Init PROVE ParserInv
  OBVIOUS
<1>1. inbuf = <<>> /\ context = NewContext /\ pc = "poll"
  BY DEF Init
<1>2. TypeOK
  BY <1>1, NewContextType, Constants DEF Init, TypeOK, None
<1>3. BodyInv
  BY <1>1, <1>2, NewContextType, EmptyBodyFits DEF TypeOK, BodyInv, body
<1>4. PollInv
  BY <1>1, NewContextType, Constants DEF PollInv, Exhausted
<1> QED
  BY <1>1, <1>2, <1>3, <1>4 DEF ParserInv, LineInv, HeadInv, RestInv

(* Segments arrive outside of the handlers. *)
LEMMA ReadKeepsParser ==
  ASSUME ParserInv, NEW seg \in Segments, HanderRead(seg)
  PROVE  ParserInv'
<1> USE DEF ParserInv
<1>1. pc = "poll" /\ inbuf' = inbuf \o seg /\ context' = context
      /\ pc' = OnMessage(inbuf') /\ answer' = None
      /\ UNCHANGED <<status, unsent, refused>>
  BY DEF HanderRead
<1>2. seg \in Seq(Chars)
  <2>1. \A r \in Requests : {LF, r, Keep} \subseteq Chars
    BY HttpAssumption
  <2>2. CASE \E n \in 1 .. MaxSegment : seg \in [1 .. n -> Chars]
    BY <2>2, HttpAssumption
  <2>3. CASE \E r \in Requests : seg = <<LF, r, LF, LF>>
    BY <2>1, <2>3
  <2>4. CASE \E r \in Requests : seg = <<r, LF, Keep, LF, LF, r, LF, LF>>
    BY <2>1, <2>4
  <2>5. \/ seg \in UNION {[1 .. n -> Chars] : n \in 1 .. MaxSegment}
        \/ seg \in {<<LF, r, LF, LF>> : r \in Requests}
        \/ seg \in {<<r, LF, Keep, LF, LF, r, LF, LF>> : r \in Requests}
    BY Zenon DEF Segments
  <2> QED
    BY <2>2, <2>3, <2>4, <2>5
<1>3. inbuf' \in Seq(Chars)
  BY <1>1, <1>2 DEF TypeOK
<1>4. pc' \in {"poll", "line"} /\ (pc' = "poll" => inbuf' = <<>>)
  BY <1>1 DEF OnMessage
<1>5. TypeOK'
  BY <1>1, <1>3, <1>4 DEF TypeOK
<1>6. BodyInv' /\ (Lacking <=> Lacking')
  BY <1>1 DEF BodyInv, Lacking, body, announced
<1>7. PollInv'
  <2>1. pc' = "poll" => Exhausted'
    BY <1>4, Constants DEF Exhausted
  <2> QED
    BY <1>1, <1>4, <1>6, <2>1 DEF PollInv
<1>8. LineInv'
  BY <1>1, <1>6 DEF LineInv, PollInv
<1>9. HeadInv' /\ RestInv'
  BY <1>4 DEF HeadInv, RestInv
<1> QED
  BY <1>5, <1>6, <1>7, <1>8, <1>9

LEMMA LineKeepsParser ==
  ASSUME ParserInv, RecvHttpLine, UNCHANGED <<status, unsent, refused>>, answer' = None
  PROVE  ParserInv'
<1> USE DEF ParserInv
<1>1. pc = "line" /\ pc' = "head"
  BY DEF RecvHttpLine
<1>2. context \in ContextType /\ inbuf \in Seq(Chars)
  BY DEF TypeOK
<1>3. PollInv' /\ LineInv' /\ RestInv'
  BY <1>1 DEF PollInv, LineInv, RestInv
<1>4. CASE context.recv # "LINE"
  <2>1. UNCHANGED <<inbuf, context>>
    BY <1>4 DEF RecvHttpLine
  <2>2. TypeOK' /\ BodyInv'
    BY <1>1, <2>1 DEF TypeOK, BodyInv, body, announced
  <2>3. HeadInv'
    BY <1>1, <1>4, <2>1 DEF LineInv, HeadInv
  <2> QED
    BY <1>3, <2>2, <2>3
<1>5. CASE context.recv = "LINE"
  <2>1. inbuf' = AfterLine(inbuf) /\ inbuf' \in Seq(Chars)
    BY <1>2, <1>5, AfterLineType DEF RecvHttpLine
  <2>2. context' \in ContextType /\ context'.request = context.request
    <3>1. CASE TooLong
      BY <1>2, <1>5, <3>1, FailType DEF RecvHttpLine
    <3>2. CASE ~TooLong /\ ~HasLine(inbuf)
      BY <1>2, <1>5, <3>2 DEF RecvHttpLine
    <3>3. CASE ~TooLong /\ HasLine(inbuf)
      <4>1. context' \in {[context EXCEPT !.recv = "HEAD"],
                         [context EXCEPT !.recv = "HEAD", !.resq = 400]}
        BY <1>5, <3>3 DEF RecvHttpLine
      <4> QED
        BY <1>2, <4>1, ToHeadType
    <3> QED
      BY <3>1, <3>2, <3>3
  <2>3. body = <<>> /\ body' = <<>> /\ BodyInv'
    <3>1. body = <<>> /\ Len(body) <= announced
      BY <1>5 DEF BodyInv
    <3>2. body' = body /\ announced' = announced
      BY <2>2 DEF body, announced
    <3> QED
      BY <3>1, <3>2 DEF BodyInv
  <2>4. TypeOK'
    BY <1>1, <2>1, <2>2 DEF TypeOK
  <2>5. HeadInv'
    <3>1. CASE TooLong
      <4>1. context' = Fail(414)
        BY <1>5, <3>1 DEF RecvHttpLine
      <4>2. context'.recv = "ERR" /\ context'.resq = 414
        BY <1>2, <4>1, FailType
      <4> QED
        BY <4>2 DEF HeadInv
    <3>2. CASE ~TooLong /\ ~HasLine(inbuf)
      <4>1. context' = context /\ inbuf' = inbuf
        BY <1>2, <1>5, <2>1, <3>2, NoLineNothingTaken DEF RecvHttpLine
      <4>2. Exhausted
        BY <1>2, <3>2, ShortIsExhausted
      <4>3. Exhausted'
        BY <4>1, <4>2 DEF Exhausted
      <4> QED
        BY <1>5, <4>1, <4>3 DEF HeadInv
    <3>3. CASE ~TooLong /\ HasLine(inbuf)
      <4>1. context' \in {[context EXCEPT !.recv = "HEAD"],
                         [context EXCEPT !.recv = "HEAD", !.resq = 400]}
        BY <1>5, <3>3 DEF RecvHttpLine
      <4>2. context'.recv = "HEAD"
        BY <1>2, <4>1, ToHeadType
      <4> QED
        BY <4>2 DEF HeadInv
    <3> QED
      BY <3>1, <3>2, <3>3
  <2> QED
    BY <1>3, <2>3, <2>4, <2>5
<1> QED
  BY <1>4, <1>5

LEMMA HeadKeepsParser ==
  ASSUME ParserInv, RecvHttpHead, UNCHANGED <<status, unsent, refused>>, answer' = None
  PROVE  ParserInv'
<1> USE DEF ParserInv
<1>1. pc = "head" /\ pc' \in {"head", "body"}
  BY DEF RecvHttpHead
<1>2. context \in ContextType /\ inbuf \in Seq(Chars)
  BY DEF TypeOK
<1>3. PollInv' /\ LineInv'
  BY <1>1 DEF PollInv, LineInv
<1>4. CASE context.recv # "HEAD" \/ (~HasLine(inbuf) /\ ~TooLong)
  <2>1. UNCHANGED <<inbuf, context>> /\ pc' = "body"
    BY <1>4 DEF RecvHttpHead
  <2>2. TypeOK' /\ BodyInv'
    BY <2>1 DEF TypeOK, BodyInv, body, announced
  <2>3. context.recv = "HEAD" => Exhausted
    BY <1>2, <1>4, ShortIsExhausted
  <2>4. Exhausted' <=> Exhausted
    BY <2>1 DEF Exhausted
  <2>5. HeadInv' /\ RestInv'
    BY <1>1, <2>1, <2>3, <2>4 DEF HeadInv, RestInv
  <2> QED
    BY <1>3, <2>2, <2>5
<1>5. CASE context.recv = "HEAD" /\ (HasLine(inbuf) \/ TooLong)
  <2> DEFINE line == Line(inbuf)
  <2>1. inbuf' \in Seq(Chars)
    BY <1>2, <1>5, AfterLineType DEF RecvHttpHead
  <2>2. body = <<>>
    BY <1>5 DEF BodyInv
  <2>3. CASE context' = Fail(414) \/ context' = Fail(400)
    <3>1. context' \in ContextType /\ context'.recv = "ERR" /\ context'.resq >= 400
          /\ context'.request = context.request
      BY <1>2, <2>3, FailType
    <3>2. pc' = "body"
      BY <1>2, <1>5, <2>3, <3>1 DEF RecvHttpHead, ContextType
    <3>3. TypeOK'
      BY <2>1, <3>1, <3>2 DEF TypeOK
    <3>4. BodyInv'
      BY <3>1 DEF BodyInv, body, announced
    <3>5. HeadInv' /\ RestInv'
      BY <3>1, <3>2 DEF HeadInv, RestInv
    <3> QED
      BY <1>3, <3>3, <3>4, <3>5
  <2>4. CASE context' = [context EXCEPT !.recv = "BODY"]
    <3>1. context' \in ContextType /\ context'.recv = "BODY" /\ context'.request = context.request
      BY <1>2, <2>4 DEF ContextType
    <3>2. pc' = "body"
      BY <1>2, <1>5, <2>4, <3>1 DEF RecvHttpHead, Fail, ContextType
    <3>3. TypeOK'
      BY <2>1, <3>1, <3>2 DEF TypeOK
    <3>4. BodyInv'
      BY <3>1 DEF BodyInv, body, announced
    <3>5. HeadInv' /\ RestInv'
      BY <3>1, <3>2 DEF HeadInv, RestInv
    <3> QED
      BY <1>3, <3>3, <3>4, <3>5
  <2>5. CASE pc' = "head" /\ context' = [context EXCEPT !.request.headers = SetHeader(@, line)]
    <3>1. SetHeader(context.request.headers, line) \in [Headers -> {"absent", "exact", "longer"}]
      <4>1. context.request.headers \in [Headers -> {"absent", "exact", "longer"}]
        BY <1>2, ContextParts
      <4> QED
        BY <4>1 DEF SetHeader
    <3>2. context'.request = [context.request EXCEPT !.headers = SetHeader(@, line)]
          /\ context'.recv = "HEAD" /\ context'.resq = context.resq
      BY <1>2, <1>5, <2>5 DEF ContextType
    <3>3. context'.request \in RequestType /\ context'.request.body = body
      BY <1>2, <3>1, <3>2, ContextParts DEF RequestType, body
    <3>4. context' \in ContextType
      BY <1>2, <2>5, <3>2, <3>3 DEF ContextType
    <3>5. TypeOK'
      BY <1>1, <2>1, <3>4 DEF TypeOK
    <3>6. BodyInv'
      <4>1. body' = <<>>
        BY <2>2, <3>3 DEF body
      <4>2. announced' \in Nat
        BY <3>3, SizeIsNat DEF announced, RequestType
      <4>3. Len(body') <= announced'
        BY <4>1, <4>2
      <4> QED
        BY <4>1, <4>3 DEF BodyInv
    <3>7. HeadInv' /\ RestInv'
      BY <2>5, <3>2 DEF HeadInv, RestInv
    <3> QED
      BY <1>3, <3>5, <3>6, <3>7
  <2> QED
    BY <1>5, <2>3, <2>4, <2>5 DEF RecvHttpHead
<1> QED
  BY <1>4, <1>5 DEF RecvHttpHead

LEMMA BodyKeepsParser ==
  ASSUME ParserInv, RecvHttpBody, UNCHANGED <<status, unsent, refused>>, answer' = None
  PROVE  ParserInv'
<1> USE DEF ParserInv
<1>1. pc = "body" /\ pc' = "answer"
  BY DEF RecvHttpBody
<1>2. context \in ContextType /\ inbuf \in Seq(Chars)
  BY DEF TypeOK
<1>3. PollInv' /\ LineInv' /\ HeadInv'
  BY <1>1 DEF PollInv, LineInv, HeadInv
<1>4. CASE context.recv # "BODY"
  <2>1. UNCHANGED <<inbuf, context>>
    BY <1>4 DEF RecvHttpBody
  <2>2. TypeOK' /\ BodyInv'
    BY <1>1, <2>1 DEF TypeOK, BodyInv, body, announced
  <2>3. RestInv'
    BY <1>1, <1>4, <2>1 DEF RestInv, Exhausted
  <2> QED
    BY <1>3, <2>2, <2>3
<1>5. CASE context.recv = "BODY"
  <2> DEFINE n == IF Len(inbuf) >= Missing THEN Missing ELSE Len(inbuf)
             part == SubSeq(inbuf, 1, n)
  <2>1. Missing = announced - Len(body) /\ Missing \in Nat /\ Len(inbuf) \in Nat
    <3>1. Len(body) \in Nat /\ announced \in Nat /\ Len(body) <= announced
      BY <1>2, ContextParts DEF BodyInv
    <3>2. Missing = announced - Len(body)
      BY DEF Missing, announced, body
    <3> QED
      BY <1>2, <3>1, <3>2
  <2>2. n \in Nat /\ n <= Missing /\ n <= Len(inbuf) /\ (n # Missing => n = Len(inbuf) /\ n < Missing)
    BY <2>1
  <2>3. part \in Seq(Chars) /\ Len(part) = n
    <3>1. \A i \in 1 .. n : inbuf[i] \in Chars
      BY <1>2, <2>1, <2>2
    <3>2. part \in Seq(Chars) /\ Len(part) = IF 1 <= n THEN n - 1 + 1 ELSE 0
      BY <2>2, <3>1, SubSeqProperties
    <3> QED
      BY <2>2, <3>2
  <2> HIDE DEF part
  <2>4. /\ context' = [context EXCEPT !.request.body = @ \o part,
                                      !.recv = IF n = Missing THEN "OVER" ELSE "BODY"]
        /\ inbuf' = SubSeq(inbuf, n + 1, Len(inbuf))
    BY <1>5 DEF RecvHttpBody, part
  <2> HIDE DEF n
  <2>5. inbuf' \in Seq(Chars)
    BY <1>2, <2>2, <2>4, CutType
  <2>6. body \o part \in Seq(Chars) /\ Len(body \o part) = Len(body) + n
    <3>1. body \in Seq(Chars)
      BY <1>2, ContextParts
    <3> QED
      BY <2>3, <3>1, ConcatProperties
  <2>7. /\ context'.request = [context.request EXCEPT !.body = body \o part]
        /\ context'.recv = (IF n = Missing THEN "OVER" ELSE "BODY")
        /\ context'.resq = context.resq
    BY <1>2, <2>4 DEF ContextType, body
  <2>8. /\ context'.request \in RequestType
        /\ context'.request.headers = context.request.headers
        /\ context'.request.body = body \o part
    <3> DEFINE new == body \o part
    <3>1. new \in Seq(Chars) /\ context'.request = [context.request EXCEPT !.body = new]
      BY <2>6, <2>7
    <3>2. context.request \in RequestType
      BY <1>2, ContextParts
    <3> HIDE DEF new
    <3>3. /\ context'.request \in RequestType
          /\ context'.request.headers = context.request.headers
          /\ context'.request.body = new
      BY <3>1, <3>2 DEF RequestType
    <3> QED
      BY <3>3 DEF new
  <2>9. context' \in ContextType
    BY <1>2, <2>4, <2>7, <2>8 DEF ContextType
  <2>10. TypeOK'
    BY <1>1, <2>5, <2>9 DEF TypeOK
  <2>11. Len(body') = Len(body) + n /\ announced' = announced
    BY <2>6, <2>8 DEF body, announced
  <2>12. Len(body) \in Nat /\ announced \in Nat
    BY <1>2, ContextParts
  <2>13. BodyInv'
    <3>1. Len(body') <= announced'
      BY <2>1, <2>2, <2>11, <2>12
    <3>2. context'.recv \notin {"LINE", "HEAD"}
      BY <2>7
    <3> QED
      BY <3>1, <3>2 DEF BodyInv
  <2>14. context'.recv = "BODY" => inbuf' = <<>> /\ Lacking'
    <3> SUFFICES ASSUME context'.recv = "BODY" PROVE inbuf' = <<>> /\ Lacking'
      OBVIOUS
    <3>1. n = Len(inbuf) /\ n < Missing
      BY <2>2, <2>7
    <3>2. n + 1 \in Int /\ Len(inbuf) \in Int /\ Len(inbuf) < n + 1
      BY <2>1, <2>2, <3>1
    <3>3. inbuf' = <<>>
      BY <2>4, <3>2, SubSeqEmpty
    <3>4. Lacking'
      BY <2>1, <2>2, <2>11, <2>12, <3>1 DEF Lacking
    <3> QED
      BY <3>3, <3>4
  <2>15. RestInv'
    BY <1>1, <2>7, <2>14 DEF RestInv
  <2> QED
    BY <1>3, <2>10, <2>13, <2>15
<1> QED
  BY <1>4, <1>5

-----------------------------------------------------------------------------
LEMMA ErrorKeepsParser ==
  ASSUME ParserInv, AnswerError
  PROVE  ParserInv'
<1> USE DEF ParserInv
<1>1. inbuf' = <<>> /\ context' = NewContext /\ pc' = "poll"
  BY DEF AnswerError
<1>2. TypeOK'
  BY <1>1, NewContextType, Constants DEF AnswerError, TypeOK, Error
<1>3. BodyInv'
  <2>1. context' \in ContextType /\ body' = <<>> /\ announced' \in Nat
    BY <1>1, NewContextType, SizeIsNat DEF body, announced, ContextType, RequestType
  <2> QED
    BY <2>1 DEF BodyInv
<1>4. PollInv'
  BY <1>1, NewContextType, Constants DEF PollInv, Exhausted
<1> QED
  BY <1>1, <1>2, <1>3, <1>4 DEF LineInv, HeadInv, RestInv

LEMMA AwaitKeepsParser ==
  ASSUME ParserInv, AwaitMore
  PROVE  ParserInv'
<1> USE DEF ParserInv
<1>1. UNCHANGED <<inbuf, context>> /\ pc = "answer" /\ pc' = "poll" /\ answer' = None
      /\ context.resq < 400 /\ context.recv # "OVER"
  BY DEF AwaitMore
<1>2. TypeOK' /\ BodyInv'
  BY <1>1 DEF AwaitMore, TypeOK, BodyInv, body, announced
<1>3. context.resq = 200 /\ context.recv \in {"LINE", "HEAD", "BODY"}
  <2>1. context.resq \in {200, 400, 414} /\ context.recv \in {"LINE", "HEAD", "BODY", "OVER", "ERR"}
    BY ContextParts DEF TypeOK
  <2>2. context.resq = 200
    BY <1>1, <2>1
  <2>3. context.recv # "ERR"
    BY <1>1, <2>2 DEF RestInv
  <2> QED
    BY <1>1, <2>1, <2>2, <2>3
<1>4. context.recv = "BODY" => inbuf = <<>> /\ Lacking
  BY <1>1 DEF RestInv
<1>5. Exhausted
  <2>1. CASE context.recv = "BODY"
    BY <1>4, <2>1, Constants DEF Exhausted
  <2>2. CASE context.recv # "BODY"
    BY <1>1, <1>3, <2>2 DEF RestInv
  <2> QED
    BY <2>1, <2>2
<1>6. PollInv'
  BY <1>1, <1>3, <1>4, <1>5 DEF PollInv, Exhausted, Lacking, body, announced
<1> QED
  BY <1>1, <1>2, <1>6 DEF LineInv, HeadInv, RestInv

LEMMA AnswerKeepsParser ==
  ASSUME ParserInv, NEW own \in Own, AnswerRequest(own)
  PROVE  ParserInv'
<1> USE DEF ParserInv
<1>1. /\ inbuf' = inbuf /\ context' = NewContext /\ pc' = OnMessage(inbuf)
      /\ answer' = WriteResponse(own) /\ unsent' = TRUE /\ refused' = refused
      /\ status' \in {"closing", status}
  BY DEF AnswerRequest
<1>2. pc' \in {"poll", "line"} /\ (pc' = "poll" => inbuf = <<>>)
  BY <1>1 DEF OnMessage
<1>3. answer' \in [kind : {"response"}, body : Seq(Chars), close : BOOLEAN]
  <2>1. context.request.body \in Seq(Chars)
    BY ContextParts DEF TypeOK, body
  <2> QED
    BY <1>1, <2>1 DEF WriteResponse
<1>4. TypeOK'
  BY <1>1, <1>2, <1>3, NewContextType DEF TypeOK
<1>5. BodyInv'
  <2>1. context' \in ContextType /\ body' = <<>> /\ announced' \in Nat
    BY <1>1, NewContextType, SizeIsNat DEF body, announced, ContextType, RequestType
  <2> QED
    BY <2>1 DEF BodyInv
<1>6. PollInv'
  BY <1>1, <1>2, NewContextType, Constants DEF PollInv, Exhausted
<1>7. LineInv'
  BY <1>1, NewContextType DEF LineInv
<1> QED
  BY <1>2, <1>4, <1>5, <1>6, <1>7 DEF HeadInv, RestInv

LEMMA WriteKeepsParser ==
  ASSUME ParserInv, HanderWrite
  PROVE  ParserInv'
<1> USE DEF ParserInv
<1>1. UNCHANGED parserVars /\ answer' = None /\ unsent' = FALSE /\ refused' = refused
      /\ status' \in {"closed", status}
  BY DEF HanderWrite
<1>2. TypeOK'
  BY <1>1 DEF TypeOK, parserVars
<1> QED
  BY <1>1, <1>2 DEF BodyInv, PollInv, LineInv, HeadInv, RestInv, Exhausted, Lacking, body,
                    announced, parserVars

THEOREM ParserCorrect == Spec => []ParserInv
<1>1. ParserInv /\ [Next]_vars => ParserInv'
  <2> SUFFICES ASSUME ParserInv, [Next]_vars PROVE ParserInv'
    OBVIOUS
  <2>1. CASE UNCHANGED vars
    BY <2>1 DEF vars, parserVars, connVars, ParserInv, TypeOK, BodyInv, PollInv, LineInv, HeadInv,
                RestInv, Exhausted, Lacking, body, announced
  <2>2. CASE Parse
    BY <2>2, LineKeepsParser, HeadKeepsParser, BodyKeepsParser DEF Parse, RecvHttpRequest
  <2>3. CASE \E seg \in Segments : HanderRead(seg)
    BY <2>3, ReadKeepsParser
  <2>4. CASE \E own \in Own : AnswerRequest(own)
    BY <2>4, AnswerKeepsParser
  <2> QED
    BY <2>1, <2>2, <2>3, <2>4, ErrorKeepsParser, AwaitKeepsParser, WriteKeepsParser DEF Next
<1> QED
  BY <1>1, InitParser, PTL DEF Spec

(* The parser, the connection and its answers keep their types.            *)
THEOREM TypeCorrect == Spec => []TypeOK
BY ParserCorrect, PTL DEF ParserInv

(* Wherever the stream is cut, OnMessage returns only to wait for more of  *)
(* a sound request.                                                        *)
THEOREM AwaitsMore == Spec => []ParserAwaitsMore
<1>1. ParserInv => ParserAwaitsMore
  BY DEF ParserInv, PollInv, ParserAwaitsMore, AtRest, Exhausted, Lacking, body, announced
<1> QED
  BY <1>1, ParserCorrect, PTL

(* A connection keeps no more than a line of MAX_LINE and the body that    *)
(* was announced.                                                          *)
THEOREM InputStaysBounded == Spec => []InputBounded
<1>1. ParserInv => InputBounded
  BY DEF ParserInv, BodyInv, PollInv, InputBounded, AtRest, Exhausted, body, announced
<1> QED
  BY <1>1, ParserCorrect, PTL
-----------------------------------------------------------------------------
(* The recursion of After, by induction on its bound: where it fails there *)
(* is a least bound for which it does.                                     *)
ReaderAt(f, i, r, text) == IF i = 0 THEN r ELSE Stream!Byte(f[i - 1], text[i])
Reads(f, r, text, n) == f = [i \in 0 .. n |-> ReaderAt(f, i, r, text)]

LEMMA ReadsExists ==
  ASSUME NEW r, NEW text, NEW n \in Nat
  PROVE  \E f : Reads(f, r, text, n)
<1> DEFINE Failing == {m \in Nat : ~\E f : Reads(f, r, text, m)}
<1> SUFFICES ASSUME Failing # {} PROVE FALSE
  OBVIOUS
<1>1. PICK k \in Failing : \A j \in Failing : k <= j
  <2>1. Failing \in SUBSET Nat
    OBVIOUS
  <2> QED
    BY <2>1, LeastExists
<1>2. k # 0
  <2>1. ASSUME k = 0 PROVE FALSE
    <3> DEFINE f == [i \in 0 .. 0 |-> r]
    <3>1. Reads(f, r, text, 0)
      BY DEF Reads, ReaderAt
    <3> QED
      BY <2>1, <3>1
  <2> QED
    BY <2>1
<1>3. k - 1 \in Nat /\ k - 1 \notin Failing
  BY <1>1, <1>2
<1>4. PICK g : Reads(g, r, text, k - 1)
  BY <1>3
<1> DEFINE f == [i \in 0 .. k |-> IF i = k THEN Stream!Byte(g[k - 1], text[k]) ELSE g[i]]
<1>5. \A i \in 0 .. k : f[i] = ReaderAt(f, i, r, text)
  <2> SUFFICES ASSUME NEW i \in 0 .. k PROVE f[i] = ReaderAt(f, i, r, text)
    OBVIOUS
  <2>1. CASE i = k
    BY <1>2, <1>3, <2>1 DEF ReaderAt
  <2>2. CASE i # k
    <3>1. i \in 0 .. k - 1 /\ f[i] = g[i]
      BY <1>3, <2>2
    <3>2. g[i] = ReaderAt(g, i, r, text)
      BY <1>4, <3>1 DEF Reads
    <3>3. i # 0 => i - 1 \in 0 .. k /\ i - 1 # k /\ f[i - 1] = g[i - 1]
      BY <1>3, <3>1
    <3> QED
      BY <3>1, <3>2, <3>3 DEF ReaderAt
  <2> QED
    BY <2>1, <2>2
<1>6. Reads(f, r, text, k)
  <2>1. f = [i \in 0 .. k |-> f[i]]
    OBVIOUS
  <2> HIDE DEF f
  <2> QED
    BY <1>5, <2>1 DEF Reads
<1> QED
  BY <1>1, <1>6

LEMMA ReadsAgree ==
  ASSUME NEW r, NEW text, NEW n \in Nat, NEW m \in Nat, n <= m,
         NEW f, Reads(f, r, text, n), NEW g, Reads(g, r, text, m)
  PROVE  f[n] = g[n]
<1> DEFINE Differing == {i \in 0 .. n : f[i] # g[i]}
<1>1. \A i \in 0 .. n : f[i] = ReaderAt(f, i, r, text) /\ g[i] = ReaderAt(g, i, r, text)
  <2>1. \A i \in 0 .. n : f[i] = ReaderAt(f, i, r, text)
    BY DEF Reads
  <2>2. \A i \in 0 .. m : g[i] = ReaderAt(g, i, r, text)
    BY DEF Reads
  <2>3. 0 .. n \subseteq 0 .. m
    OBVIOUS
  <2> QED
    BY <2>1, <2>2, <2>3
<1>2. ASSUME Differing # {} PROVE FALSE
  <2>1. Differing \in SUBSET Nat
    OBVIOUS
  <2>2. PICK k \in Differing : \A j \in Differing : k <= j
    BY <1>2, <2>1, LeastExists
  <2>3. k # 0
    BY <1>1, <2>2 DEF ReaderAt
  <2>4. f[k - 1] = g[k - 1]
    BY <2>2, <2>3
  <2> QED
    BY <1>1, <2>2, <2>3, <2>4 DEF ReaderAt
<1> QED
  BY <1>2

(* Nothing read; and one byte more.                                        *)
LEMMA AfterNothing ==
  ASSUME NEW r, NEW text
  PROVE  Stream!After(r, text, 0) = r
<1> DEFINE f == CHOOSE f : Reads(f, r, text, 0)
<1>1. Stream!After(r, text, 0) = f[0]
  BY DEF Stream!After, Reads, ReaderAt
<1>2. Reads(f, r, text, 0)
  BY ReadsExists, Zenon
<1> HIDE DEF f
<1> QED
  BY <1>1, <1>2 DEF Reads, ReaderAt

LEMMA AfterOneMore ==
  ASSUME NEW r, NEW text, NEW n \in Nat
  PROVE  Stream!After(r, text, n + 1) = Stream!Byte(Stream!After(r, text, n), text[n + 1])
<1> DEFINE f == CHOOSE f : Reads(f, r, text, n + 1)
           g == CHOOSE g : Reads(g, r, text, n)
<1>1. Stream!After(r, text, n + 1) = f[n + 1] /\ Stream!After(r, text, n) = g[n]
  BY DEF Stream!After, Reads, ReaderAt
<1>2. Reads(f, r, text, n + 1)
  <2>1. n + 1 \in Nat
    OBVIOUS
  <2> QED
    BY <2>1, ReadsExists, Zenon
<1>3. Reads(g, r, text, n)
  BY ReadsExists, Zenon
<1> HIDE DEF f, g
<1>4. f[n] = g[n]
  BY <1>2, <1>3, ReadsAgree
<1>5. f[n + 1] = ReaderAt(f, n + 1, r, text)
  BY <1>2 DEF Reads
<1> QED
  BY <1>1, <1>4, <1>5 DEF ReaderAt

-----------------------------------------------------------------------------
(* What the reader makes of the text in the buffer, a line or a part of a  *)
(* body at once.                                                           *)
At(stage, line, request) == [stage |-> stage, line |-> line, request |-> request]

LEMMA SameWords ==
  /\ \A text : (Stream!HasLine(text) <=> HasLine(text)) /\ Stream!Line(text) = Line(text)
  /\ \A line : /\ Stream!IsBlank(line) <=> IsBlank(line)
               /\ Stream!IsRequestLine(line) <=> IsRequestLine(line)
               /\ Stream!IsHeader(line) <=> IsHeader(line)
  /\ \A headers : /\ Stream!BodySize(headers) = BodySize(headers)
                  /\ Stream!Is_Cose(headers) <=> Is_Cose(headers)
                  /\ \A line : Stream!SetHeader(headers, line) = SetHeader(headers, line)
  /\ Stream!NewRequest = NewRequest
  /\ Stream!Segments = Segments
<1>1. /\ \A text : (Stream!HasLine(text) <=> HasLine(text))
  BY DEF Stream!HasLine, HasLine
<1>2. \A text : Stream!Line(text) = Line(text)
  BY DEF Stream!HasLine, HasLine, Stream!Line, Line, Stream!LineEnd, LineEnd
<1>3. \A line : Stream!Content(line) = Content(line)
  BY DEF Stream!Content, Content
<1>4. \A line : /\ Stream!IsBlank(line) <=> IsBlank(line)
                /\ Stream!IsRequestLine(line) <=> IsRequestLine(line)
                /\ Stream!IsHeader(line) <=> IsHeader(line)
  BY <1>3 DEF Stream!IsBlank, IsBlank, Stream!IsRequestLine, IsRequestLine, Stream!IsHeader,
              IsHeader, Stream!Headers, Headers
<1>5. \A headers : /\ Stream!BodySize(headers) = BodySize(headers)
                   /\ Stream!Is_Cose(headers) <=> Is_Cose(headers)
  BY DEF Stream!BodySize, BodySize, Stream!Is_Cose, Is_Cose
<1>6. \A headers, line : Stream!SetHeader(headers, line) = SetHeader(headers, line)
  BY <1>3 DEF Stream!SetHeader, SetHeader, Stream!Headers, Headers
<1>7. Stream!NewRequest = NewRequest
  BY DEF Stream!NewRequest, NewRequest, Stream!NoHeaders, NoHeaders, Stream!Headers, Headers
<1>8. Stream!Segments = Segments
  BY DEF Stream!Segments, Segments
<1> QED
  BY <1>1, <1>2, <1>4, <1>5, <1>6, <1>7, <1>8

LEMMA PrefixGrows ==
  ASSUME NEW text \in Seq(Chars), NEW n \in Nat, n + 1 \in 1 .. Len(text)
  PROVE  Append(SubSeq(text, 1, n), text[n + 1]) = SubSeq(text, 1, n + 1)
<1> DEFINE s == SubSeq(text, 1, n)
           t == SubSeq(text, 1, n + 1)
<1>1. s \in Seq(Chars) /\ Len(s) = n /\ t \in Seq(Chars) /\ Len(t) = n + 1
  <2>1. n \in 0 .. Len(text) /\ n + 1 \in 0 .. Len(text)
    OBVIOUS
  <2> QED
    BY <2>1, PrefixType
<1>2. \A i \in 1 .. n : s[i] = text[i]
  OBVIOUS
<1>3. \A i \in 1 .. n + 1 : t[i] = text[i]
  OBVIOUS
<1>4. text[n + 1] \in Chars
  OBVIOUS
<1> HIDE DEF s, t
<1> DEFINE a == Append(s, text[n + 1])
<1>5. a \in Seq(Chars) /\ Len(a) = n + 1 /\ (\A i \in 1 .. n : a[i] = s[i]) /\ a[n + 1] = text[n + 1]
  BY <1>1, <1>4, AppendProperties
<1> HIDE DEF a
<1>6. \A i \in 1 .. n + 1 : a[i] = t[i]
  BY <1>2, <1>3, <1>5
<1>7. a = t
  BY <1>1, <1>5, <1>6, SeqEqual
<1> QED
  BY <1>7 DEF a, s, t

(* A line that is not yet whole. *)
LEMMA PrefixRead ==
  ASSUME NEW text \in Seq(Chars), NEW stage \in {"line", "head"}, NEW request,
         NEW n \in 0 .. Len(text), n <= MAX_LINE, \A i \in 1 .. n : text[i] # LF
  PROVE  Stream!After(At(stage, <<>>, request), text, n) = At(stage, SubSeq(text, 1, n), request)
<1> DEFINE r == At(stage, <<>>, request)
           Failing == {m \in 0 .. n : Stream!After(r, text, m) # At(stage, SubSeq(text, 1, m), request)}
<1> SUFFICES ASSUME Failing # {} PROVE FALSE
  OBVIOUS
<1>1. PICK k \in Failing : \A j \in Failing : k <= j
  <2>1. Failing \in SUBSET Nat
    OBVIOUS
  <2> QED
    BY <2>1, LeastExists
<1>2. k # 0
  <2>1. Stream!After(r, text, 0) = r
    BY AfterNothing
  <2>2. SubSeq(text, 1, 0) = <<>>
    OBVIOUS
  <2> QED
    BY <1>1, <2>1, <2>2
<1>3. PICK m \in Nat : k = m + 1
  BY <1>1, <1>2
<1>4. m \in 0 .. n /\ m \notin Failing /\ m + 1 \in 1 .. Len(text) /\ m + 1 <= MAX_LINE /\ MAX_LINE \in Nat
  BY <1>1, <1>3, HttpAssumption
<1>5. Stream!After(r, text, m) = At(stage, SubSeq(text, 1, m), request)
  BY <1>4
<1>6. Stream!After(r, text, m + 1) = Stream!Byte(At(stage, SubSeq(text, 1, m), request), text[m + 1])
  BY <1>5, AfterOneMore
<1>7. Append(SubSeq(text, 1, m), text[m + 1]) = SubSeq(text, 1, m + 1)
  BY <1>4, PrefixGrows
<1>8. Len(SubSeq(text, 1, m + 1)) = m + 1
  <2>1. m + 1 \in 0 .. Len(text)
    BY <1>4
  <2> QED
    BY <2>1, PrefixType
<1>9. text[m + 1] # LF
  BY <1>1, <1>3
<1>10. Stream!Byte(At(stage, SubSeq(text, 1, m), request), text[m + 1])
         = At(stage, SubSeq(text, 1, m + 1), request)
  <2> DEFINE s == SubSeq(text, 1, m)
             t == SubSeq(text, 1, m + 1)
  <2>1. Append(s, text[m + 1]) = t /\ ~(Len(t) > MAX_LINE)
    BY <1>4, <1>7, <1>8
  <2> HIDE DEF s, t
  <2>2. Stream!Byte(At(stage, s, request), text[m + 1]) = At(stage, t, request)
    BY <1>9, <2>1 DEF Stream!Byte, At
  <2> QED
    BY <2>2 DEF s, t
<1> QED
  BY <1>1, <1>3, <1>6, <1>10

(* A line that is whole, and not too long. *)
LEMMA LineRead ==
  ASSUME NEW text \in Seq(Chars), HasLine(text), Len(Line(text)) <= MAX_LINE,
         NEW stage \in {"line", "head"}, NEW request
  PROVE  \E part : Stream!After(At(stage, <<>>, request), text, Len(Line(text)))
                     = Stream!EndOfLine(At(stage, part, request), Line(text))
<1>1. PICK n \in Nat : n + 1 = LineEnd(text)
  <2>1. LineEnd(text) - 1 \in Nat /\ (LineEnd(text) - 1) + 1 = LineEnd(text)
    BY FirstLine
  <2> QED
    BY <2>1
<1>2. /\ n \in 0 .. Len(text) /\ n + 1 \in 1 .. Len(text) /\ n <= MAX_LINE /\ n + 1 <= MAX_LINE
      /\ text[n + 1] = LF /\ \A j \in 1 .. n : text[j] # LF
      /\ Line(text) = SubSeq(text, 1, n + 1) /\ Len(Line(text)) = n + 1
  BY <1>1, FirstLine, HttpAssumption
<1> DEFINE part == SubSeq(text, 1, n)
           line == Line(text)
<1>3. Stream!After(At(stage, <<>>, request), text, n) = At(stage, part, request)
  BY <1>2, PrefixRead
<1>4. Stream!After(At(stage, <<>>, request), text, n + 1)
        = Stream!Byte(At(stage, part, request), text[n + 1])
  BY <1>3, AfterOneMore
<1>5. Append(part, LF) = line /\ ~(Len(line) > MAX_LINE)
  BY <1>2, PrefixGrows, HttpAssumption
<1> HIDE DEF part, line
<1>6. Stream!Byte(At(stage, part, request), LF) = Stream!EndOfLine(At(stage, part, request), line)
  BY <1>5 DEF Stream!Byte, At
<1> QED
  BY <1>2, <1>4, <1>6 DEF line

(* A line that is too long, whole or not. *)
LEMMA TooLongRead ==
  ASSUME NEW text \in Seq(Chars), Len(IF HasLine(text) THEN Line(text) ELSE text) > MAX_LINE,
         NEW stage \in {"line", "head"}, NEW request
  PROVE  /\ MAX_LINE + 1 \in 0 .. Len(text)
         /\ Stream!After(At(stage, <<>>, request), text, MAX_LINE + 1) = Stream!BadReader
<1>1. /\ MAX_LINE \in Nat /\ MAX_LINE \in 0 .. Len(text) /\ MAX_LINE + 1 \in 1 .. Len(text)
      /\ \A j \in 1 .. MAX_LINE : text[j] # LF
  <2>1. CASE HasLine(text)
    BY <2>1, FirstLine, HttpAssumption
  <2>2. CASE ~HasLine(text)
    BY <2>2, HttpAssumption DEF HasLine
  <2> QED
    BY <2>1, <2>2
<1> DEFINE part == SubSeq(text, 1, MAX_LINE)
           long == SubSeq(text, 1, MAX_LINE + 1)
<1>2. Stream!After(At(stage, <<>>, request), text, MAX_LINE) = At(stage, part, request)
  <2>1. MAX_LINE <= MAX_LINE
    BY <1>1
  <2> QED
    BY <1>1, <2>1, PrefixRead
<1>3. Stream!After(At(stage, <<>>, request), text, MAX_LINE + 1)
        = Stream!Byte(At(stage, part, request), text[MAX_LINE + 1])
  BY <1>1, <1>2, AfterOneMore
<1>4. Append(part, text[MAX_LINE + 1]) = long /\ Len(long) > MAX_LINE
  <2>1. Append(part, text[MAX_LINE + 1]) = long
    BY <1>1, PrefixGrows
  <2>2. MAX_LINE + 1 \in 0 .. Len(text)
    BY <1>1
  <2>3. Len(long) = MAX_LINE + 1
    BY <2>2, PrefixType
  <2> QED
    BY <1>1, <2>1, <2>3
<1> HIDE DEF part, long
<1>5. Stream!Byte(At(stage, part, request), text[MAX_LINE + 1]) = Stream!BadReader
  BY <1>4 DEF Stream!Byte, At
<1> QED
  BY <1>1, <1>3, <1>5

(* A part of a body. *)
LEMMA ConcatAppend ==
  ASSUME NEW s \in Seq(Chars), NEW t \in Seq(Chars), NEW c \in Chars
  PROVE  Append(s \o t, c) = s \o Append(t, c)
OBVIOUS

WithBody(request, text, n) == [request EXCEPT !.body = @ \o SubSeq(text, 1, n)]

LEMMA BodyRead ==
  ASSUME NEW text \in Seq(Chars), NEW request \in RequestType,
         Len(request.body) < BodySize(request.headers),
         NEW n \in 0 .. Len(text), Len(request.body) + n <= BodySize(request.headers)
  PROVE  Stream!After(At("body", <<>>, request), text, n)
           = At(IF Len(request.body) + n = BodySize(request.headers) THEN "over" ELSE "body",
                <<>>, WithBody(request, text, n))
<1> DEFINE r == At("body", <<>>, request)
           size == BodySize(request.headers)
           have == Len(request.body)
           Result(m) == At(IF have + m = size THEN "over" ELSE "body", <<>>, WithBody(request, text, m))
           Failing == {m \in 0 .. n : Stream!After(r, text, m) # Result(m)}
<1> SUFFICES ASSUME Failing # {} PROVE FALSE
  OBVIOUS
<1>0. /\ request.body \in Seq(Chars) /\ have \in Nat /\ size \in Nat
      /\ request.headers \in [Headers -> {"absent", "exact", "longer"}]
  BY SizeIsNat DEF RequestType
<1>1. PICK k \in Failing : \A j \in Failing : k <= j
  <2>1. Failing \in SUBSET Nat
    OBVIOUS
  <2> QED
    BY <2>1, LeastExists
<1>2. k # 0
  <2>1. Stream!After(r, text, 0) = r
    BY AfterNothing
  <2>2. SubSeq(text, 1, 0) = <<>> /\ request.body \o <<>> = request.body
    BY <1>0, ConcatEmptySeq
  <2>3. WithBody(request, text, 0) = request
    BY <2>2 DEF WithBody, RequestType
  <2>4. Result(0) = r
    BY <1>0, <2>3
  <2> QED
    BY <1>1, <2>1, <2>4
<1>3. PICK m \in Nat : k = m + 1
  BY <1>1, <1>2
<1>4. m \in 0 .. n /\ m \notin Failing /\ m + 1 \in 1 .. Len(text) /\ have + m < size
  BY <1>0, <1>1, <1>3
<1>5. Stream!After(r, text, m) = At("body", <<>>, WithBody(request, text, m))
  BY <1>0, <1>4
<1>6. Stream!After(r, text, m + 1) = Stream!Byte(At("body", <<>>, WithBody(request, text, m)), text[m + 1])
  BY <1>5, AfterOneMore
<1> DEFINE s == SubSeq(text, 1, m)
           t == SubSeq(text, 1, m + 1)
           old == request.body \o s
           new == request.body \o t
<1>7. s \in Seq(Chars) /\ t \in Seq(Chars) /\ Len(t) = m + 1 /\ Append(s, text[m + 1]) = t
  <2>1. m \in 0 .. Len(text) /\ m + 1 \in 0 .. Len(text)
    BY <1>4
  <2> QED
    BY <1>4, <2>1, PrefixType, PrefixGrows
<1>8. text[m + 1] \in Chars
  BY <1>4
<1> HIDE DEF s, t
<1>9. Append(old, text[m + 1]) = new /\ new \in Seq(Chars) /\ Len(new) = have + (m + 1)
  <2>1. Append(request.body \o s, text[m + 1]) = request.body \o Append(s, text[m + 1])
    BY <1>0, <1>7, <1>8, ConcatAppend
  <2>2. request.body \o t \in Seq(Chars) /\ Len(request.body \o t) = Len(request.body) + Len(t)
    BY <1>0, <1>7, ConcatProperties
  <2> QED
    BY <1>7, <2>1, <2>2
<1>10. Stream!Byte(At("body", <<>>, WithBody(request, text, m)), text[m + 1]) = Result(m + 1)
  <2>1. WithBody(request, text, m) = [request EXCEPT !.body = old]
        /\ WithBody(request, text, m + 1) = [request EXCEPT !.body = new]
    BY DEF WithBody, s, t, RequestType
  <2>2. Stream!BodySize(request.headers) = size
    BY SameWords
  <2> HIDE DEF old, new, have, size
  <2>3. Stream!Byte(At("body", <<>>, [request EXCEPT !.body = old]), text[m + 1])
          = At(IF have + (m + 1) = size THEN "over" ELSE "body", <<>>, [request EXCEPT !.body = new])
    BY <1>9, <2>2 DEF Stream!Byte, At, RequestType
  <2> QED
    BY <2>1, <2>3 DEF have, size
<1> QED
  BY <1>1, <1>3, <1>6, <1>10

-----------------------------------------------------------------------------
(* The steps of the server are those of the stream.                        *)

(* What the mapping rests on besides the parser's invariant: an error is   *)
(* not forgotten while the connection lives, a closed connection is not    *)
(* handled, a request that is read from its beginning is empty, and a body *)
(* that is waited for lacks something unless none was announced.           *)
StreamInv ==
  /\ refused => status # "open"
  /\ pc # "poll" \/ unsent => status # "closed"
  /\ context.recv = "LINE" => context.request = NewRequest
  /\ context.recv = "BODY" => Lacking \/ announced = 0

LEMMA HeadStepKeepsRequest ==
  ASSUME ParserInv, StreamInv, RecvHttpHead
  PROVE  /\ context'.recv # "LINE" \/ context' = context
         /\ context'.recv = "BODY" => Lacking' \/ announced' = 0
<1>1. context \in ContextType
  BY DEF ParserInv, TypeOK
<1>2. CASE context' = context
  BY <1>2 DEF StreamInv, Lacking, announced, body
<1>3. CASE context' = Fail(414) \/ context' = Fail(400)
  <2>1. context'.recv = "ERR"
    BY <1>1, <1>3, FailType
  <2> QED
    BY <2>1
<1>4. CASE context.recv = "HEAD" /\ context' = [context EXCEPT !.recv = "BODY"]
  <2>1. context'.request = context.request /\ context'.recv = "BODY"
    BY <1>1, <1>4 DEF ContextType
  <2>2. body = <<>> /\ announced \in Nat
    BY <1>1, <1>4, ContextParts DEF ParserInv, BodyInv
  <2>3. Lacking \/ announced = 0
    BY <2>2 DEF Lacking
  <2> QED
    BY <2>1, <2>3 DEF Lacking, announced, body
<1>5. CASE context.recv = "HEAD" /\ \E h : context' = [context EXCEPT !.request.headers = h]
  BY <1>1, <1>5 DEF ContextType
<1> QED
  BY <1>2, <1>3, <1>4, <1>5 DEF RecvHttpHead

LEMMA ParserKeepsStream ==
  ASSUME ParserInv, StreamInv, Parse
  PROVE  StreamInv'
<1>1. pc # "poll" /\ UNCHANGED <<status, unsent, refused>>
  BY DEF Parse, RecvHttpRequest, RecvHttpLine, RecvHttpHead, RecvHttpBody
<1>2. context \in ContextType /\ inbuf \in Seq(Chars)
  BY DEF ParserInv, TypeOK
<1>3. context'.recv = "LINE" => context'.request = NewRequest
  <2>1. CASE RecvHttpLine
    <3>1. context' = context \/ context' \in {Fail(414), [context EXCEPT !.recv = "HEAD"],
                                             [context EXCEPT !.recv = "HEAD", !.resq = 400]}
      BY <2>1 DEF RecvHttpLine
    <3>2. context' # context => context'.recv # "LINE"
      BY <1>2, <3>1, FailType, ToHeadType
    <3> QED
      BY <3>2 DEF StreamInv
  <2>2. CASE RecvHttpHead
    BY <2>2, HeadStepKeepsRequest DEF StreamInv
  <2>3. CASE RecvHttpBody
    <3>1. CASE context.recv # "BODY"
      BY <2>3, <3>1 DEF RecvHttpBody, StreamInv
    <3>2. CASE context.recv = "BODY"
      <4> DEFINE n == IF Len(inbuf) >= Missing THEN Missing ELSE Len(inbuf)
      <4>1. context' = [context EXCEPT !.request.body = @ \o SubSeq(inbuf, 1, n),
                                       !.recv = IF n = Missing THEN "OVER" ELSE "BODY"]
        BY <2>3, <3>2 DEF RecvHttpBody
      <4> HIDE DEF n
      <4>2. context'.recv \in {"OVER", "BODY"}
        BY <1>2, <4>1 DEF ContextType
      <4> QED
        BY <4>2
    <3> QED
      BY <3>1, <3>2
  <2> QED
    BY <2>1, <2>2, <2>3 DEF Parse, RecvHttpRequest
<1>4. context'.recv = "BODY" => Lacking' \/ announced' = 0
  <2>1. CASE RecvHttpLine
    <3>1. context' = context \/ context' \in {Fail(414), [context EXCEPT !.recv = "HEAD"],
                                             [context EXCEPT !.recv = "HEAD", !.resq = 400]}
      BY <2>1 DEF RecvHttpLine
    <3>2. context' # context => context'.recv # "BODY"
      BY <1>2, <3>1, FailType, ToHeadType
    <3> QED
      BY <3>2 DEF StreamInv, Lacking, announced, body
  <2>2. CASE RecvHttpHead
    BY <2>2, HeadStepKeepsRequest
  <2>3. CASE RecvHttpBody
    <3>1. ParserInv'
      BY <1>1, <2>3, BodyKeepsParser DEF Parse
    <3>2. pc' = "answer"
      BY <2>3 DEF RecvHttpBody
    <3> QED
      BY <3>1, <3>2 DEF ParserInv, RestInv
  <2> QED
    BY <2>1, <2>2, <2>3 DEF Parse, RecvHttpRequest
<1> QED
  BY <1>1, <1>3, <1>4 DEF StreamInv

LEMMA StreamCorrect == Spec => []StreamInv
<1>1. Init => StreamInv
  BY DEF Init, StreamInv, NewContext
<1>2. ParserInv /\ StreamInv /\ [Next]_vars => StreamInv'
  <2> SUFFICES ASSUME ParserInv, StreamInv, [Next]_vars PROVE StreamInv'
    OBVIOUS
  <2> DEFINE FreshContext == context' = NewContext
  <2>1. FreshContext =>
          /\ context'.recv = "LINE" => context'.request = NewRequest
          /\ context'.recv # "BODY"
    BY DEF NewContext
  <2>2. UNCHANGED context =>
          /\ context'.recv = "LINE" => context'.request = NewRequest
          /\ context'.recv = "BODY" => Lacking' \/ announced' = 0
    BY DEF StreamInv, Lacking, announced, body
  <2>3. CASE Parse
    BY <2>3, ParserKeepsStream
  <2>4. CASE \E seg \in Segments : HanderRead(seg)
    BY <2>2, <2>4 DEF HanderRead, StreamInv
  <2>5. CASE AnswerError
    BY <2>1, <2>5 DEF AnswerError, StreamInv
  <2>6. CASE AwaitMore
    BY <2>2, <2>6 DEF AwaitMore, StreamInv
  <2>7. CASE \E own \in Own : AnswerRequest(own)
    BY <2>1, <2>7 DEF AnswerRequest, StreamInv
  <2>8. CASE HanderWrite
    BY <2>2, <2>8 DEF HanderWrite, StreamInv, parserVars
  <2>9. CASE UNCHANGED vars
    BY <2>2, <2>9 DEF vars, parserVars, connVars, StreamInv
  <2> QED
    BY <2>3, <2>4, <2>5, <2>6, <2>7, <2>8, <2>9 DEF Next
<1> QED
  BY <1>1, <1>2, ParserCorrect, PTL DEF Spec

-----------------------------------------------------------------------------
(* The variables of the stream, as HttpServer maps them.                   *)
unread == IF refused \/ bad THEN <<>> ELSE inbuf
reader ==
  [stage |-> IF refused THEN "line" ELSE Stage, line |-> <<>>,
   request |-> IF refused \/ bad THEN NewRequest ELSE context.request]
said == IF refused /\ status # "closed" THEN Error ELSE answer

LEMMA ReadStep ==
  ASSUME NEW n \in 0 .. Len(unread), status # "closed", UNCHANGED <<status, refused>>,
         reader' = Stream!After(reader, unread, n), reader'.stage # "spilled",
         unread' = IF reader'.stage = "bad" THEN <<>> ELSE SubSeq(unread, n + 1, Len(unread)),
         said' = None
  PROVE  Stream!Next
<1>1. Stream!Read(n)
  BY DEF Stream!Read, Stream!None, None, unread, reader, said
<1>2. n \in 0 .. Len(IF refused \/ bad THEN <<>> ELSE inbuf)
  BY DEF unread
<1> QED
  BY <1>1, <1>2 DEF Stream!Next

LEMMA StageIs ==
  ASSUME context \in ContextType
  PROVE  Stage \in {"line", "head", "body", "over", "bad"}
BY ContextParts DEF Stage

(* Nothing read: what the stream would answer with is not there.           *)
LEMMA WaitStep ==
  ASSUME inbuf \in Seq(Chars), context \in ContextType, ~refused, status # "closed",
         UNCHANGED <<status, refused, unread, reader>>, answer' = None
  PROVE  Stream!Next
<1>1. unread \in Seq(Chars) /\ (bad => unread = <<>>)
  BY Constants DEF unread
<1>2. reader' = Stream!After(reader, unread, 0)
  BY AfterNothing
<1>3. reader'.stage = Stage
  BY DEF reader
<1>4. unread' = IF reader'.stage = "bad" THEN <<>> ELSE SubSeq(unread, 0 + 1, Len(unread))
  <2>1. Stage = "bad" => bad
    BY ContextParts DEF Stage
  <2>2. SubSeq(unread, 0 + 1, Len(unread)) = unread
    BY <1>1, SubSeqFull
  <2> QED
    BY <1>1, <1>3, <2>1, <2>2
<1>5. said' = None
  BY DEF said
<1>6. 0 \in 0 .. Len(unread)
  BY <1>1
<1>7. reader'.stage # "spilled"
  BY <1>3, StageIs
<1> HIDE DEF reader, unread, said
<1> QED
  BY <1>2, <1>4, <1>5, <1>6, <1>7, ReadStep

(* After an error was answered the stream stands still until the close.    *)
LEMMA RefusedStep ==
  ASSUME StreamInv, refused, refused', status # "closed", UNCHANGED status
  PROVE  UNCHANGED Stream!vars
BY DEF Stream!vars, StreamInv

LEMMA ArriveStep ==
  ASSUME ParserInv, StreamInv, NEW seg \in Segments, HanderRead(seg)
  PROVE  [Stream!Next]_(Stream!vars)
<1>1. pc = "poll" /\ status # "closed" /\ inbuf' = inbuf \o seg /\ answer' = None
      /\ UNCHANGED <<context, status, unsent, refused>>
  BY DEF HanderRead
<1>2. CASE refused
  BY <1>1, <1>2, RefusedStep
<1>3. CASE ~refused
  <2>1. ~bad /\ ~bad'
    BY <1>1 DEF ParserInv, PollInv, bad
  <2>2. Stage' = Stage
    BY <1>1, <2>1 DEF Stage
  <2>3. Stream!Arrive(seg)
    BY <1>1, <1>3, <2>1, <2>2 DEF Stream!Arrive, Stream!None, None
  <2>4. seg \in Stream!Segments
    BY SameWords
  <2> QED
    BY <2>3, <2>4 DEF Stream!Next
<1> QED
  BY <1>2, <1>3

LEMMA LineStep ==
  ASSUME ParserInv, StreamInv, RecvHttpLine, answer' = None, UNCHANGED <<status, unsent, refused>>
  PROVE  [Stream!Next]_(Stream!vars)
<1>1. pc = "line" /\ status # "closed" /\ inbuf \in Seq(Chars) /\ context \in ContextType
  BY DEF RecvHttpLine, ParserInv, TypeOK, StreamInv
<1>2. CASE refused
  BY <1>1, <1>2, RefusedStep
<1>3. CASE ~refused /\ UNCHANGED <<inbuf, context>>
  <2>1. UNCHANGED <<unread, reader>>
    BY <1>3 DEF unread, reader, Stage, bad
  <2> QED
    BY <1>1, <1>3, <2>1, WaitStep
<1>4. CASE ~refused /\ context.recv = "LINE" /\ (HasLine(inbuf) \/ TooLong)
  <2>1. ~bad /\ context.resq = 200 /\ context.request = NewRequest
    BY <1>1, <1>4 DEF ParserInv, LineInv, StreamInv, bad
  <2>2. unread = inbuf /\ reader = At("line", <<>>, NewRequest)
    BY <1>4, <2>1 DEF unread, reader, Stage, At
  <2>3. said' = None
    BY <1>4 DEF said
  <2>4. CASE TooLong
    <3>1. context' = Fail(414)
      BY <1>4, <2>4 DEF RecvHttpLine
    <3>2. bad'
      BY <1>1, <3>1, FailType DEF bad
    <3>3. unread' = <<>> /\ reader' = Stream!BadReader
      BY <1>4, <3>2, SameWords DEF unread, reader, Stage, Stream!BadReader, Stream!NewReader
    <3>4. MAX_LINE + 1 \in 0 .. Len(unread)
          /\ Stream!After(reader, unread, MAX_LINE + 1) = Stream!BadReader
      BY <1>1, <2>2, <2>4, TooLongRead DEF TooLong
    <3>5. reader'.stage = "bad"
      BY <3>3 DEF Stream!BadReader, Stream!NewReader
    <3> QED
      BY <1>1, <2>3, <3>3, <3>4, <3>5, ReadStep
  <2>5. CASE ~TooLong /\ HasLine(inbuf)
    <3> DEFINE line == Line(inbuf)
    <3>1. Len(line) <= MAX_LINE /\ Len(line) \in 0 .. Len(unread)
      BY <1>1, <2>2, <2>5, FirstLine, HttpAssumption DEF TooLong
    <3>2. PICK part : Stream!After(reader, unread, Len(line))
                        = Stream!EndOfLine(At("line", part, NewRequest), line)
      BY <1>1, <2>2, <2>5, <3>1, LineRead
    <3>3. inbuf' = SubSeq(inbuf, Len(line) + 1, Len(inbuf))
      BY <1>4 DEF RecvHttpLine, AfterLine
    <3>4. CASE IsRequestLine(line)
      <4>1. context' = [context EXCEPT !.recv = "HEAD"]
        BY <1>4, <2>5, <3>4 DEF RecvHttpLine
      <4>2. context'.recv = "HEAD" /\ context'.request = NewRequest /\ context'.resq = 200
        BY <1>1, <2>1, <4>1 DEF ContextType
      <4>3. reader' = At("head", <<>>, NewRequest) /\ unread' = inbuf'
        BY <1>4, <4>2 DEF reader, unread, Stage, bad, At
      <4>4. Stream!EndOfLine(At("line", part, NewRequest), line) = At("head", <<>>, NewRequest)
        BY <3>4, SameWords DEF Stream!EndOfLine, Stream!NewReader, At
      <4>5. reader'.stage = "head"
        BY <4>3 DEF At
      <4> HIDE DEF line
      <4> QED
        BY <1>1, <2>2, <2>3, <3>1, <3>2, <3>3, <4>3, <4>4, <4>5, ReadStep
    <3>5. CASE ~IsRequestLine(line)
      <4>1. context' = [context EXCEPT !.recv = "HEAD", !.resq = 400]
        BY <1>4, <2>5, <3>5 DEF RecvHttpLine
      <4>2. bad'
        BY <1>1, <4>1 DEF ContextType, bad
      <4>3. unread' = <<>> /\ reader' = Stream!BadReader
        BY <1>4, <4>2, SameWords DEF unread, reader, Stage, Stream!BadReader, Stream!NewReader
      <4>4. Stream!EndOfLine(At("line", part, NewRequest), line) = Stream!BadReader
        BY <3>5, SameWords DEF Stream!EndOfLine, At
      <4>5. reader'.stage = "bad"
        BY <4>3 DEF Stream!BadReader, Stream!NewReader
      <4> HIDE DEF line
      <4> QED
        BY <1>1, <2>3, <3>1, <3>2, <4>3, <4>4, <4>5, ReadStep
    <3> QED
      BY <3>4, <3>5
  <2> QED
    BY <1>4, <2>4, <2>5
<1>5. CASE context.recv = "LINE" /\ ~HasLine(inbuf) /\ ~TooLong
  BY <1>1, <1>2, <1>3, <1>5, NoLineNothingTaken DEF RecvHttpLine
<1> QED
  BY <1>2, <1>3, <1>4, <1>5 DEF RecvHttpLine

LEMMA HeadStep ==
  ASSUME ParserInv, StreamInv, RecvHttpHead, answer' = None, UNCHANGED <<status, unsent, refused>>
  PROVE  [Stream!Next]_(Stream!vars)
<1>1. pc = "head" /\ status # "closed" /\ inbuf \in Seq(Chars) /\ context \in ContextType
  BY DEF RecvHttpHead, ParserInv, TypeOK, StreamInv
<1>2. CASE refused
  BY <1>1, <1>2, RefusedStep
<1>3. CASE ~refused /\ UNCHANGED <<inbuf, context>>
  <2>1. UNCHANGED <<unread, reader>>
    BY <1>3 DEF unread, reader, Stage, bad
  <2> QED
    BY <1>1, <1>3, <2>1, WaitStep
<1> DEFINE line == Line(inbuf)
           headers == context.request.headers
           toBody == [context EXCEPT !.recv = "BODY"]
           toHead == [context EXCEPT !.request.headers = SetHeader(@, line)]
<1>4. toBody.request = context.request /\ toBody.recv = "BODY" /\ toBody.resq = context.resq
  BY <1>1 DEF ContextType
<1>5. toHead.request = [context.request EXCEPT !.headers = SetHeader(headers, line)]
      /\ toHead.recv = context.recv /\ toHead.resq = context.resq
  BY <1>1 DEF ContextType, RequestType
<1>6. CASE ~refused /\ context.recv = "HEAD" /\ (HasLine(inbuf) \/ TooLong)
  <2>1. /\ context' \in {Fail(414), Fail(400), toBody, toHead}
        /\ inbuf' = AfterLine(inbuf)
        /\ TooLong => context' = Fail(414)
        /\ ~TooLong /\ IsBlank(line) => context' = toBody
        /\ ~TooLong /\ ~IsBlank(line) /\ IsHeader(line) => context' = toHead
        /\ ~TooLong /\ ~IsBlank(line) /\ ~IsHeader(line) => context' = Fail(400)
    BY <1>6 DEF RecvHttpHead
  <2>2. said' = None
    BY <1>6 DEF said
  (* Lines after an error do not count. *)
  <2>3. CASE bad
    <3>1. context'.resq \in {400, 414, context.resq}
      <4>1. Fail(400).resq = 400 /\ Fail(414).resq = 414
        BY <1>1, FailType
      <4> HIDE DEF toBody, toHead
      <4> QED
        BY <1>4, <1>5, <2>1, <4>1
    <3>2. bad'
      BY <2>3, <3>1 DEF bad
    <3>3. UNCHANGED <<unread, reader>>
      BY <1>6, <2>3, <3>2 DEF unread, reader, Stage
    <3> QED
      BY <1>1, <1>6, <3>3, WaitStep
  <2>4. CASE ~bad
    <3>1. unread = inbuf /\ reader = At("head", <<>>, context.request)
      BY <1>6, <2>4 DEF unread, reader, Stage, At
    <3>2. CASE TooLong
      <4>1. bad'
        BY <1>1, <2>1, <3>2, FailType DEF bad
      <4>2. unread' = <<>> /\ reader' = Stream!BadReader
        BY <1>6, <4>1, SameWords DEF unread, reader, Stage, Stream!BadReader, Stream!NewReader
      <4>3. MAX_LINE + 1 \in 0 .. Len(unread)
            /\ Stream!After(reader, unread, MAX_LINE + 1) = Stream!BadReader
        BY <1>1, <3>1, <3>2, TooLongRead DEF TooLong
      <4>4. reader'.stage = "bad"
        BY <4>2 DEF Stream!BadReader, Stream!NewReader
      <4> QED
        BY <1>1, <1>6, <2>2, <4>2, <4>3, <4>4, ReadStep
    <3>3. CASE ~TooLong
      <4>1. HasLine(inbuf) /\ Len(line) <= MAX_LINE /\ Len(line) \in 0 .. Len(unread)
        BY <1>1, <1>6, <3>1, <3>3, FirstLine, HttpAssumption DEF TooLong
      <4>2. PICK part : Stream!After(reader, unread, Len(line))
                          = Stream!EndOfLine(At("head", part, context.request), line)
        BY <1>1, <3>1, <4>1, LineRead
      <4>3. inbuf' = SubSeq(inbuf, Len(line) + 1, Len(inbuf))
        BY <2>1 DEF AfterLine
      <4> HIDE DEF line
      <4>4. CASE IsBlank(line)
        <5> DEFINE stage == IF announced = 0 THEN "over" ELSE "body"
        <5>1. ~bad' /\ unread' = inbuf'
          BY <1>4, <1>6, <2>1, <2>4, <3>3, <4>4 DEF bad, unread
        <5>2. reader' = At(stage, <<>>, context.request)
          BY <1>4, <1>6, <2>1, <3>3, <4>4, <5>1 DEF reader, Stage, At, announced
        <5>3. Stream!EndOfLine(At("head", part, context.request), line)
                = At(stage, <<>>, context.request)
          BY <4>4, SameWords DEF Stream!EndOfLine, At, announced
        <5>4. reader'.stage \notin {"bad", "spilled"}
          BY <5>2 DEF At
        <5> HIDE DEF stage
        <5> QED
          BY <1>1, <1>6, <2>2, <3>1, <4>1, <4>2, <4>3, <5>1, <5>2, <5>3, <5>4, ReadStep
      <4>5. CASE ~IsBlank(line) /\ IsHeader(line)
        <5> DEFINE request == [context.request EXCEPT !.headers = SetHeader(headers, line)]
        <5>1. ~bad' /\ unread' = inbuf'
          BY <1>5, <1>6, <2>1, <2>4, <3>3, <4>5 DEF bad, unread
        <5>2. reader' = At("head", <<>>, request)
          BY <1>5, <1>6, <2>1, <3>3, <4>5, <5>1 DEF reader, Stage, At
        <5>3. Stream!EndOfLine(At("head", part, context.request), line) = At("head", <<>>, request)
          BY <4>5, SameWords DEF Stream!EndOfLine, At
        <5>4. reader'.stage = "head"
          BY <5>2 DEF At
        <5> HIDE DEF request
        <5> QED
          BY <1>1, <1>6, <2>2, <3>1, <4>1, <4>2, <4>3, <5>1, <5>2, <5>3, <5>4, ReadStep
      <4>6. CASE ~IsBlank(line) /\ ~IsHeader(line)
        <5>1. bad'
          BY <1>1, <2>1, <3>3, <4>6, FailType DEF bad
        <5>2. unread' = <<>> /\ reader' = Stream!BadReader
          BY <1>6, <5>1, SameWords DEF unread, reader, Stage, Stream!BadReader, Stream!NewReader
        <5>3. Stream!EndOfLine(At("head", part, context.request), line) = Stream!BadReader
          BY <4>6, SameWords DEF Stream!EndOfLine, At
        <5>4. reader'.stage = "bad"
          BY <5>2 DEF Stream!BadReader, Stream!NewReader
        <5> QED
          BY <1>1, <1>6, <2>2, <4>1, <4>2, <5>2, <5>3, <5>4, ReadStep
      <4> QED
        BY <4>4, <4>5, <4>6
    <3> QED
      BY <3>2, <3>3
  <2> QED
    BY <2>3, <2>4
<1> QED
  BY <1>2, <1>3, <1>6 DEF RecvHttpHead

LEMMA BodyStep ==
  ASSUME ParserInv, StreamInv, RecvHttpBody, answer' = None, UNCHANGED <<status, unsent, refused>>
  PROVE  [Stream!Next]_(Stream!vars)
<1>1. pc = "body" /\ status # "closed" /\ inbuf \in Seq(Chars) /\ context \in ContextType
  BY DEF RecvHttpBody, ParserInv, TypeOK, StreamInv
<1>2. CASE refused
  BY <1>1, <1>2, RefusedStep
<1>3. CASE ~refused /\ UNCHANGED <<inbuf, context>>
  <2>1. UNCHANGED <<unread, reader>>
    BY <1>3 DEF unread, reader, Stage, bad
  <2> QED
    BY <1>1, <1>3, <2>1, WaitStep
<1>4. CASE ~refused /\ context.recv = "BODY"
  <2> DEFINE n == IF Len(inbuf) >= Missing THEN Missing ELSE Len(inbuf)
             part == SubSeq(inbuf, 1, n)
  <2>1. Missing = announced - Len(body) /\ Len(body) \in Nat /\ announced \in Nat
        /\ Len(body) <= announced /\ Len(inbuf) \in Nat
    BY <1>1, ContextParts DEF Missing, announced, body, ParserInv, BodyInv
  <2>2. n \in 0 .. Len(inbuf) /\ Len(body) + n <= announced /\ (n = Missing <=> Len(body) + n = announced)
    BY <2>1
  <2>3. /\ context' = [context EXCEPT !.request.body = @ \o part,
                                      !.recv = IF n = Missing THEN "OVER" ELSE "BODY"]
        /\ inbuf' = SubSeq(inbuf, n + 1, Len(inbuf))
    BY <1>4 DEF RecvHttpBody
  <2>4. /\ context'.request = WithBody(context.request, inbuf, n)
        /\ context'.recv = (IF n = Missing THEN "OVER" ELSE "BODY")
        /\ context'.resq = context.resq
    <3> HIDE DEF n
    <3> QED
      BY <1>1, <2>3 DEF ContextType, RequestType, WithBody
  <2>5. said' = None
    BY <1>4 DEF said
  <2> HIDE DEF n, part
  <2>6. CASE bad
    <3>1. bad'
      BY <2>4, <2>6 DEF bad
    <3>2. UNCHANGED <<unread, reader>>
      BY <1>4, <2>6, <3>1 DEF unread, reader, Stage
    <3> QED
      BY <1>1, <1>4, <3>2, WaitStep
  <2>7. CASE ~bad /\ announced = 0
    <3>1. n = 0 /\ n = Missing
      BY <2>1, <2>2, <2>7
    <3>2. inbuf' = inbuf
      BY <1>1, <2>3, <3>1, SubSeqFull
    <3>3. WithBody(context.request, inbuf, 0) = context.request
      <4>1. SubSeq(inbuf, 1, 0) = <<>> /\ body \o <<>> = body
        BY <1>1, ContextParts, ConcatEmptySeq
      <4>2. context.request \in RequestType
        BY <1>1, ContextParts
      <4> QED
        BY <4>1, <4>2 DEF WithBody, RequestType, body
    <3>4. ~bad' /\ Stage = "over" /\ Stage' = "over"
      BY <1>4, <2>4, <2>7, <3>1 DEF bad, Stage, announced
    <3>5. UNCHANGED <<unread, reader>>
      BY <1>4, <2>4, <2>7, <3>1, <3>2, <3>3, <3>4 DEF unread, reader
    <3> QED
      BY <1>1, <1>4, <3>5, WaitStep
  <2>8. CASE ~bad /\ Len(body) < announced
    <3> DEFINE stage == IF Len(body) + n = announced THEN "over" ELSE "body"
    <3>1. unread = inbuf /\ reader = At("body", <<>>, context.request)
      BY <1>4, <2>1, <2>8 DEF unread, reader, Stage, At, announced
    <3>2. context.request \in RequestType
      BY <1>1, ContextParts
    <3>3. Stream!After(reader, unread, n) = At(stage, <<>>, WithBody(context.request, inbuf, n))
      BY <1>1, <2>2, <2>8, <3>1, <3>2, BodyRead DEF body, announced
    <3>4. announced' = announced /\ ~bad'
      <4>1. WithBody(context.request, inbuf, n).headers = context.request.headers
        BY <3>2 DEF WithBody, RequestType
      <4> QED
        BY <2>4, <2>8, <4>1 DEF announced, bad
    <3>5. Stage' = stage
      BY <2>1, <2>2, <2>4, <2>8, <3>4 DEF Stage, announced
    <3>6. reader' = At(stage, <<>>, WithBody(context.request, inbuf, n)) /\ unread' = inbuf'
      BY <1>4, <2>4, <3>4, <3>5 DEF reader, unread, At
    <3>7. reader'.stage \notin {"bad", "spilled"}
      BY <3>6 DEF At
    <3> HIDE DEF stage
    <3> QED
      BY <1>1, <1>4, <2>2, <2>3, <2>5, <3>1, <3>3, <3>6, <3>7, ReadStep
  <2> QED
    BY <1>4, <2>6, <2>7, <2>8 DEF StreamInv, Lacking
<1> QED
  BY <1>2, <1>3, <1>4 DEF RecvHttpBody

LEMMA RefuseStep ==
  ASSUME ParserInv, StreamInv, AnswerError
  PROVE  [Stream!Next]_(Stream!vars)
<1>1. /\ pc = "answer" /\ bad /\ status # "closed" /\ answer' = Error /\ refused'
      /\ status' = "closing" /\ inbuf' = <<>> /\ context' = NewContext
  BY DEF AnswerError, bad, StreamInv
<1>2. CASE refused
  <2>1. status = "closing"
    BY <1>1, <1>2 DEF StreamInv, ParserInv, TypeOK
  <2> QED
    BY <1>1, <1>2, <2>1, RefusedStep
<1>3. CASE ~refused
  <2>1. Stage = "bad"
    BY <1>1 DEF Stage
  <2>2. refused' = TRUE
    BY DEF AnswerError
  <2>3. Stream!Refuse
    BY <1>1, <1>3, <2>1, <2>2, SameWords DEF Stream!Refuse, Stream!Error, Error, Stream!NewReader
  <2> QED
    BY <2>3 DEF Stream!Next
<1> QED
  BY <1>2, <1>3

LEMMA AwaitStep ==
  ASSUME ParserInv, StreamInv, AwaitMore
  PROVE  [Stream!Next]_(Stream!vars)
<1>1. /\ pc = "answer" /\ status # "closed" /\ inbuf \in Seq(Chars) /\ context \in ContextType
      /\ answer' = None /\ UNCHANGED <<inbuf, context, status, unsent, refused>>
  BY DEF AwaitMore, ParserInv, TypeOK, StreamInv
<1>2. CASE refused
  BY <1>1, <1>2, RefusedStep
<1>3. CASE ~refused
  <2>1. UNCHANGED <<unread, reader>>
    BY <1>1 DEF unread, reader, Stage, bad
  <2> QED
    BY <1>1, <1>3, <2>1, WaitStep
<1> QED
  BY <1>2, <1>3

LEMMA AnswerStep ==
  ASSUME ParserInv, StreamInv, NEW own \in Own, AnswerRequest(own)
  PROVE  [Stream!Next]_(Stream!vars)
<1>1. /\ pc = "answer" /\ context.recv = "OVER" /\ status # "closed"
      /\ answer' = WriteResponse(own) /\ context' = NewContext
      /\ status' = (IF answer'.close THEN "closing" ELSE status)
      /\ UNCHANGED <<inbuf, refused>>
  BY DEF AnswerRequest, StreamInv
<1>2. CASE refused
  <2>1. status = "closing"
    BY <1>1, <1>2 DEF StreamInv, ParserInv, TypeOK
  <2> QED
    BY <1>1, <1>2, <2>1, RefusedStep
<1>3. CASE ~refused
  <2>1. ~bad /\ ~bad'
    BY <1>1 DEF AnswerRequest, bad, NewContext, ParserInv, TypeOK, ContextType
  <2>2. Stage = "over" /\ Stage' = "line" /\ context'.request = NewRequest
    BY <1>1, <2>1 DEF Stage, NewContext
  <2>3. answer' = Stream!Response(context.request, own)
    BY <1>1, SameWords DEF WriteResponse, Stream!Response
  <2>4. (status' # "open") <=> (status # "open" \/ answer'.close)
    BY <1>1
  <2>5. status' # "closed"
    BY <1>1
  <2>6. Stream!Answer(own)
    BY <1>1, <1>3, <2>1, <2>2, <2>3, <2>4, <2>5, SameWords DEF Stream!Answer, Stream!NewReader
  <2> QED
    BY <2>6 DEF Stream!Next
<1> QED
  BY <1>2, <1>3

LEMMA WriteStep ==
  ASSUME ParserInv, StreamInv, HanderWrite
  PROVE  [Stream!Next]_(Stream!vars)
<1>1. /\ pc = "poll" /\ status # "closed" /\ inbuf \in Seq(Chars) /\ context \in ContextType
      /\ answer' = None /\ UNCHANGED <<inbuf, context, refused>>
      /\ status' = (IF status = "closing" THEN "closed" ELSE status)
      /\ status \in {"open", "closing", "closed"}
  BY DEF HanderWrite, parserVars, ParserInv, TypeOK, StreamInv
<1>2. UNCHANGED <<unread, reader, bad, Stage>>
  BY <1>1 DEF unread, reader, Stage, bad
<1>3. CASE status = "closing"
  <2>1. Stream!Close
    BY <1>1, <1>2, <1>3 DEF Stream!Close, Stream!None, None
  <2> QED
    BY <2>1 DEF Stream!Next
<1>4. CASE status = "open"
  <2>1. ~refused
    BY <1>4 DEF StreamInv
  <2> QED
    BY <1>1, <1>2, <1>4, <2>1, WaitStep
<1> QED
  BY <1>1, <1>3, <1>4

(* However the network cuts the stream, the server does what HttpStream    *)
(* says: it reads requests as one byte after the other would be read,      *)
(* answers each once, in order and whole, an error once, and closes the    *)
(* connection when and only when an answer said so.                        *)
THEOREM StreamImplemented == Spec => ImplementsHttpStream
<1>1. Init => Stream!Init
  <2> SUFFICES ASSUME Init PROVE Stream!Init
    OBVIOUS
  <2>1. ~bad /\ Stage = "line" /\ context.request = NewRequest
    BY DEF Init, bad, Stage, NewContext
  <2> QED
    BY <2>1, SameWords DEF Init, Stream!Init, Stream!NewReader, Stream!None, None
<1>2. ParserInv /\ StreamInv /\ [Next]_vars => [Stream!Next]_(Stream!vars)
  <2> SUFFICES ASSUME ParserInv, StreamInv, [Next]_vars PROVE [Stream!Next]_(Stream!vars)
    OBVIOUS
  <2>1. CASE Parse
    BY <2>1, LineStep, HeadStep, BodyStep DEF Parse, RecvHttpRequest
  <2>2. CASE \E seg \in Segments : HanderRead(seg)
    BY <2>2, ArriveStep
  <2>3. CASE \E own \in Own : AnswerRequest(own)
    BY <2>3, AnswerStep
  <2>4. CASE UNCHANGED vars
    BY <2>4 DEF vars, parserVars, connVars, Stream!vars, Stage, bad
  <2> QED
    BY <2>1, <2>2, <2>3, <2>4, RefuseStep, AwaitStep, WriteStep DEF Next
<1> QED
  BY <1>1, <1>2, ParserCorrect, StreamCorrect, PTL DEF Spec, ImplementsHttpStream, Stream!Steps
=============================================================================
