------------------------------ MODULE UrlCode -------------------------------
(***************************************************************************)
(* The string functions of Uitl in Http.hpp, and the reading of a request  *)
(* target in HttpContent::ParseHttpLine.  A string is a sequence of bytes. *)
(***************************************************************************)
EXTENDS Integers, Sequences, FiniteSets, SequencesExt

Space == 32
Percent == 37
Ampersand == 38
Plus == 43
Hyphen == 45
Dot == 46
Slash == 47
Equals == 61
Question == 63
Underscore == 95
Tilde == 126

Alphanumeric == 48 .. 57 \union 65 .. 90 \union 97 .. 122
Unreserved == Alphanumeric \union {Hyphen, Underscore, Tilde, Dot}
Bytes == 0 .. 255

-----------------------------------------------------------------------------
(* std::string::find and rfind: an offset, or npos. *)
npos == -1

find(src, sep, from) ==
  LET at == {p \in from .. Len(src) - Len(sep) : SubSeq(src, p + 1, p + Len(sep)) = sep}
  IN  IF at = {} THEN npos ELSE Min(at)

rfind(src, c) ==
  LET at == {p \in 0 .. Len(src) - 1 : src[p + 1] = c}
  IN  IF at = {} THEN npos ELSE Max(at)

(* Mistake: empty pieces are kept. *)
splitKeepsEmpty(src, sep) ==
  LET n == Len(src)
      from[offset \in 0 .. n + Len(sep)] ==
        IF offset >= n THEN <<>>
        ELSE LET pos == find(src, sep, offset) IN
             IF pos = npos THEN <<SubSeq(src, offset + 1, n)>>
             ELSE <<SubSeq(src, offset + 1, pos)>> \o from[pos + Len(sep)]
  IN  IF sep = <<>> THEN <<>> ELSE from[0]

split(src, sep) ==
  LET n == Len(src)
      from[offset \in 0 .. n + Len(sep)] ==
        IF offset >= n THEN <<>>
        ELSE LET pos == find(src, sep, offset) IN
             IF pos = npos THEN <<SubSeq(src, offset + 1, n)>>
             ELSE IF pos = offset THEN from[pos + Len(sep)]
             ELSE <<SubSeq(src, offset + 1, pos)>> \o from[pos + Len(sep)]
  IN  IF sep = <<>> THEN <<>> ELSE from[0]

-----------------------------------------------------------------------------
HexDigit(d) == IF d < 10 THEN 48 + d ELSE 55 + d

(* One byte; "%02X" of an unsigned char. *)
EncodedByte(c, is_space_to_plus) ==
  IF c \in Unreserved THEN <<c>>
  ELSE IF is_space_to_plus /\ c = Space THEN <<Plus>>
  ELSE <<Percent, HexDigit(c \div 16), HexDigit(c % 16)>>

UrlEnCode(src, is_space_to_plus) ==
  FlattenSeq([i \in DOMAIN src |-> EncodedByte(src[i], is_space_to_plus)])

(* Mistake: capital digits are counted from 0. *)
CONVFromZero(a) ==
  IF a \in 48 .. 57 THEN a - 48
  ELSE IF a \in 97 .. 122 THEN a - 97 + 10
  ELSE IF a \in 65 .. 90 THEN a - 65
  ELSE -1

CONV(a) ==
  IF a \in 48 .. 57 THEN a - 48
  ELSE IF a \in 97 .. 122 THEN a - 97 + 10
  ELSE IF a \in 65 .. 90 THEN a - 65 + 10
  ELSE -1

(* Letters that are no digits are computed with like any; the result is    *)
(* appended as a char.                                                     *)
Escaped(a, b) == (CONV(a) * 16 + CONV(b)) % 256

(* An escape that is cut short ends the string. *)
UrlDecode(src, Is_space_To_plus) ==
  LET n == Len(src)
      from[i \in 1 .. n + 3] ==
        IF i > n THEN <<>>
        ELSE IF src[i] = Plus /\ Is_space_To_plus THEN <<Space>> \o from[i + 1]
        ELSE IF src[i] = Percent
        THEN IF i + 2 > n THEN <<>>
             ELSE <<Escaped(src[i + 1], src[i + 2])>> \o from[i + 3]
        ELSE <<src[i]>> \o from[i + 1]
  IN  from[1]

-----------------------------------------------------------------------------
(* No prefix of the path leads above its root. *)
VaildPath(path) ==
  LET v == split(path, <<Slash>>)
      level[i \in 0 .. Len(v)] ==
        IF i = 0 THEN 0 ELSE level[i - 1] + (IF v[i] = <<Dot, Dot>> THEN -1 ELSE 1)
  IN  \A i \in 1 .. Len(v) : level[i] >= 0

(* The type goes by what follows the last dot, here ".h" or anything else. *)
ExMime(filename) ==
  LET pos == rfind(filename, Dot) IN
  IF pos # npos /\ SubSeq(filename, pos + 1, Len(filename)) \in {<<Dot, 104>>, <<Dot, 72>>}
  THEN "html" ELSE "stream"

-----------------------------------------------------------------------------
(* ParseHttpLine. *)

(* The expression takes a path of at least one byte, and for the rest what *)
(* follows the first question mark.                                        *)
QueryStart(target) == find(target, <<Question>>, 1)

PathOf(target) ==
  UrlDecode(IF QueryStart(target) = npos THEN target
            ELSE SubSeq(target, 1, QueryStart(target)), FALSE)

QueryOf(target) ==
  IF QueryStart(target) = npos THEN <<>>
  ELSE SubSeq(target, QueryStart(target) + 2, Len(target))

(* Mistake: the query is decoded before it is taken apart. *)
ParamsDecodedFirst(query) ==
  LET v == split(UrlDecode(query, TRUE), <<Ampersand>>)
      key(i) == SubSeq(v[i], 1, find(v[i], <<Equals>>, 0))
      val(i) == SubSeq(v[i], find(v[i], <<Equals>>, 0) + 2, Len(v[i]))
  IN  IF \E i \in 1 .. Len(v) : find(v[i], <<Equals>>, 0) = npos
      THEN [sound |-> FALSE, params |-> {}]
      ELSE [sound |-> TRUE,
            params |-> {<<key(i), val(i)>> : i \in
              {i \in 1 .. Len(v) : \A j \in 1 .. i - 1 : key(j) # key(i)}}]

(* The pairs in _params, of which the first with a key counts, or an error *)
(* when a piece has no equals sign.                                        *)
Params(query) ==
  LET v == split(query, <<Ampersand>>)
      key(i) == UrlDecode(SubSeq(v[i], 1, find(v[i], <<Equals>>, 0)), TRUE)
      val(i) == UrlDecode(SubSeq(v[i], find(v[i], <<Equals>>, 0) + 2, Len(v[i])), TRUE)
  IN  IF \E i \in 1 .. Len(v) : find(v[i], <<Equals>>, 0) = npos
      THEN [sound |-> FALSE, params |-> {}]
      ELSE [sound |-> TRUE,
            params |-> {<<key(i), val(i)>> : i \in
              {i \in 1 .. Len(v) : \A j \in 1 .. i - 1 : key(j) # key(i)}}]
=============================================================================
