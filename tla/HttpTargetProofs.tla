-------------------------- MODULE HttpTargetProofs --------------------------
(***************************************************************************)
(* Proofs about the coding and the taking apart of targets, for texts of   *)
(* any length, and about the answers.  The functions of UrlCode and of the *)
(* file system recur along the text; what they compute is proved by        *)
(* descent: where a claim fails there is a first, or a last, place where   *)
(* it does.  The answers follow from what each look has seen, from names   *)
(* that lead to no other place when a file is added, and from the one file *)
(* by which the trees that were seen differ.                               *)
(***************************************************************************)
EXTENDS HttpTarget, SequenceTheorems, FiniteSetTheorems, WellFoundedInduction, TLAPS

(* The least of a set of numbers: the prefixes 0 .. k of the numbers are    *)
(* finite sets, of which one includes no other.                            *)
LEMMA LeastExists ==
  ASSUME NEW S \in SUBSET Nat, S # {}
  PROVE  \E k \in S : \A j \in S : k <= j
<1> DEFINE Beginnings == {0 .. k : k \in S}
           R == StrictSubsetOrdering(Nat)
<1>1. Beginnings # {}
  OBVIOUS
<1>2. Beginnings \subseteq FiniteSubsetsOf(Nat)
  <2>1. ASSUME NEW k \in S PROVE 0 .. k \in FiniteSubsetsOf(Nat)
    <3>1. IsFiniteSet(0 .. k)
      BY FS_Interval
    <3>2. 0 .. k \subseteq Nat
      OBVIOUS
    <3> QED
      BY <3>1, <3>2 DEF FiniteSubsetsOf
  <2> QED
    BY <2>1
<1>3. PICK x \in Beginnings : \A y \in Beginnings : <<y, x>> \notin R
  <2>1. IsWellFoundedOn(R, FiniteSubsetsOf(Nat))
    BY FS_StrictSubsetOrderingWellFounded
  <2> QED
    BY <1>1, <1>2, <2>1, WFMin
<1>4. PICK k \in S : x = 0 .. k
  OBVIOUS
<1>5. ASSUME NEW j \in S, ~(k <= j) PROVE FALSE
  <2>1. 0 .. j \subseteq 0 .. k /\ k \in 0 .. k /\ k \notin 0 .. j
    BY <1>5
  <2>2. <<0 .. j, 0 .. k>> \in R
    BY <2>1 DEF StrictSubsetOrdering
  <2> QED
    BY <1>3, <1>4, <2>2
<1> QED
  BY <1>5

(* A set of places of a text that is not empty has a last one.             *)
LEMMA LastExists ==
  ASSUME NEW lo \in Int, NEW hi \in Int, NEW S \in SUBSET (lo .. hi), S # {}
  PROVE  \E k \in S : \A j \in S : j <= k
<1> DEFINE T == {hi - i : i \in S}
<1>1. T \in SUBSET Nat /\ T # {}
  OBVIOUS
<1>2. PICK m \in T : \A j \in T : m <= j
  BY <1>1, LeastExists
<1>3. PICK k \in S : m = hi - k
  BY <1>2
<1>4. ASSUME NEW j \in S PROVE j <= k
  <2>1. m <= hi - j
    BY <1>2
  <2> QED
    BY <1>3, <2>1
<1> QED
  BY <1>4

-----------------------------------------------------------------------------
(* Functions that recur to a later place: UrlDecode and split.             *)
Link(f, i, stop, skip, head, next) ==
  IF i \in stop THEN head[i]
  ELSE IF i \in skip THEN f[next[i]] ELSE head[i] \o f[next[i]]

Chain(f, lo, hi, stop, skip, head, next) ==
  f = [i \in lo .. hi |-> Link(f, i, stop, skip, head, next)]

LEMMA ChainExists ==
  ASSUME NEW lo \in Int, NEW hi \in Int, NEW stop, NEW skip, NEW head, NEW next,
         \A i \in lo .. hi : i \in stop \/ next[i] \in i + 1 .. hi
  PROVE  \E f : Chain(f, lo, hi, stop, skip, head, next)
<1> DEFINE Exists(k) == \E f : Chain(f, k, hi, stop, skip, head, next)
           Failing == {k \in lo .. hi : ~Exists(k)}
<1>1. ASSUME NEW k \in lo .. hi, k = hi \/ Exists(k + 1) PROVE Exists(k)
  <2>1. PICK g : k = hi \/ Chain(g, k + 1, hi, stop, skip, head, next)
    BY <1>1
  <2> DEFINE f == [i \in k .. hi |-> IF i = k THEN Link(g, k, stop, skip, head, next) ELSE g[i]]
  <2>2. \A i \in k .. hi : f[i] = Link(f, i, stop, skip, head, next)
    <3> SUFFICES ASSUME NEW i \in k .. hi PROVE f[i] = Link(f, i, stop, skip, head, next)
      OBVIOUS
    <3>1. f[i] = Link(g, i, stop, skip, head, next)
      <4>1. CASE i = k
        BY <4>1
      <4>2. CASE i # k
        <5>1. i \in k + 1 .. hi /\ k # hi /\ f[i] = g[i]
          BY <4>2
        <5> QED
          BY <2>1, <5>1 DEF Chain
      <4> QED
        BY <4>1, <4>2
    <3>2. i \notin stop => f[next[i]] = g[next[i]]
      <4> SUFFICES ASSUME i \notin stop PROVE f[next[i]] = g[next[i]]
        OBVIOUS
      <4>1. i \in lo .. hi
        OBVIOUS
      <4>2. next[i] \in i + 1 .. hi
        BY <4>1
      <4>3. next[i] \in k .. hi /\ next[i] # k
        BY <4>2
      <4> QED
        BY <4>3
    <3> HIDE DEF f
    <3> QED
      BY <3>1, <3>2 DEF Link
  <2>3. f = [i \in k .. hi |-> f[i]]
    OBVIOUS
  <2> HIDE DEF f
  <2>4. Chain(f, k, hi, stop, skip, head, next)
    BY <2>2, <2>3 DEF Chain
  <2> QED
    BY <2>4
<1>2. Failing = {}
  <2> SUFFICES ASSUME Failing # {} PROVE FALSE
    OBVIOUS
  <2>1. Failing \in SUBSET (lo .. hi)
    OBVIOUS
  <2>2. PICK k \in Failing : \A j \in Failing : j <= k
    BY <2>1, LastExists
  <2>3. k \in lo .. hi /\ ~Exists(k)
    OBVIOUS
  <2>4. k = hi \/ (k + 1 \in lo .. hi /\ k + 1 \notin Failing)
    BY <2>2, <2>3
  <2> HIDE DEF Exists
  <2>5. k = hi \/ Exists(k + 1)
    BY <2>4
  <2> QED
    BY <1>1, <2>3, <2>5
<1>3. CASE lo <= hi
  BY <1>2, <1>3
<1>4. CASE hi < lo
  <2> DEFINE f == [i \in lo .. hi |-> 0]
  <2>1. lo .. hi = {}
    BY <1>4
  <2>2. Chain(f, lo, hi, stop, skip, head, next)
    BY <2>1 DEF Chain
  <2> QED
    BY <2>2
<1> QED
  BY <1>3, <1>4

LEMMA ChainType ==
  ASSUME NEW lo \in Int, NEW hi \in Int, NEW stop, NEW skip, NEW head, NEW next,
         \A i \in lo .. hi : i \in stop \/ next[i] \in i + 1 .. hi,
         NEW S, \A i \in lo .. hi : i \in stop \/ i \notin skip => head[i] \in Seq(S),
         NEW f, Chain(f, lo, hi, stop, skip, head, next)
  PROVE  \A i \in lo .. hi : f[i] \in Seq(S)
<1> DEFINE Failing == {i \in lo .. hi : f[i] \notin Seq(S)}
<1> SUFFICES ASSUME Failing # {} PROVE FALSE
  OBVIOUS
<1>1. PICK k \in Failing : \A j \in Failing : j <= k
  <2>1. Failing \in SUBSET (lo .. hi)
    OBVIOUS
  <2> QED
    BY <2>1, LastExists
<1>2. k \in lo .. hi /\ f[k] = Link(f, k, stop, skip, head, next)
  BY DEF Chain
<1>3. k \notin stop => f[next[k]] \in Seq(S)
  <2> SUFFICES ASSUME k \notin stop PROVE f[next[k]] \in Seq(S)
    OBVIOUS
  <2>1. next[k] \in k + 1 .. hi
    BY <1>2
  <2>2. next[k] \in lo .. hi /\ ~(next[k] <= k)
    BY <1>2, <2>1
  <2> QED
    BY <1>1, <2>2
<1>4. f[k] \in Seq(S)
  BY <1>2, <1>3 DEF Link
<1> QED
  BY <1>4

-----------------------------------------------------------------------------
(* UrlDecode as a chain over the text.                                     *)
AsSpace(src, i, plus) == src[i] = Plus /\ plus
CutShort(src, i, plus) == ~AsSpace(src, i, plus) /\ src[i] = Percent /\ i + 2 > Len(src)
InEscape(src, i, plus) == ~AsSpace(src, i, plus) /\ src[i] = Percent /\ i + 2 <= Len(src)

DecodeStop(src, plus) ==
  {i \in 1 .. Len(src) + 3 : i > Len(src) \/ CutShort(src, i, plus)}
DecodeHead(src, plus) ==
  [i \in 1 .. Len(src) + 3 |->
     IF i \in DecodeStop(src, plus) THEN <<>>
     ELSE IF AsSpace(src, i, plus) THEN <<Space>>
     ELSE IF InEscape(src, i, plus) THEN <<Escaped(src[i + 1], src[i + 2])>>
     ELSE <<src[i]>>]
DecodeNext(src, plus) ==
  [i \in 1 .. Len(src) + 3 |-> IF InEscape(src, i, plus) THEN i + 3 ELSE i + 1]

Decodes(f, src, plus) ==
  Chain(f, 1, Len(src) + 3, DecodeStop(src, plus), {}, DecodeHead(src, plus), DecodeNext(src, plus))

LEMMA EscapedIsByte ==
  ASSUME NEW a \in Bytes, NEW b \in Bytes
  PROVE  Escaped(a, b) \in Bytes
<1>1. CONV(a) \in Int /\ CONV(b) \in Int
  BY DEF CONV, Bytes
<1>2. \A x \in Int : x % 256 \in 0 .. 255
  OBVIOUS
<1> QED
  BY <1>1, <1>2 DEF Escaped, Bytes

LEMMA DecodeLinks ==
  ASSUME NEW src \in Seq(Bytes), NEW plus \in BOOLEAN
  PROVE  /\ \A i \in 1 .. Len(src) + 3 :
              \/ i \in DecodeStop(src, plus)
              \/ DecodeNext(src, plus)[i] \in i + 1 .. Len(src) + 3
         /\ \A i \in 1 .. Len(src) + 3 : DecodeHead(src, plus)[i] \in Seq(Bytes)
<1>1. ASSUME NEW i \in 1 .. Len(src) + 3
      PROVE  i \in DecodeStop(src, plus) \/ DecodeNext(src, plus)[i] \in i + 1 .. Len(src) + 3
  BY DEF DecodeStop, DecodeNext, InEscape, CutShort
<1>2. ASSUME NEW i \in 1 .. Len(src) + 3
      PROVE  DecodeHead(src, plus)[i] \in Seq(Bytes)
  <2>1. CASE i \in DecodeStop(src, plus)
    BY <2>1 DEF DecodeHead
  <2>2. CASE i \notin DecodeStop(src, plus)
    <3>1. i \in 1 .. Len(src) /\ src[i] \in Bytes
      BY <2>2 DEF DecodeStop
    <3>2. InEscape(src, i, plus) => Escaped(src[i + 1], src[i + 2]) \in Bytes
      <4>1. InEscape(src, i, plus) => i + 1 \in 1 .. Len(src) /\ i + 2 \in 1 .. Len(src)
        BY <3>1 DEF InEscape
      <4> QED
        BY <4>1, EscapedIsByte
    <3>3. Space \in Bytes
      BY DEF Space, Bytes
    <3>4. \E c \in Bytes : DecodeHead(src, plus)[i] = <<c>>
      BY <2>2, <3>1, <3>2, <3>3 DEF DecodeHead
    <3> QED
      BY <3>4
  <2> QED
    BY <2>1, <2>2
<1> QED
  BY <1>1, <1>2

DecodedFrom(f, src, plus, i) ==
  IF i > Len(src) THEN <<>>
  ELSE IF src[i] = Plus /\ plus THEN <<Space>> \o f[i + 1]
  ELSE IF src[i] = Percent
  THEN IF i + 2 > Len(src) THEN <<>>
       ELSE <<Escaped(src[i + 1], src[i + 2])>> \o f[i + 3]
  ELSE <<src[i]>> \o f[i + 1]

LEMMA DecodeLinkIs ==
  ASSUME NEW src \in Seq(Bytes), NEW plus \in BOOLEAN, NEW f, NEW i \in 1 .. Len(src) + 3
  PROVE  Link(f, i, DecodeStop(src, plus), {}, DecodeHead(src, plus), DecodeNext(src, plus))
           = DecodedFrom(f, src, plus, i)
<1>1. CASE i > Len(src)
  BY <1>1 DEF Link, DecodedFrom, DecodeStop, DecodeHead
<1>2. CASE i <= Len(src) /\ CutShort(src, i, plus)
  BY <1>2 DEF Link, DecodedFrom, DecodeStop, DecodeHead, CutShort, AsSpace
<1>3. CASE i <= Len(src) /\ ~CutShort(src, i, plus)
  <2>1. i \notin DecodeStop(src, plus)
    BY <1>3 DEF DecodeStop
  <2>2. CASE AsSpace(src, i, plus)
    BY <1>3, <2>1, <2>2 DEF Link, DecodedFrom, DecodeHead, DecodeNext, AsSpace, InEscape
  <2>3. CASE InEscape(src, i, plus)
    BY <1>3, <2>1, <2>3 DEF Link, DecodedFrom, DecodeHead, DecodeNext, AsSpace, InEscape
  <2>4. CASE ~AsSpace(src, i, plus) /\ ~InEscape(src, i, plus)
    BY <1>3, <2>1, <2>4 DEF Link, DecodedFrom, DecodeHead, DecodeNext, AsSpace, InEscape, CutShort
  <2> QED
    BY <2>2, <2>3, <2>4
<1> QED
  BY <1>1, <1>2, <1>3

(* The chain that UrlDecode computes.                                      *)
LEMMA DecodeUnfolds ==
  ASSUME NEW src \in Seq(Bytes), NEW plus \in BOOLEAN
  PROVE  \E f : /\ UrlDecode(src, plus) = f[1]
                /\ \A i \in 1 .. Len(src) + 3 :
                     f[i] = DecodedFrom(f, src, plus, i) /\ f[i] \in Seq(Bytes)
<1> DEFINE D == 1 .. Len(src) + 3
           Unfolds(f) == f = [i \in D |-> DecodedFrom(f, src, plus, i)]
           from == CHOOSE f : Unfolds(f)
<1>1. 1 \in Int /\ Len(src) + 3 \in Int
  OBVIOUS
<1>2. PICK g : Decodes(g, src, plus)
  BY <1>1, DecodeLinks, ChainExists DEF Decodes
<1>3. \A f : Unfolds(f) <=> Decodes(f, src, plus)
  <2> SUFFICES ASSUME NEW f PROVE Unfolds(f) <=> Decodes(f, src, plus)
    OBVIOUS
  <2>1. [i \in D |-> DecodedFrom(f, src, plus, i)]
          = [i \in D |-> Link(f, i, DecodeStop(src, plus), {}, DecodeHead(src, plus), DecodeNext(src, plus))]
    BY DecodeLinkIs
  <2> QED
    BY <2>1 DEF Decodes, Chain
<1>4. UrlDecode(src, plus) = from[1]
  BY DEF UrlDecode, DecodedFrom
<1> HIDE DEF Unfolds
<1>5. Unfolds(from)
  <2>1. Unfolds(g)
    BY <1>2, <1>3
  <2> QED
    BY <2>1
<1> HIDE DEF from
<1>6. Decodes(from, src, plus)
  BY <1>3, <1>5
<1>7. \A i \in D : from[i] \in Seq(Bytes)
  BY <1>1, <1>6, DecodeLinks, ChainType DEF Decodes
<1>8. \A i \in D : from[i] = DecodedFrom(from, src, plus, i)
  BY <1>5 DEF Unfolds
<1> QED
  BY <1>4, <1>7, <1>8

-----------------------------------------------------------------------------
(* FlattenSeq, piece by piece.                                             *)
Flattened(f, pieces_, i) == IF i = 1 THEN pieces_[i] ELSE f[i - 1] \o pieces_[i]

LEMMA FlattenExists ==
  ASSUME NEW e, NEW m \in Nat
  PROVE  \E f : f = [i \in 1 .. m |-> Flattened(f, e, i)]
<1> DEFINE Exists(k) == \E f : f = [i \in 1 .. k |-> Flattened(f, e, i)]
           Failing == {k \in Nat : ~Exists(k)}
<1>1. Exists(0)
  <2> DEFINE f == [i \in 1 .. 0 |-> 0]
  <2>1. f = [i \in 1 .. 0 |-> Flattened(f, e, i)]
    OBVIOUS
  <2> QED
    BY <2>1
<1>2. ASSUME NEW k \in Nat, Exists(k) PROVE Exists(k + 1)
  <2>1. PICK g : g = [i \in 1 .. k |-> Flattened(g, e, i)]
    BY <1>2
  <2> DEFINE f == [i \in 1 .. k + 1 |-> IF i = k + 1 THEN Flattened(g, e, i) ELSE g[i]]
  <2>2. \A i \in 1 .. k + 1 : f[i] = Flattened(f, e, i)
    <3> SUFFICES ASSUME NEW i \in 1 .. k + 1 PROVE f[i] = Flattened(f, e, i)
      OBVIOUS
    <3>1. f[i] = Flattened(g, e, i)
      BY <2>1
    <3>2. i # 1 => f[i - 1] = g[i - 1]
      <4>1. i # 1 => i - 1 \in 1 .. k + 1 /\ i - 1 # k + 1
        OBVIOUS
      <4> QED
        BY <4>1
    <3> HIDE DEF f
    <3> QED
      BY <3>1, <3>2 DEF Flattened
  <2>3. f = [i \in 1 .. k + 1 |-> f[i]]
    OBVIOUS
  <2> HIDE DEF f
  <2> QED
    BY <2>2, <2>3
<1> HIDE DEF Exists
<1>3. Failing = {}
  <2> SUFFICES ASSUME Failing # {} PROVE FALSE
    OBVIOUS
  <2>1. Failing \in SUBSET Nat
    OBVIOUS
  <2>2. PICK k \in Failing : \A j \in Failing : k <= j
    BY <2>1, LeastExists
  <2>3. k # 0
    BY <1>1, <2>2
  <2>4. k - 1 \in Nat /\ k - 1 \notin Failing
    BY <2>2, <2>3
  <2>5. Exists((k - 1) + 1)
    BY <1>2, <2>4
  <2> QED
    BY <2>2, <2>5
<1> QED
  BY <1>3 DEF Exists

LEMMA FlattenIs ==
  ASSUME NEW S, NEW e \in Seq(Seq(S))
  PROVE  \E p \in [0 .. Len(e) -> Seq(S)] :
           /\ p[0] = <<>>
           /\ \A k \in 1 .. Len(e) : p[k] = p[k - 1] \o e[k]
           /\ FlattenSeq(e) = p[Len(e)]
<1> DEFINE m == Len(e)
           Unfolds(f) == f = [i \in 1 .. m |-> Flattened(f, e, i)]
           flat == CHOOSE f : Unfolds(f)
           p == [k \in 0 .. m |-> IF k = 0 THEN <<>> ELSE flat[k]]
<1>1. m \in Nat /\ \A i \in 1 .. m : e[i] \in Seq(S)
  OBVIOUS
<1>2. FlattenSeq(e) = IF m = 0 THEN e ELSE flat[m]
  BY DEF FlattenSeq, Flattened
<1>3. Unfolds(flat)
  <2>1. \E f : Unfolds(f)
    BY <1>1, FlattenExists
  <2> HIDE DEF Unfolds
  <2> QED
    BY <2>1
<1>4. \A i \in 1 .. m : flat[i] = Flattened(flat, e, i)
  BY <1>3
<1> HIDE DEF flat
<1>5. \A k \in 1 .. m : p[k] = p[k - 1] \o e[k]
  <2> SUFFICES ASSUME NEW k \in 1 .. m PROVE p[k] = p[k - 1] \o e[k]
    OBVIOUS
  <2>1. CASE k = 1
    <3>1. p[k] = e[k] /\ p[k - 1] = <<>>
      BY <1>1, <1>4, <2>1 DEF Flattened
    <3> QED
      BY <1>1, <3>1, ConcatEmptySeq
  <2>2. CASE k # 1
    <3>1. k - 1 \in 1 .. m /\ k - 1 # 0 /\ k # 0
      BY <1>1, <2>2
    <3>2. p[k] = flat[k] /\ p[k - 1] = flat[k - 1]
      BY <1>1, <3>1
    <3> QED
      BY <1>4, <2>2, <3>2 DEF Flattened
  <2> QED
    BY <2>1, <2>2
<1>6. p[0] = <<>>
  BY <1>1
<1>7. FlattenSeq(e) = p[m]
  BY <1>1, <1>2
<1>8. p = [k \in 0 .. m |-> p[k]]
  OBVIOUS
<1> HIDE DEF p
<1>9. \A k \in 0 .. m : p[k] \in Seq(S)
  <2> DEFINE Failing == {k \in 0 .. m : p[k] \notin Seq(S)}
  <2> SUFFICES ASSUME Failing # {} PROVE FALSE
    OBVIOUS
  <2>1. Failing \in SUBSET Nat
    OBVIOUS
  <2>2. PICK k \in Failing : \A j \in Failing : k <= j
    BY <2>1, LeastExists
  <2>3. k # 0
    <3>1. <<>> \in Seq(S)
      OBVIOUS
    <3> QED
      BY <1>6, <2>2, <3>1
  <2>4. k \in 1 .. m /\ k - 1 \in 0 .. m /\ k - 1 \notin Failing
    BY <1>1, <2>2, <2>3
  <2>5. p[k - 1] \in Seq(S) /\ e[k] \in Seq(S)
    BY <1>1, <2>4
  <2> QED
    BY <1>5, <2>4, <2>5, ConcatProperties
<1> QED
  BY <1>5, <1>6, <1>7, <1>8, <1>9

(* Each piece stands in the whole where the pieces before it end.          *)
LEMMA PiecesInPlace ==
  ASSUME NEW S, NEW m \in Nat, NEW p \in [0 .. m -> Seq(S)], NEW e \in [1 .. m -> Seq(S)],
         \A k \in 1 .. m : p[k] = p[k - 1] \o e[k],
         NEW k \in 0 .. m
  PROVE  /\ Len(p[k]) <= Len(p[m])
         /\ \A j \in 1 .. Len(p[k]) : p[m][j] = p[k][j]
<1> DEFINE Prefix(i) == Len(p[i]) <= Len(p[m]) /\ \A j \in 1 .. Len(p[i]) : p[m][j] = p[i][j]
           Failing == {i \in 0 .. m : ~Prefix(i)}
<1> SUFFICES ASSUME Failing # {} PROVE FALSE
  OBVIOUS
<1>1. PICK i \in Failing : \A j \in Failing : j <= i
  <2>1. Failing \in SUBSET (0 .. m) /\ 0 \in Int /\ m \in Int
    OBVIOUS
  <2> QED
    BY <2>1, LastExists
<1>2. i # m
  OBVIOUS
<1>3. i + 1 \in 1 .. m /\ i + 1 \notin Failing
  BY <1>1, <1>2
<1>4. Prefix(i + 1)
  BY <1>3
<1>5. p[i + 1] = p[i] \o e[i + 1] /\ p[i] \in Seq(S) /\ e[i + 1] \in Seq(S)
  <2>1. (i + 1) - 1 = i
    OBVIOUS
  <2> QED
    BY <1>3, <2>1
<1>6. /\ Len(p[i + 1]) = Len(p[i]) + Len(e[i + 1])
      /\ \A j \in 1 .. Len(p[i]) : p[i + 1][j] = p[i][j]
      /\ Len(p[i]) \in Nat /\ Len(e[i + 1]) \in Nat
  <2> DEFINE u == p[i]
             w == e[i + 1]
  <2>1. p[i + 1] = u \o w /\ u \in Seq(S) /\ w \in Seq(S) /\ Len(u) \in Nat /\ Len(w) \in Nat
    BY <1>5
  <2> HIDE DEF u, w
  <2>2. /\ Len(u \o w) = Len(u) + Len(w)
        /\ \A j \in 1 .. Len(u) + Len(w) : (u \o w)[j] = IF j <= Len(u) THEN u[j] ELSE w[j - Len(u)]
    BY <2>1, ConcatProperties
  <2>3. \A j \in 1 .. Len(u) : (u \o w)[j] = u[j]
    BY <2>1, <2>2
  <2> QED
    BY <2>1, <2>2, <2>3 DEF u, w
<1>7. Len(p[m]) \in Nat
  OBVIOUS
<1>8. Len(p[i]) <= Len(p[m])
  BY <1>4, <1>6, <1>7
<1>9. ASSUME NEW j \in 1 .. Len(p[i]) PROVE p[m][j] = p[i][j]
  <2>1. j \in 1 .. Len(p[i + 1]) /\ p[i + 1][j] = p[i][j]
    BY <1>6
  <2>2. p[m][j] = p[i + 1][j]
    BY <1>4, <2>1
  <2> QED
    BY <2>1, <2>2
<1> QED
  BY <1>8, <1>9

-----------------------------------------------------------------------------
(* Coding.                                                                 *)
Allowed(plus) == Unreserved \union {Percent} \union (IF plus THEN {Plus} ELSE {})

LEMMA Digits ==
  ASSUME NEW c \in Bytes
  PROVE  /\ c \div 16 \in 0 .. 15 /\ c % 16 \in 0 .. 15
         /\ HexDigit(c \div 16) \in Unreserved /\ HexDigit(c % 16) \in Unreserved
         /\ Escaped(HexDigit(c \div 16), HexDigit(c % 16)) = c
<1>1. c \div 16 \in 0 .. 15 /\ c % 16 \in 0 .. 15 /\ 16 * (c \div 16) + (c % 16) = c
  BY DEF Bytes
<1>2. \A d \in 0 .. 15 : HexDigit(d) \in Unreserved /\ CONV(HexDigit(d)) = d
  BY DEF HexDigit, CONV, Unreserved, Alphanumeric
<1>3. (c \div 16) * 16 + (c % 16) = c /\ c % 256 = c
  BY <1>1 DEF Bytes
<1>4. Escaped(HexDigit(c \div 16), HexDigit(c % 16)) = c
  BY <1>1, <1>2, <1>3 DEF Escaped
<1> QED
  BY <1>1, <1>2, <1>4

LEMMA CodeOfByte ==
  ASSUME NEW c \in Bytes, NEW plus \in BOOLEAN
  PROVE  EncodedByte(c, plus) \in Seq(Allowed(plus)) /\ Allowed(plus) \subseteq Bytes
<1>1. Allowed(plus) \subseteq Bytes
  BY DEF Allowed, Unreserved, Alphanumeric, Bytes, Hyphen, Underscore, Tilde, Dot, Percent, Plus
<1>2. CASE c \in Unreserved
  <2>1. EncodedByte(c, plus) = <<c>> /\ c \in Allowed(plus)
    BY <1>2 DEF EncodedByte, Allowed
  <2> QED
    BY <1>1, <2>1
<1>3. CASE c \notin Unreserved /\ plus /\ c = Space
  <2>1. EncodedByte(c, plus) = <<Plus>> /\ Plus \in Allowed(plus)
    BY <1>3 DEF EncodedByte, Allowed
  <2> QED
    BY <1>1, <2>1
<1>4. CASE c \notin Unreserved /\ ~(plus /\ c = Space)
  <2> DEFINE a == HexDigit(c \div 16)
             b == HexDigit(c % 16)
  <2>1. EncodedByte(c, plus) = <<Percent, a, b>>
    BY <1>4 DEF EncodedByte
  <2>2. a \in Allowed(plus) /\ b \in Allowed(plus) /\ Percent \in Allowed(plus)
    BY Digits DEF Allowed
  <2> HIDE DEF a, b
  <2> QED
    BY <1>1, <2>1, <2>2
<1> QED
  BY <1>2, <1>3, <1>4

LEMMA EncodeIs ==
  ASSUME NEW src \in Seq(Bytes), NEW plus \in BOOLEAN
  PROVE  \E p \in [0 .. Len(src) -> Seq(Allowed(plus))] :
           /\ p[0] = <<>>
           /\ \A k \in 1 .. Len(src) : p[k] = p[k - 1] \o EncodedByte(src[k], plus)
           /\ UrlEnCode(src, plus) = p[Len(src)]
<1> DEFINE e == [i \in DOMAIN src |-> EncodedByte(src[i], plus)]
           S == Allowed(plus)
<1>1. DOMAIN src = 1 .. Len(src) /\ Len(src) \in Nat /\ \A i \in 1 .. Len(src) : src[i] \in Bytes
  OBVIOUS
<1>2. \A i \in 1 .. Len(src) : EncodedByte(src[i], plus) \in Seq(S)
  BY <1>1, CodeOfByte
<1>3. e = [i \in 1 .. Len(src) |-> EncodedByte(src[i], plus)]
  BY <1>1
<1> HIDE DEF e, S
<1>4. e \in Seq(Seq(S)) /\ Len(e) = Len(src)
  BY <1>1, <1>2, <1>3
<1>5. PICK p \in [0 .. Len(e) -> Seq(S)] :
        /\ p[0] = <<>>
        /\ \A k \in 1 .. Len(e) : p[k] = p[k - 1] \o e[k]
        /\ FlattenSeq(e) = p[Len(e)]
  BY <1>4, FlattenIs
<1>6. \A k \in 1 .. Len(src) : p[k] = p[k - 1] \o EncodedByte(src[k], plus)
  BY <1>3, <1>4, <1>5
<1>7. UrlEnCode(src, plus) = p[Len(src)]
  BY <1>4, <1>5 DEF UrlEnCode, e
<1> QED
  BY <1>4, <1>5, <1>6, <1>7 DEF S

(* The decoder reads the code of a byte as that byte.                      *)
LEMMA DecodeOneCode ==
  ASSUME NEW code \in Seq(Bytes), NEW plus \in BOOLEAN, NEW c \in Bytes, NEW i \in 1 .. Len(code),
         i + Len(EncodedByte(c, plus)) - 1 <= Len(code),
         \A j \in 1 .. Len(EncodedByte(c, plus)) : code[i + j - 1] = EncodedByte(c, plus)[j],
         NEW f
  PROVE  DecodedFrom(f, code, plus, i) = <<c>> \o f[i + Len(EncodedByte(c, plus))]
<1>0. i + 1 - 1 = i /\ i + 2 - 1 = i + 1 /\ i + 3 - 1 = i + 2 /\ ~(i > Len(code))
  OBVIOUS
<1>1. CASE c \in Unreserved
  <2>1. EncodedByte(c, plus) = <<c>> /\ Len(<<c>>) = 1
    BY <1>1 DEF EncodedByte
  <2>2. code[i] = c
    BY <1>0, <2>1
  <2>3. c # Plus /\ c # Percent
    BY <1>1 DEF Unreserved, Alphanumeric, Plus, Percent, Hyphen, Underscore, Tilde, Dot
  <2> QED
    BY <1>0, <2>1, <2>2, <2>3 DEF DecodedFrom
<1>2. CASE c \notin Unreserved /\ plus /\ c = Space
  <2>1. EncodedByte(c, plus) = <<Plus>> /\ Len(<<Plus>>) = 1
    BY <1>2 DEF EncodedByte
  <2>2. code[i] = Plus
    BY <1>0, <2>1
  <2> QED
    BY <1>0, <1>2, <2>1, <2>2 DEF DecodedFrom
<1>3. CASE c \notin Unreserved /\ ~(plus /\ c = Space)
  <2> DEFINE a == HexDigit(c \div 16)
             b == HexDigit(c % 16)
  <2>1. EncodedByte(c, plus) = <<Percent, a, b>>
    BY <1>3 DEF EncodedByte
  <2>2. Escaped(a, b) = c
    BY Digits
  <2> HIDE DEF a, b
  <2>3. Len(<<Percent, a, b>>) = 3
    OBVIOUS
  <2>4. code[i] = Percent /\ code[i + 1] = a /\ code[i + 2] = b /\ i + 2 <= Len(code)
    BY <1>0, <2>1, <2>3
  <2>5. Percent # Plus
    BY DEF Percent, Plus
  <2> QED
    BY <1>0, <2>1, <2>2, <2>3, <2>4, <2>5 DEF DecodedFrom
<1> QED
  BY <1>1, <1>2, <1>3

(* Decoding undoes encoding.                                               *)
LEMMA CodingRoundTrip ==
  ASSUME NEW src \in Seq(Bytes), NEW plus \in BOOLEAN
  PROVE  /\ UrlEnCode(src, plus) \in Seq(Allowed(plus))
         /\ UrlEnCode(src, plus) \in Seq(Bytes)
         /\ UrlDecode(UrlEnCode(src, plus), plus) = src
<1> DEFINE m == Len(src)
           code == UrlEnCode(src, plus)
           Code(k) == EncodedByte(src[k], plus)
           e == [k \in 1 .. m |-> Code(k)]
           S == Allowed(plus)
<1>1. m \in Nat /\ S \subseteq Bytes /\ \A k \in 1 .. m : src[k] \in Bytes /\ Code(k) \in Seq(S)
  <2>1. 0 \in Bytes
    BY DEF Bytes
  <2> QED
    BY <2>1, CodeOfByte
<1>2. PICK p \in [0 .. m -> Seq(S)] :
        /\ p[0] = <<>>
        /\ \A k \in 1 .. m : p[k] = p[k - 1] \o Code(k)
        /\ code = p[m]
  BY EncodeIs
<1> HIDE DEF S, code
<1>3. code \in Seq(S) /\ code \in Seq(Bytes) /\ Len(code) \in Nat
  <2>1. code \in Seq(S)
    BY <1>1, <1>2
  <2> QED
    BY <1>1, <2>1, SeqMonotonic
<1>4. PICK f : /\ UrlDecode(code, plus) = f[1]
               /\ \A i \in 1 .. Len(code) + 3 :
                    f[i] = DecodedFrom(f, code, plus, i) /\ f[i] \in Seq(Bytes)
  BY <1>3, DecodeUnfolds
<1> DEFINE Claim(k) == f[Len(p[k]) + 1] = SubSeq(src, k + 1, m)
           Failing == {k \in 0 .. m : ~Claim(k)}
<1>5. \A k \in 0 .. m : Len(p[k]) \in Nat /\ Len(p[k]) <= Len(code)
                        /\ \A j \in 1 .. Len(p[k]) : code[j] = p[k][j]
  <2>1. e \in [1 .. m -> Seq(S)] /\ \A k \in 1 .. m : p[k] = p[k - 1] \o e[k]
    BY <1>1, <1>2
  <2> HIDE DEF e
  <2>2. ASSUME NEW k \in 0 .. m
        PROVE  Len(p[k]) <= Len(p[m]) /\ \A j \in 1 .. Len(p[k]) : p[m][j] = p[k][j]
    BY <1>1, <2>1, PiecesInPlace
  <2>3. \A k \in 0 .. m : p[k] \in Seq(S)
    OBVIOUS
  <2> QED
    BY <1>2, <2>2, <2>3
<1>6. Claim(m)
  <2>1. f[Len(code) + 1] = <<>>
    <3>1. Len(code) + 1 \in 1 .. Len(code) + 3 /\ Len(code) + 1 > Len(code)
      BY <1>3
    <3>2. DecodedFrom(f, code, plus, Len(code) + 1) = <<>>
      BY <3>1 DEF DecodedFrom
    <3> QED
      BY <1>4, <3>1, <3>2
  <2>2. SubSeq(src, m + 1, m) = <<>>
    BY <1>1, SubSeqEmpty
  <2> QED
    BY <1>2, <2>1, <2>2
<1>7. ASSUME NEW k \in 1 .. m, Claim(k) PROVE Claim(k - 1)
  <2> DEFINE i == Len(p[k - 1]) + 1
             c == src[k]
             n == Len(Code(k))
  <2>1. k - 1 \in 0 .. m /\ k \in 0 .. m /\ c \in Bytes /\ Code(k) \in Seq(S) /\ n \in Nat
    BY <1>1
  <2>2. /\ Len(p[k]) = Len(p[k - 1]) + n
        /\ \A j \in 1 .. n : p[k][Len(p[k - 1]) + j] = Code(k)[j]
    <3>1. p[k] = p[k - 1] \o Code(k) /\ p[k - 1] \in Seq(S) /\ p[k] \in Seq(S)
      BY <1>2, <2>1
    <3> HIDE DEF Code
    <3> QED
      BY <2>1, <3>1, ConcatProperties
  <2>3. n >= 1
    BY DEF EncodedByte
  <2> HIDE DEF n, Code
  <2>4. i \in 1 .. Len(code) /\ i + n - 1 <= Len(code) /\ i + n = Len(p[k]) + 1
    BY <1>3, <1>5, <2>1, <2>2, <2>3
  <2>5. \A j \in 1 .. n : code[i + j - 1] = Code(k)[j]
    <3> SUFFICES ASSUME NEW j \in 1 .. n PROVE code[i + j - 1] = Code(k)[j]
      OBVIOUS
    <3>1. i + j - 1 = Len(p[k - 1]) + j /\ i + j - 1 \in 1 .. Len(p[k])
      BY <1>5, <2>1, <2>2
    <3> QED
      BY <1>5, <2>1, <2>2, <3>1
  <2>6. f[i] = DecodedFrom(f, code, plus, i)
    BY <1>3, <1>4, <2>4
  <2>7. DecodedFrom(f, code, plus, i) = <<c>> \o f[i + n]
    BY <1>3, <2>1, <2>4, <2>5, DecodeOneCode DEF n, Code
  <2>8. SubSeq(src, (k - 1) + 1, m) = <<c>> \o SubSeq(src, k + 1, m)
    <3>1. (k - 1) + 1 = k /\ m \in k .. Len(src) /\ k \in 1 .. Len(src)
      BY <1>1
    <3> QED
      BY <3>1, SubSeqRecursiveFirst
  <2> QED
    BY <1>7, <2>4, <2>6, <2>7, <2>8
<1>8. Failing = {}
  <2> SUFFICES ASSUME Failing # {} PROVE FALSE
    OBVIOUS
  <2>1. Failing \in SUBSET (0 .. m) /\ 0 \in Int /\ m \in Int
    BY <1>1
  <2>2. PICK k \in Failing : \A j \in Failing : j <= k
    BY <2>1, LastExists
  <2> HIDE DEF Claim
  <2>3. k # m
    BY <1>6, <2>2
  <2>4. k + 1 \in 1 .. m /\ k + 1 \notin Failing /\ (k + 1) - 1 = k
    BY <1>1, <2>2, <2>3
  <2>5. Claim(k + 1)
    BY <2>4
  <2> QED
    BY <1>7, <2>2, <2>4, <2>5
<1>9. f[1] = src
  <2>1. Claim(0)
    <3> HIDE DEF Claim
    <3>1. 0 \in 0 .. m
      BY <1>1
    <3> QED
      BY <1>8, <3>1
  <2>2. Len(p[0]) + 1 = 1
    BY <1>2
  <2>3. SubSeq(src, 0 + 1, m) = src
    BY SubSeqFull
  <2> QED
    BY <2>1, <2>2, <2>3
<1> QED
  BY <1>3, <1>4, <1>9 DEF code, S

-----------------------------------------------------------------------------
(* The text of a target consists of bytes. *)
TextInv == target \in Seq(Bytes)

LEMMA PiecesAreText == Pieces \subseteq Seq(Bytes)
<1>1. {Slash, A, Dot, Percent, Question, Plus, Space, Ampersand, Equals, 50, 69, 101, 104, 228}
        \subseteq Bytes
  BY DEF Bytes, Slash, A, Dot, Percent, Question, Plus, Space, Ampersand, Equals
<1> QED
  BY <1>1 DEF Pieces, Html

LEMMA TextCorrect == Spec => []TextInv
<1>1. Init => TextInv
  BY DEF Init, TextInv
<1>2. TextInv /\ [Next]_vars => TextInv'
  <2> SUFFICES ASSUME TextInv, [Next]_vars PROVE TextInv'
    OBVIOUS
  <2>1. CASE \E piece \in Pieces : Extend(piece)
    <3>1. PICK piece \in Pieces : target' = target \o piece
      BY <2>1 DEF Extend
    <3>2. piece \in Seq(Bytes)
      BY <3>1, PiecesAreText
    <3> QED
      BY <3>1, <3>2, ConcatProperties DEF TextInv
  <2>2. CASE \/ Refuse
             \/ \E s \in {"Http_Server", "HttpServer"}, m \in {"GET", "HEAD", "POST"}, t \in Trees :
                  Request(s, m, t)
    <3>1. target' = <<>>
      BY <2>2 DEF Refuse, Request
    <3> QED
      BY <3>1 DEF TextInv
  <2>3. CASE \/ \E t \in Trees : Change(t)
             \/ Route \/ FileHandler
             \/ HandleRequest \/ TryRegular \/ TryHtml \/ TryDirectory \/ TryIndex \/ Read
             \/ Again
             \/ UNCHANGED vars
    <3>1. target' = target
      BY <2>3 DEF Change, Route, FileHandler, HandleRequest, TryRegular, TryHtml, TryDirectory,
                  TryIndex, Read, Again, vars, ReadFile, ReadRoot, Finish, Go
    <3> QED
      BY <3>1 DEF TextInv
  <2> QED
    BY <2>1, <2>2, <2>3 DEF Next
<1> QED
  BY <1>1, <1>2, PTL DEF Spec

(* UrlDecode undoes UrlEnCode, whatever the text and its length, with      *)
(* either reading of spaces; what UrlEnCode returns holds nothing that has *)
(* a meaning in a target, and UrlDecode returns bytes for every text.      *)
THEOREM CodingIsInverted == Spec => []CodingInverts
<1>1. TextInv => CodingInverts
  <2> SUFFICES ASSUME TextInv, NEW plus \in BOOLEAN
               PROVE  /\ UrlDecode(UrlEnCode(target, plus), plus) = target
                      /\ UrlDecode(target, plus) \in Seq(Bytes)
                      /\ ToSet(UrlEnCode(target, plus)) \subseteq Allowed(plus)
    BY DEF CodingInverts, Allowed
  <2>1. target \in Seq(Bytes)
    BY DEF TextInv
  <2>2. UrlEnCode(target, plus) \in Seq(Allowed(plus)) /\ UrlDecode(UrlEnCode(target, plus), plus) = target
    BY <2>1, CodingRoundTrip
  <2>3. UrlDecode(target, plus) \in Seq(Bytes)
    <3>1. 1 \in 1 .. Len(target) + 3
      BY <2>1
    <3> QED
      BY <2>1, <3>1, DecodeUnfolds
  <2>4. ToSet(UrlEnCode(target, plus)) \subseteq Allowed(plus)
    BY <2>2 DEF ToSet
  <2> QED
    BY <2>2, <2>3, <2>4
<1> QED
  BY <1>1, TextCorrect, PTL

-----------------------------------------------------------------------------
(* A text that is known byte by byte.                                      *)
LEMMA SubSeqIs ==
  ASSUME NEW src \in Seq(Bytes), NEW o \in Nat, NEW p \in Nat, o <= p,
         NEW t \in Seq(Bytes), Len(t) = p - o,
         \A i \in 1 .. Len(t) : src[o + i] = t[i]
  PROVE  SubSeq(src, o + 1, p) = t
<1> DEFINE u == SubSeq(src, o + 1, p)
<1>1. \A i \in o + 1 .. p : src[i] \in Bytes
  <2> SUFFICES ASSUME NEW i \in o + 1 .. p PROVE src[i] \in Bytes
    OBVIOUS
  <2>1. i - o \in 1 .. Len(t) /\ o + (i - o) = i /\ t[i - o] \in Bytes
    OBVIOUS
  <2> QED
    BY <2>1
<1>2. u \in Seq(Bytes) /\ Len(u) = IF o + 1 <= p THEN p - (o + 1) + 1 ELSE 0
  BY <1>1, SubSeqProperties
<1>3. \A i \in 1 .. p - (o + 1) + 1 : u[i] = src[(o + 1) + i - 1]
  BY <1>1, SubSeqProperties
<1> HIDE DEF u
<1>4. Len(u) = Len(t) /\ p - (o + 1) + 1 = Len(t)
  BY <1>2
<1>5. \A i \in 1 .. Len(t) : u[i] = t[i]
  <2> SUFFICES ASSUME NEW i \in 1 .. Len(t) PROVE u[i] = t[i]
    OBVIOUS
  <2>1. (o + 1) + i - 1 = o + i
    OBVIOUS
  <2> QED
    BY <1>3, <1>4, <2>1
<1>6. u = t
  BY <1>2, <1>4, <1>5, SeqEqual
<1> QED
  BY <1>6 DEF u

(* find of one byte: the first place at or after an offset.                *)
LEMMA FindIs ==
  ASSUME NEW src \in Seq(Bytes), NEW c, NEW from \in Nat
  PROVE  \/ /\ find(src, <<c>>, from) = npos
            /\ \A p \in from + 1 .. Len(src) : src[p] # c
         \/ /\ find(src, <<c>>, from) \in from .. Len(src) - 1
            /\ src[find(src, <<c>>, from) + 1] = c
            /\ \A p \in from + 1 .. find(src, <<c>>, from) : src[p] # c
<1> DEFINE at == {p \in from .. Len(src) - Len(<<c>>) : SubSeq(src, p + 1, p + Len(<<c>>)) = <<c>>}
           there == {p \in from .. Len(src) - 1 : src[p + 1] = c}
<1>1. at = there
  <2>1. Len(<<c>>) = 1 /\ Len(src) \in Nat
    OBVIOUS
  <2>2. ASSUME NEW p \in from .. Len(src) - 1
        PROVE  SubSeq(src, p + 1, p + 1) = <<c>> <=> src[p + 1] = c
    <3>1. p + 1 \in 1 .. Len(src)
      BY <2>1
    <3>2. SubSeq(src, p + 1, p + 1) = <<src[p + 1]>>
      <4> DEFINE t == <<src[p + 1]>>
      <4>1. t \in Seq(Bytes) /\ Len(t) = (p + 1) - p /\ \A i \in 1 .. Len(t) : src[p + i] = t[i]
        BY <3>1
      <4>2. p \in Nat /\ p + 1 \in Nat /\ p <= p + 1
        BY <3>1
      <4> HIDE DEF t
      <4>3. SubSeq(src, p + 1, p + 1) = t
        BY <4>1, <4>2, SubSeqIs
      <4> QED
        BY <4>3 DEF t
    <3> QED
      BY <3>2
  <2> QED
    BY <2>1, <2>2
<1>2. find(src, <<c>>, from) = IF there = {} THEN npos ELSE Min(there)
  BY <1>1 DEF find
<1>3. CASE there = {}
  <2>1. ASSUME NEW p \in from + 1 .. Len(src) PROVE src[p] # c
    <3>1. p - 1 \in from .. Len(src) - 1 /\ (p - 1) + 1 = p
      OBVIOUS
    <3> QED
      BY <1>3, <3>1
  <2> QED
    BY <1>2, <1>3, <2>1
<1>4. CASE there # {}
  <2>1. there \in SUBSET Nat
    OBVIOUS
  <2>2. Min(there) \in there /\ \A j \in there : Min(there) <= j
    <3>1. \E k \in there : \A j \in there : k <= j
      BY <1>4, <2>1, LeastExists
    <3> HIDE DEF there
    <3> QED
      BY <3>1 DEF Min
  <2> DEFINE pos == Min(there)
  <2>3. pos \in from .. Len(src) - 1 /\ src[pos + 1] = c
    BY <2>2
  <2>4. ASSUME NEW p \in from + 1 .. pos PROVE src[p] # c
    <3>1. p - 1 \in from .. Len(src) - 1 /\ (p - 1) + 1 = p /\ ~(pos <= p - 1)
      BY <2>3
    <3>2. p - 1 \notin there
      BY <2>2, <3>1
    <3> QED
      BY <3>1, <3>2
  <2> QED
    BY <1>2, <1>4, <2>3, <2>4
<1> QED
  BY <1>3, <1>4

(* split as a chain over the offsets.                                      *)
SplitStop(src, c) ==
  {i \in 0 .. Len(src) + 1 : i >= Len(src) \/ find(src, <<c>>, i) = npos}
SplitSkip(src, c) ==
  {i \in 0 .. Len(src) + 1 : find(src, <<c>>, i) = i}
SplitHead(src, c) ==
  [i \in 0 .. Len(src) + 1 |->
     IF i >= Len(src) THEN <<>>
     ELSE IF find(src, <<c>>, i) = npos THEN <<SubSeq(src, i + 1, Len(src))>>
     ELSE <<SubSeq(src, i + 1, find(src, <<c>>, i))>>]
SplitNext(src, c) ==
  [i \in 0 .. Len(src) + 1 |-> find(src, <<c>>, i) + 1]

Splits(f, src, c) ==
  Chain(f, 0, Len(src) + 1, SplitStop(src, c), SplitSkip(src, c), SplitHead(src, c), SplitNext(src, c))

SplitFrom(f, src, sep, offset) ==
  IF offset >= Len(src) THEN <<>>
  ELSE IF find(src, sep, offset) = npos THEN <<SubSeq(src, offset + 1, Len(src))>>
  ELSE IF find(src, sep, offset) = offset THEN f[find(src, sep, offset) + Len(sep)]
  ELSE <<SubSeq(src, offset + 1, find(src, sep, offset))>> \o f[find(src, sep, offset) + Len(sep)]

LEMMA SplitLinks ==
  ASSUME NEW src \in Seq(Bytes), NEW c
  PROVE  /\ \A i \in 0 .. Len(src) + 1 :
              \/ i \in SplitStop(src, c)
              \/ SplitNext(src, c)[i] \in i + 1 .. Len(src) + 1
         /\ \A i \in 0 .. Len(src) + 1 : SplitHead(src, c)[i] \in Seq(Seq(Bytes))
<1> SUFFICES ASSUME NEW i \in 0 .. Len(src) + 1
             PROVE  /\ \/ i \in SplitStop(src, c)
                       \/ SplitNext(src, c)[i] \in i + 1 .. Len(src) + 1
                    /\ SplitHead(src, c)[i] \in Seq(Seq(Bytes))
  OBVIOUS
<1> DEFINE pos == find(src, <<c>>, i)
<1>1. Len(src) \in Nat /\ i \in Nat /\ i + 1 \in Nat
  OBVIOUS
<1>2. pos = npos \/ pos \in i .. Len(src) - 1
  BY <1>1, FindIs
<1>3. i \in SplitStop(src, c) \/ SplitNext(src, c)[i] \in i + 1 .. Len(src) + 1
  <2>1. i \in SplitStop(src, c) \/ pos \in i .. Len(src) - 1
    BY <1>2 DEF SplitStop
  <2>2. SplitNext(src, c)[i] = pos + 1
    BY DEF SplitNext
  <2> HIDE DEF pos
  <2> QED
    BY <1>1, <2>1, <2>2
<1>4. SplitHead(src, c)[i] \in Seq(Seq(Bytes))
  <2>1. CASE i >= Len(src)
    <3>1. SplitHead(src, c)[i] = <<>>
      BY <2>1 DEF SplitHead
    <3> QED
      BY <3>1
  <2>2. CASE ~(i >= Len(src))
    <3>1. PICK j \in Int : SplitHead(src, c)[i] = <<SubSeq(src, i + 1, j)>> /\ j <= Len(src)
      <4>1. SplitHead(src, c)[i] = IF pos = npos THEN <<SubSeq(src, i + 1, Len(src))>>
                                   ELSE <<SubSeq(src, i + 1, pos)>>
        BY <2>2 DEF SplitHead
      <4> HIDE DEF pos
      <4>2. CASE pos = npos
        <5>1. Len(src) \in Int /\ Len(src) <= Len(src)
          BY <1>1
        <5> QED
          BY <4>1, <4>2, <5>1
      <4>3. CASE pos # npos
        <5>1. pos \in Int /\ pos <= Len(src)
          BY <1>1, <1>2, <4>3
        <5> QED
          BY <4>1, <4>3, <5>1
      <4> QED
        BY <4>2, <4>3
    <3>2. SubSeq(src, i + 1, j) \in Seq(Bytes)
      <4>1. \A k \in i + 1 .. j : src[k] \in Bytes
        BY <1>1, <3>1
      <4> QED
        BY <1>1, <4>1, SubSeqProperties
    <3> QED
      BY <3>1, <3>2
  <2> QED
    BY <2>1, <2>2
<1> QED
  BY <1>3, <1>4

(* The chain that split computes.                                          *)
LEMMA SplitUnfolds ==
  ASSUME NEW src \in Seq(Bytes), NEW c
  PROVE  \E f : /\ split(src, <<c>>) = f[0]
                /\ \A i \in 0 .. Len(src) + 1 :
                     f[i] = SplitFrom(f, src, <<c>>, i) /\ f[i] \in Seq(Seq(Bytes))
<1> DEFINE D == 0 .. Len(src) + Len(<<c>>)
           Unfolds(f) == f = [i \in D |-> SplitFrom(f, src, <<c>>, i)]
           from == CHOOSE f : Unfolds(f)
<1>1. 0 \in Int /\ Len(src) + 1 \in Int /\ Len(<<c>>) = 1 /\ D = 0 .. Len(src) + 1
  OBVIOUS
<1>2. PICK g : Splits(g, src, c)
  BY <1>1, SplitLinks, ChainExists DEF Splits
<1>3. ASSUME NEW f PROVE Unfolds(f) <=> Splits(f, src, c)
  <2>1. ASSUME NEW i \in 0 .. Len(src) + 1
        PROVE  SplitFrom(f, src, <<c>>, i)
                 = Link(f, i, SplitStop(src, c), SplitSkip(src, c), SplitHead(src, c), SplitNext(src, c))
    <3>1. i \in SplitStop(src, c) <=> (i >= Len(src) \/ find(src, <<c>>, i) = npos)
      BY DEF SplitStop
    <3>2. i \in SplitSkip(src, c) <=> find(src, <<c>>, i) = i
      BY DEF SplitSkip
    <3>3. SplitNext(src, c)[i] = find(src, <<c>>, i) + Len(<<c>>)
      BY <1>1 DEF SplitNext
    <3>4. SplitHead(src, c)[i] = IF i >= Len(src) THEN <<>>
                                 ELSE IF find(src, <<c>>, i) = npos THEN <<SubSeq(src, i + 1, Len(src))>>
                                 ELSE <<SubSeq(src, i + 1, find(src, <<c>>, i))>>
      BY DEF SplitHead
    <3> QED
      BY <3>1, <3>2, <3>3, <3>4 DEF SplitFrom, Link
  <2>2. [i \in D |-> SplitFrom(f, src, <<c>>, i)]
          = [i \in 0 .. Len(src) + 1 |->
               Link(f, i, SplitStop(src, c), SplitSkip(src, c), SplitHead(src, c), SplitNext(src, c))]
    BY <1>1, <2>1
  <2> QED
    BY <2>2 DEF Splits, Chain
<1>4. split(src, <<c>>) = from[0]
  <2>1. <<c>> # <<>>
    OBVIOUS
  <2> QED
    BY <2>1 DEF split, SplitFrom
<1> HIDE DEF Unfolds
<1>5. Unfolds(from)
  <2>1. Unfolds(g)
    BY <1>2, <1>3
  <2> QED
    BY <2>1
<1> HIDE DEF from
<1>6. Splits(from, src, c)
  BY <1>3, <1>5
<1>7. \A i \in 0 .. Len(src) + 1 : from[i] \in Seq(Seq(Bytes))
  <2> DEFINE S == Seq(Bytes)
  <2>1. \A i \in 0 .. Len(src) + 1 : SplitHead(src, c)[i] \in Seq(S)
    BY SplitLinks
  <2>2. \A i \in 0 .. Len(src) + 1 :
          i \in SplitStop(src, c) \/ SplitNext(src, c)[i] \in i + 1 .. Len(src) + 1
    BY SplitLinks
  <2> HIDE DEF S
  <2>3. \A i \in 0 .. Len(src) + 1 : from[i] \in Seq(S)
    BY <1>1, <1>6, <2>1, <2>2, ChainType DEF Splits
  <2> QED
    BY <2>3 DEF S
<1>8. \A i \in 0 .. Len(src) + 1 : from[i] = SplitFrom(from, src, <<c>>, i)
  BY <1>1, <1>5 DEF Unfolds
<1> QED
  BY <1>4, <1>7, <1>8

-----------------------------------------------------------------------------
(* The runs that begin after an offset, and a list of runs in order.       *)
RunsFrom(text, sep, o) == {r \in Runs(text, sep) : r[1] > o}
UpTo(R, r) == {q \in R : q[1] <= r[1]}
Lists(v, R, text) ==
  /\ Len(v) = Cardinality(R)
  /\ \A r \in R : v[Cardinality(UpTo(R, r))] = SubSeq(text, r[1], r[2])

LEMMA RunsAreFinite ==
  ASSUME NEW text \in Seq(Bytes), NEW sep, NEW o
  PROVE  IsFiniteSet(RunsFrom(text, sep, o))
<1> DEFINE D == 1 .. Len(text)
<1>1. IsFiniteSet(D)
  <2>1. 1 \in Int /\ Len(text) \in Int
    OBVIOUS
  <2> QED
    BY <2>1, FS_Interval
<1>2. IsFiniteSet(D \X D)
  BY <1>1, FS_Product
<1>3. RunsFrom(text, sep, o) \in SUBSET (D \X D)
  BY DEF RunsFrom, Runs
<1> QED
  BY <1>2, <1>3, FS_Subset

LEMMA NoRuns ==
  ASSUME NEW text \in Seq(Bytes), NEW sep, NEW o \in Nat, o >= Len(text)
  PROVE  RunsFrom(text, sep, o) = {}
BY DEF RunsFrom, Runs

LEMMA NoRunAtSeparator ==
  ASSUME NEW text \in Seq(Bytes), NEW sep, NEW o \in 0 .. Len(text) - 1, text[o + 1] = sep
  PROVE  RunsFrom(text, sep, o) = RunsFrom(text, sep, o + 1)
<1>1. ASSUME NEW r \in Runs(text, sep), r[1] = o + 1 PROVE FALSE
  <2>1. r[1] \in r[1] .. r[2] /\ text[r[1]] # sep
    BY DEF Runs
  <2> QED
    BY <1>1, <2>1
<1>2. \A r \in Runs(text, sep) : r[1] \in Nat
  BY DEF Runs
<1>3. \A r \in Runs(text, sep) : r[1] > o <=> r[1] > o + 1
  BY <1>1, <1>2
<1> QED
  BY <1>3 DEF RunsFrom

LEMMA FirstRun ==
  ASSUME NEW text \in Seq(Bytes), NEW sep, NEW o \in 0 .. Len(text) - 1, NEW p \in o + 1 .. Len(text),
         o = 0 \/ text[o] = sep,
         \A i \in o + 1 .. p : text[i] # sep,
         p = Len(text) \/ text[p + 1] = sep
  PROVE  RunsFrom(text, sep, o) = {<<o + 1, p>>} \union RunsFrom(text, sep, p + 1)
<1> DEFINE n == Len(text)
<1>0. n \in Nat /\ o \in Nat /\ p \in Nat /\ p <= n
  OBVIOUS
<1>1. <<o + 1, p>> \in RunsFrom(text, sep, o)
  <2>1. <<o + 1, p>> \in (1 .. n) \X (1 .. n) /\ o + 1 <= p /\ o + 1 > o
    OBVIOUS
  <2>2. o + 1 = 1 \/ text[(o + 1) - 1] = sep
    <3>1. (o + 1) - 1 = o
      OBVIOUS
    <3> QED
      BY <3>1
  <2> QED
    BY <2>1, <2>2 DEF RunsFrom, Runs
<1>2. \A r \in RunsFrom(text, sep, p + 1) : r \in RunsFrom(text, sep, o)
  BY DEF RunsFrom, Runs
<1>3. ASSUME NEW r \in RunsFrom(text, sep, o), r \notin RunsFrom(text, sep, p + 1)
      PROVE  r = <<o + 1, p>>
  <2> DEFINE a == r[1]
             b == r[2]
  <2>1. /\ a \in 1 .. n /\ b \in 1 .. n /\ a <= b /\ a > o /\ r = <<a, b>>
        /\ \A i \in a .. b : text[i] # sep
        /\ a = 1 \/ text[a - 1] = sep
        /\ b = n \/ text[b + 1] = sep
    BY DEF RunsFrom, Runs
  <2>2. ~(a > p + 1)
    BY <1>3 DEF RunsFrom
  <2> HIDE DEF a, b
  <2>3. a # p + 1
    BY <1>0, <2>1
  <2>4. a = o + 1
    <3>1. ASSUME a # o + 1 PROVE FALSE
      <4>1. a - 1 \in o + 1 .. p /\ a # 1
        BY <1>0, <2>1, <2>2, <2>3, <3>1
      <4> QED
        BY <2>1, <4>1
    <3> QED
      BY <3>1
  <2>5. ~(b < p)
    <3>1. ASSUME b < p PROVE FALSE
      <4>1. b + 1 \in o + 1 .. p /\ b # n
        BY <1>0, <2>1, <2>4, <3>1
      <4> QED
        BY <2>1, <4>1
    <3> QED
      BY <3>1
  <2>6. ~(b > p)
    <3>1. ASSUME b > p PROVE FALSE
      <4>1. p + 1 \in a .. b /\ p # n
        BY <1>0, <2>1, <2>4, <3>1
      <4> QED
        BY <2>1, <4>1
    <3> QED
      BY <3>1
  <2>7. b = p
    BY <1>0, <2>1, <2>5, <2>6
  <2> QED
    BY <2>1, <2>4, <2>7
<1> QED
  BY <1>1, <1>2, <1>3

LEMMA ListLonger ==
  ASSUME NEW R, IsFiniteSet(R), NEW r0, r0[1] \in Int,
         \A q \in R : q[1] \in Int /\ q[1] > r0[1],
         NEW text, NEW v \in Seq(Seq(Bytes)), SubSeq(text, r0[1], r0[2]) \in Seq(Bytes),
         Lists(v, R, text)
  PROVE  Lists(<<SubSeq(text, r0[1], r0[2])>> \o v, {r0} \union R, text)
<1> DEFINE T == {r0} \union R
           S == Seq(Bytes)
           x == SubSeq(text, r0[1], r0[2])
           w == <<x>> \o v
<1>0. r0 \notin R /\ T = R \union {r0} /\ v \in Seq(S) /\ x \in S
  OBVIOUS
<1> HIDE DEF S, x
<1>1. /\ Len(w) = 1 + Len(v) /\ Len(v) \in Nat
      /\ w[1] = x
      /\ \A k \in 1 .. Len(v) : w[k + 1] = v[k]
  <2>1. <<x>> \in Seq(S) /\ Len(<<x>>) = 1
    BY <1>0
  <2>2. /\ Len(w) = Len(<<x>>) + Len(v)
        /\ \A i \in 1 .. Len(<<x>>) + Len(v) : w[i] = IF i <= Len(<<x>>) THEN <<x>>[i] ELSE v[i - Len(<<x>>)]
    BY <1>0, <2>1, ConcatProperties
  <2>3. Len(v) \in Nat
    OBVIOUS
  <2> HIDE DEF w
  <2>4. \A i \in 1 .. 1 + Len(v) : w[i] = IF i <= 1 THEN <<x>>[i] ELSE v[i - 1]
    BY <2>1, <2>2
  <2>5. w[1] = x
    BY <2>3, <2>4
  <2>6. ASSUME NEW k \in 1 .. Len(v) PROVE w[k + 1] = v[k]
    <3>1. k + 1 \in 1 .. 1 + Len(v) /\ ~(k + 1 <= 1) /\ (k + 1) - 1 = k
      BY <2>3
    <3> QED
      BY <2>4, <3>1
  <2> QED
    BY <2>1, <2>2, <2>3, <2>5, <2>6
<1> HIDE DEF w
<1>2. Len(w) = Cardinality(T)
  <2>1. Cardinality(R \union {r0}) = Cardinality(R) + 1
    BY <1>0, FS_AddElement
  <2>2. Len(v) = Cardinality(R)
    BY DEF Lists
  <2>3. Cardinality(T) = Cardinality(R) + 1
    <3> HIDE DEF T
    <3> QED
      BY <1>0, <2>1
  <2> HIDE DEF T
  <2> QED
    BY <1>1, <2>2, <2>3
<1>3. w[Cardinality(UpTo(T, r0))] = x
  <2>1. UpTo(T, r0) = {r0}
    BY DEF UpTo
  <2> QED
    BY <1>1, <2>1, FS_Singleton
<1>4. ASSUME NEW r \in R PROVE w[Cardinality(UpTo(T, r))] = SubSeq(text, r[1], r[2])
  <2> DEFINE k == Cardinality(UpTo(R, r))
  <2>1. UpTo(T, r) = UpTo(R, r) \union {r0} /\ r0 \notin UpTo(R, r)
    BY <1>0 DEF UpTo
  <2>2. IsFiniteSet(UpTo(R, r)) /\ k <= Cardinality(R) /\ UpTo(R, r) # {}
    <3>1. UpTo(R, r) \in SUBSET R /\ r \in UpTo(R, r)
      BY DEF UpTo
    <3> QED
      BY <3>1, FS_Subset
  <2>3. k \in Nat /\ k # 0
    BY <2>2, FS_CardinalityType, FS_EmptySet
  <2>4. Cardinality(UpTo(T, r)) = k + 1
    BY <2>1, <2>2, FS_AddElement
  <2>5. Len(v) = Cardinality(R) /\ v[k] = SubSeq(text, r[1], r[2])
    BY DEF Lists
  <2> HIDE DEF k
  <2>6. k \in 1 .. Len(v)
    BY <1>1, <2>2, <2>3, <2>5
  <2> QED
    BY <1>1, <2>4, <2>5, <2>6
<1> QED
  BY <1>2, <1>3, <1>4 DEF Lists, x, w

(* split lists the runs of a text without the separator.                   *)
LEMMA SplitListsRuns ==
  ASSUME NEW src \in Seq(Bytes), NEW c
  PROVE  Lists(split(src, <<c>>), Runs(src, c), src)
<1> DEFINE n == Len(src)
           Runs_(o) == RunsFrom(src, c, o)
<1>0. n \in Nat /\ Len(<<c>>) = 1
  OBVIOUS
<1>1. PICK f : /\ split(src, <<c>>) = f[0]
               /\ \A i \in 0 .. n + 1 :
                    f[i] = SplitFrom(f, src, <<c>>, i) /\ f[i] \in Seq(Seq(Bytes))
  BY SplitUnfolds
<1> DEFINE Begins(o) == o = 0 \/ o > n \/ src[o] = c
           Claim(o) == Begins(o) => Lists(f[o], Runs_(o), src)
           Failing == {o \in 0 .. n + 1 : ~Claim(o)}
<1>2. \A o \in 0 .. n + 1 : o >= n => Claim(o)
  <2> SUFFICES ASSUME NEW o \in 0 .. n + 1, o >= n PROVE Lists(f[o], Runs_(o), src)
    OBVIOUS
  <2>1. f[o] = <<>>
    BY <1>1 DEF SplitFrom
  <2>2. Runs_(o) = {}
    BY NoRuns
  <2> HIDE DEF Runs_
  <2>3. Len(f[o]) = Cardinality(Runs_(o))
    BY <2>1, <2>2, FS_EmptySet
  <2> QED
    BY <2>2, <2>3 DEF Lists
<1>3. ASSUME NEW o \in 0 .. n - 1, Begins(o), find(src, <<c>>, o) = npos
      PROVE  Lists(f[o], Runs_(o), src)
  <2>1. f[o] = <<SubSeq(src, o + 1, n)>>
    <3>1. o \in 0 .. n + 1 /\ ~(o >= n)
      BY <1>0
    <3>2. f[o] = SplitFrom(f, src, <<c>>, o)
      BY <1>1, <3>1
    <3> QED
      BY <1>3, <3>1, <3>2 DEF SplitFrom
  <2>2. \A i \in o + 1 .. n : src[i] # c
    <3>1. npos \notin o .. n - 1
      BY DEF npos
    <3> QED
      BY <1>3, <3>1, FindIs
  <2>3. Runs_(o) = {<<o + 1, n>>} \union Runs_(n + 1) /\ Runs_(n + 1) = {}
    <3>1. n \in o + 1 .. n /\ n + 1 >= n /\ n + 1 \in Nat /\ (o = 0 \/ src[o] = c)
      BY <1>0, <1>3
    <3> QED
      BY <2>2, <3>1, FirstRun, NoRuns
  <2>4. Runs_(o) = {<<o + 1, n>>}
    BY <2>3
  <2> HIDE DEF Runs_
  <2>5. Cardinality(Runs_(o)) = 1 /\ Len(f[o]) = 1
    BY <2>1, <2>4, FS_Singleton
  <2>6. UpTo(Runs_(o), <<o + 1, n>>) = Runs_(o)
    BY <2>4 DEF UpTo
  <2>7. ASSUME NEW r \in Runs_(o)
        PROVE  f[o][Cardinality(UpTo(Runs_(o), r))] = SubSeq(src, r[1], r[2])
    <3>1. r = <<o + 1, n>>
      BY <2>4
    <3>2. Cardinality(UpTo(Runs_(o), r)) = 1
      BY <2>5, <2>6, <3>1
    <3>3. f[o][1] = SubSeq(src, o + 1, n) /\ r[1] = o + 1 /\ r[2] = n
      BY <2>1, <3>1
    <3> QED
      BY <3>2, <3>3
  <2> QED
    BY <2>5, <2>7 DEF Lists
<1>4. ASSUME NEW o \in 0 .. n - 1, Begins(o), find(src, <<c>>, o) # npos,
             Claim(find(src, <<c>>, o) + 1)
      PROVE  Lists(f[o], Runs_(o), src)
  <2> DEFINE pos == find(src, <<c>>, o)
  <2>1. /\ pos \in o .. n - 1
        /\ src[pos + 1] = c
        /\ \A i \in o + 1 .. pos : src[i] # c
    BY <1>4, FindIs
  <2>2. f[o] = IF pos = o THEN f[pos + 1] ELSE <<SubSeq(src, o + 1, pos)>> \o f[pos + 1]
    <3>1. o \in 0 .. n + 1 /\ ~(o >= n)
      BY <1>0
    <3>2. f[o] = SplitFrom(f, src, <<c>>, o)
      BY <1>1, <3>1
    <3>3. pos # npos
      BY <1>4
    <3> QED
      BY <1>0, <3>1, <3>2, <3>3 DEF SplitFrom
  <2> HIDE DEF pos
  <2>3. pos + 1 \in 0 .. n + 1 /\ Lists(f[pos + 1], Runs_(pos + 1), src)
    BY <1>4, <2>1 DEF pos
  <2>4. CASE pos = o
    <3>1. Runs_(o) = Runs_(o + 1)
      BY <2>1, <2>4, NoRunAtSeparator
    <3> HIDE DEF Runs_
    <3> QED
      BY <2>2, <2>3, <2>4, <3>1
  <2>5. CASE pos # o
    <3> DEFINE r0 == <<o + 1, pos>>
    <3>1. Runs_(o) = {r0} \union Runs_(pos + 1)
      <4>1. pos \in o + 1 .. n /\ (o = 0 \/ src[o] = c)
        BY <1>0, <1>4, <2>1, <2>5
      <4> QED
        BY <2>1, <4>1, FirstRun
    <3>2. IsFiniteSet(Runs_(pos + 1)) /\ \A q \in Runs_(pos + 1) : q[1] \in Int /\ q[1] > r0[1]
      <4>1. \A q \in Runs_(pos + 1) : q[1] \in Int /\ q[1] > pos + 1
        BY DEF RunsFrom, Runs
      <4>2. pos + 1 > o + 1 /\ pos \in Int /\ o \in Int /\ r0[1] = o + 1
        BY <2>1, <2>5
      <4>3. IsFiniteSet(Runs_(pos + 1))
        BY RunsAreFinite
      <4> HIDE DEF Runs_, r0
      <4> QED
        BY <4>1, <4>2, <4>3
    <3>3. r0[1] = o + 1 /\ r0[2] = pos /\ r0[1] \in Int
      OBVIOUS
    <3>4. SubSeq(src, o + 1, pos) \in Seq(Bytes)
      <4>1. o + 1 \in Int /\ pos \in Int /\ \A i \in o + 1 .. pos : src[i] \in Bytes
        BY <2>1
      <4> QED
        BY <4>1, SubSeqProperties
    <3>5. f[pos + 1] \in Seq(Seq(Bytes))
      BY <1>1, <2>3
    <3> DEFINE R == Runs_(pos + 1)
    <3> HIDE DEF Runs_, r0
    <3>6. Lists(<<SubSeq(src, r0[1], r0[2])>> \o f[pos + 1], {r0} \union R, src)
      <4>1. IsFiniteSet(R) /\ (\A q \in R : q[1] \in Int /\ q[1] > r0[1]) /\ Lists(f[pos + 1], R, src)
        BY <2>3, <3>2
      <4>2. SubSeq(src, r0[1], r0[2]) \in Seq(Bytes)
        BY <3>3, <3>4
      <4> HIDE DEF R
      <4> QED
        BY <3>3, <3>5, <4>1, <4>2, ListLonger
    <3> QED
      BY <2>2, <2>5, <3>1, <3>3, <3>6
  <2> QED
    BY <2>4, <2>5
<1>5. Failing = {}
  <2> SUFFICES ASSUME Failing # {} PROVE FALSE
    OBVIOUS
  <2>1. PICK o \in Failing : \A j \in Failing : j <= o
    <3>1. Failing \in SUBSET (0 .. n + 1) /\ 0 \in Int /\ n + 1 \in Int
      BY <1>0
    <3> HIDE DEF Failing
    <3> QED
      BY <3>1, LastExists
  <2>2. o \in 0 .. n + 1 /\ ~Claim(o) /\ Begins(o) /\ ~Lists(f[o], Runs_(o), src)
    OBVIOUS
  <2> HIDE DEF Claim
  <2>3. o \in 0 .. n - 1
    BY <1>0, <1>2, <2>2
  <2>4. find(src, <<c>>, o) # npos
    BY <1>3, <2>2, <2>3
  <2>5. find(src, <<c>>, o) \in o .. n - 1
    BY <2>3, <2>4, FindIs
  <2> DEFINE next == find(src, <<c>>, o) + 1
  <2>6. next \in 0 .. n + 1 /\ ~(next <= o)
    BY <1>0, <2>3, <2>5
  <2>7. next \notin Failing
    BY <2>1, <2>6
  <2>8. Claim(next)
    BY <2>6, <2>7
  <2> QED
    BY <1>4, <2>2, <2>3, <2>4, <2>8
<1>6. Claim(0)
  <2> HIDE DEF Claim
  <2>1. 0 \in 0 .. n + 1
    BY <1>0
  <2> QED
    BY <1>5, <2>1
<1>7. Runs_(0) = Runs(src, c)
  BY DEF RunsFrom, Runs
<1> HIDE DEF Runs_
<1> QED
  BY <1>1, <1>6, <1>7

(* split returns the runs without a separator as they stand, in order, and *)
(* nothing else, for every text: separators that repeat, or lead, or end   *)
(* it make no empty piece.                                                 *)
THEOREM SplitTakesRuns == Spec => []SplitIsMaximalRuns
<1>1. TextInv => SplitIsMaximalRuns
  <2> SUFFICES ASSUME TextInv, NEW sep \in {Slash, Ampersand}
               PROVE  Lists(split(target, <<sep>>), Runs(target, sep), target)
    BY DEF SplitIsMaximalRuns, Lists, UpTo
  <2> QED
    BY SplitListsRuns DEF TextInv
<1> QED
  BY <1>1, TextCorrect, PTL

-----------------------------------------------------------------------------
(* Queries that were put together from keys and values.                    *)
(* The text t stands between the offsets o and p, and a separator or the   *)
(* end of the text follows it.                                             *)
PieceAt(src, c, o, p, t) ==
  /\ src \in Seq(Bytes)
  /\ o \in 0 .. Len(src) - 1 /\ p \in o + 1 .. Len(src)
  /\ p = Len(src) \/ src[p + 1] = c
  /\ t \in Seq(Bytes) /\ Len(t) = p - o
  /\ \A i \in 1 .. Len(t) : src[o + i] = t[i]
  /\ \A i \in 1 .. Len(t) : t[i] # c

LEMMA PieceSplitOff ==
  ASSUME NEW src, NEW c, NEW o, NEW p, NEW t, PieceAt(src, c, o, p, t), NEW f
  PROVE  SplitFrom(f, src, <<c>>, o) = IF p = Len(src) THEN <<t>> ELSE Cons(t, f[p + 1])
<1> USE DEF PieceAt
<1> DEFINE pos == find(src, <<c>>, o)
           n == Len(src)
<1>1. n \in Nat /\ o \in Nat /\ p \in Nat /\ o <= p /\ Len(<<c>>) = 1
  OBVIOUS
<1>2. \A i \in o + 1 .. p : src[i] # c
  <2> SUFFICES ASSUME NEW i \in o + 1 .. p PROVE src[i] # c
    OBVIOUS
  <2>1. i - o \in 1 .. Len(t) /\ o + (i - o) = i
    OBVIOUS
  <2> QED
    BY <2>1
<1>3. SubSeq(src, o + 1, p) = t
  BY <1>1, SubSeqIs
<1>4. \/ pos = npos /\ \A i \in o + 1 .. n : src[i] # c
      \/ pos \in o .. n - 1 /\ src[pos + 1] = c /\ \A i \in o + 1 .. pos : src[i] # c
  BY <1>1, FindIs
<1> HIDE DEF pos
<1>5. CASE p = n
  <2>1. pos = npos
    <3>1. ASSUME pos \in o .. n - 1, src[pos + 1] = c PROVE FALSE
      <4>1. pos + 1 \in o + 1 .. p
        BY <1>1, <1>5, <3>1
      <4> QED
        BY <1>2, <3>1, <4>1
    <3> QED
      BY <1>4, <3>1
  <2>2. find(src, <<c>>, o) = npos /\ ~(o >= Len(src)) /\ SubSeq(src, o + 1, Len(src)) = t
    BY <1>3, <1>5, <2>1 DEF pos
  <2>3. SplitFrom(f, src, <<c>>, o) = <<SubSeq(src, o + 1, Len(src))>>
    BY ONLY <2>2 DEF SplitFrom
  <2> QED
    BY <1>5, <2>2, <2>3
<1>6. CASE p # n
  <2>1. src[p + 1] = c /\ p + 1 \in o + 1 .. n
    BY <1>1, <1>6
  <2>2. pos \in o .. n - 1 /\ src[pos + 1] = c /\ \A i \in o + 1 .. pos : src[i] # c
    BY <1>4, <2>1
  <2>3. ~(pos < p)
    <3>1. ASSUME pos < p PROVE FALSE
      <4>1. pos + 1 \in o + 1 .. p
        BY <1>1, <2>2, <3>1
      <4> QED
        BY <1>2, <2>2, <4>1
    <3> QED
      BY <3>1
  <2>4. ~(p < pos)
    <3>1. ASSUME p < pos PROVE FALSE
      <4>1. p + 1 \in o + 1 .. pos
        BY <1>1, <2>2, <3>1
      <4> QED
        BY <2>1, <2>2, <4>1
    <3> QED
      BY <3>1
  <2>5. pos = p /\ pos # npos /\ pos # o
    BY <1>1, <2>2, <2>3, <2>4 DEF npos
  <2>6. find(src, <<c>>, o) = p /\ p # npos /\ p # o /\ ~(o >= Len(src))
    BY <2>5 DEF pos
  <2>7. SplitFrom(f, src, <<c>>, o) = <<SubSeq(src, o + 1, p)>> \o f[p + Len(<<c>>)]
    BY ONLY <2>6 DEF SplitFrom
  <2> QED
    BY <1>1, <1>3, <1>6, <2>7 DEF Cons
<1> QED
  BY <1>5, <1>6

(* Two texts with a byte in between.                                       *)
LEMMA Joined ==
  ASSUME NEW x \in Seq(Bytes), NEW c \in Bytes, NEW y \in Seq(Bytes)
  PROVE  /\ x \o <<c>> \o y \in Seq(Bytes)
         /\ Len(x \o <<c>> \o y) = Len(x) + 1 + Len(y)
         /\ \A i \in 1 .. Len(x) : (x \o <<c>> \o y)[i] = x[i]
         /\ (x \o <<c>> \o y)[Len(x) + 1] = c
         /\ \A i \in 1 .. Len(y) : (x \o <<c>> \o y)[Len(x) + 1 + i] = y[i]
<1> DEFINE xc == x \o <<c>>
           z == xc \o y
<1>1. <<c>> \in Seq(Bytes) /\ Len(<<c>>) = 1 /\ <<c>>[1] = c
  OBVIOUS
<1>2. /\ xc \in Seq(Bytes)
      /\ Len(xc) = Len(x) + Len(<<c>>)
      /\ \A i \in 1 .. Len(x) + Len(<<c>>) : xc[i] = IF i <= Len(x) THEN x[i] ELSE <<c>>[i - Len(x)]
  BY <1>1, ConcatProperties
<1> HIDE DEF xc
<1>3. /\ Len(xc) = Len(x) + 1
      /\ \A i \in 1 .. Len(x) : xc[i] = x[i]
      /\ xc[Len(x) + 1] = c
  BY <1>1, <1>2
<1>4. /\ z \in Seq(Bytes)
      /\ Len(z) = Len(xc) + Len(y)
      /\ \A i \in 1 .. Len(xc) + Len(y) : z[i] = IF i <= Len(xc) THEN xc[i] ELSE y[i - Len(xc)]
  <2>1. xc \in Seq(Bytes)
    BY <1>2
  <2> QED
    BY <2>1, ConcatProperties
<1> HIDE DEF z
<1>5. \A i \in 1 .. Len(x) : z[i] = x[i]
  BY <1>3, <1>4
<1>6. z[Len(x) + 1] = c
  BY <1>3, <1>4
<1>7. ASSUME NEW i \in 1 .. Len(y) PROVE z[Len(x) + 1 + i] = y[i]
  <2>1. /\ Len(x) + 1 + i \in 1 .. Len(xc) + Len(y) /\ ~(Len(x) + 1 + i <= Len(xc))
        /\ (Len(x) + 1 + i) - Len(xc) = i
    BY <1>3
  <2> QED
    BY <1>4, <2>1
<1> QED
  BY <1>3, <1>4, <1>5, <1>6, <1>7 DEF z, xc

LEMMA ThreePieces ==
  ASSUME NEW x, NEW y, NEW z
  PROVE  <<x>> \o (<<y>> \o <<z>>) = <<x, y, z>>
<1> DEFINE S == {x, y, z}
           yz == <<y>> \o <<z>>
           xyz == <<x>> \o yz
<1>1. <<x>> \in Seq(S) /\ <<y>> \in Seq(S) /\ <<z>> \in Seq(S) /\ <<x, y, z>> \in Seq(S)
  OBVIOUS
<1> HIDE DEF S
<1>2. yz \in Seq(S) /\ Len(yz) = 2 /\ yz[1] = y /\ yz[2] = z
  <2>1. /\ yz \in Seq(S) /\ Len(yz) = Len(<<y>>) + Len(<<z>>)
        /\ \A i \in 1 .. Len(<<y>>) + Len(<<z>>) :
             yz[i] = IF i <= Len(<<y>>) THEN <<y>>[i] ELSE <<z>>[i - Len(<<y>>)]
    BY <1>1, ConcatProperties
  <2> HIDE DEF yz
  <2> QED
    BY <2>1
<1> HIDE DEF yz
<1>3. xyz \in Seq(S) /\ Len(xyz) = 3 /\ xyz[1] = x /\ xyz[2] = y /\ xyz[3] = z
  <2>1. /\ xyz \in Seq(S) /\ Len(xyz) = Len(<<x>>) + Len(yz)
        /\ \A i \in 1 .. Len(<<x>>) + Len(yz) :
             xyz[i] = IF i <= Len(<<x>>) THEN <<x>>[i] ELSE yz[i - Len(<<x>>)]
    BY <1>1, <1>2, ConcatProperties
  <2> HIDE DEF xyz
  <2> QED
    BY <1>2, <2>1
<1> HIDE DEF xyz
<1>4. Len(<<x, y, z>>) = 3 /\ \A i \in 1 .. 3 : xyz[i] = <<x, y, z>>[i]
  BY <1>3
<1>5. xyz = <<x, y, z>>
  BY <1>1, <1>3, <1>4, SeqEqual
<1> QED
  BY <1>5 DEF xyz, yz

LEMMA SplitThree ==
  ASSUME NEW c \in Bytes,
         NEW x \in Seq(Bytes), NEW y \in Seq(Bytes), NEW z \in Seq(Bytes),
         Len(x) > 0, Len(y) > 0, Len(z) > 0,
         \A i \in 1 .. Len(x) : x[i] # c,
         \A i \in 1 .. Len(y) : y[i] # c,
         \A i \in 1 .. Len(z) : z[i] # c
  PROVE  split(x \o <<c>> \o y \o <<c>> \o z, <<c>>) = <<x, y, z>>
<1> DEFINE xy == x \o <<c>> \o y
           src == xy \o <<c>> \o z
           a == Len(x)
           b == Len(x) + 1 + Len(y)
           n == Len(src)
<1>1. /\ xy \in Seq(Bytes) /\ Len(xy) = b
      /\ \A i \in 1 .. a : xy[i] = x[i]
      /\ xy[a + 1] = c
      /\ \A i \in 1 .. Len(y) : xy[a + 1 + i] = y[i]
  BY Joined
<1> HIDE DEF xy
<1>2. /\ src \in Seq(Bytes) /\ n = Len(xy) + 1 + Len(z)
      /\ \A i \in 1 .. Len(xy) : src[i] = xy[i]
      /\ src[Len(xy) + 1] = c
      /\ \A i \in 1 .. Len(z) : src[Len(xy) + 1 + i] = z[i]
  <2>1. xy \in Seq(Bytes)
    BY <1>1
  <2> QED
    BY <2>1, Joined
<1> HIDE DEF src
<1>3. /\ a \in Nat /\ b \in Nat /\ n \in Nat /\ a > 0 /\ b = a + 1 + Len(y) /\ n = b + 1 + Len(z)
      /\ Len(y) \in Nat /\ Len(z) \in Nat
  BY <1>1, <1>2
<1>4. \A i \in 1 .. a : src[0 + i] = x[i]
  BY <1>1, <1>2, <1>3
<1>5. src[a + 1] = c
  <2>1. a + 1 \in 1 .. Len(xy)
    BY <1>1, <1>3
  <2> QED
    BY <1>1, <1>2, <2>1
<1>6. \A i \in 1 .. Len(y) : src[(a + 1) + i] = y[i]
  <2> SUFFICES ASSUME NEW i \in 1 .. Len(y) PROVE src[(a + 1) + i] = y[i]
    OBVIOUS
  <2>1. a + 1 + i \in 1 .. Len(xy)
    BY <1>1, <1>3
  <2> QED
    BY <1>1, <1>2, <2>1
<1>7. src[b + 1] = c /\ \A i \in 1 .. Len(z) : src[(b + 1) + i] = z[i]
  BY <1>1, <1>2
<1>8. PICK f : /\ split(src, <<c>>) = f[0]
               /\ \A i \in 0 .. n + 1 :
                    f[i] = SplitFrom(f, src, <<c>>, i) /\ f[i] \in Seq(Seq(Bytes))
  BY <1>2, SplitUnfolds
<1>9. /\ 0 \in 0 .. n - 1 /\ a \in 0 + 1 .. n /\ a # n /\ Len(x) = a - 0
      /\ a + 1 \in 0 .. n - 1 /\ b \in (a + 1) + 1 .. n /\ b # n /\ Len(y) = b - (a + 1)
      /\ b + 1 \in 0 .. n - 1 /\ n \in (b + 1) + 1 .. n /\ Len(z) = n - (b + 1)
      /\ 0 \in 0 .. n + 1 /\ a + 1 \in 0 .. n + 1 /\ b + 1 \in 0 .. n + 1
  BY <1>3
<1>10. \A i \in 1 .. Len(x) : src[0 + i] = x[i]
  BY <1>4
<1> HIDE DEF a, b
<1>11. f[0] = <<x>> \o f[a + 1]
  <2>1. SplitFrom(f, src, <<c>>, 0) = IF a = n THEN <<x>> ELSE <<x>> \o f[a + 1]
    <3>1. PieceAt(src, c, 0, a, x)
      BY <1>2, <1>5, <1>9, <1>10 DEF PieceAt, n
    <3>2. SplitFrom(f, src, <<c>>, 0) = IF a = Len(src) THEN <<x>> ELSE Cons(x, f[a + 1])
      BY <3>1, PieceSplitOff
    <3> QED
      BY <3>2 DEF n, Cons
  <2> QED
    BY <1>8, <1>9, <2>1
<1>12. f[a + 1] = <<y>> \o f[b + 1]
  <2>1. SplitFrom(f, src, <<c>>, a + 1) = IF b = n THEN <<y>> ELSE <<y>> \o f[b + 1]
    <3>1. PieceAt(src, c, a + 1, b, y)
      BY <1>2, <1>6, <1>7, <1>9 DEF PieceAt, n
    <3>2. SplitFrom(f, src, <<c>>, a + 1) = IF b = Len(src) THEN <<y>> ELSE Cons(y, f[b + 1])
      BY <3>1, PieceSplitOff
    <3> QED
      BY <3>2 DEF n, Cons
  <2> QED
    BY <1>8, <1>9, <2>1
<1>13. f[b + 1] = <<z>>
  <2>1. SplitFrom(f, src, <<c>>, b + 1) = <<z>>
    <3>1. PieceAt(src, c, b + 1, n, z)
      BY <1>2, <1>7, <1>9 DEF PieceAt, n
    <3> QED
      BY <3>1, PieceSplitOff DEF n
  <2> QED
    BY <1>8, <1>9, <2>1
<1>14. <<x>> \o (<<y>> \o <<z>>) = <<x, y, z>>
  BY ThreePieces
<1> QED
  BY <1>8, <1>11, <1>12, <1>13, <1>14 DEF src, xy

(* A pair of texts, of which the first holds no equals sign.               *)
LEMMA PairIs ==
  ASSUME NEW x \in Seq(Bytes), NEW y \in Seq(Bytes),
         \A i \in 1 .. Len(x) : x[i] # Equals
  PROVE  /\ find(x \o <<Equals>> \o y, <<Equals>>, 0) = Len(x)
         /\ SubSeq(x \o <<Equals>> \o y, 1, Len(x)) = x
         /\ SubSeq(x \o <<Equals>> \o y, Len(x) + 2, Len(x \o <<Equals>> \o y)) = y
<1> DEFINE z == x \o <<Equals>> \o y
           pos == find(z, <<Equals>>, 0)
<1>1. /\ z \in Seq(Bytes) /\ Len(z) = Len(x) + 1 + Len(y)
      /\ \A i \in 1 .. Len(x) : z[i] = x[i]
      /\ z[Len(x) + 1] = Equals
      /\ \A i \in 1 .. Len(y) : z[Len(x) + 1 + i] = y[i]
  <2>1. Equals \in Bytes
    BY DEF Equals, Bytes
  <2> QED
    BY <2>1, Joined
<1> HIDE DEF z
<1>2. Len(x) \in Nat /\ Len(y) \in Nat /\ Len(z) \in Nat
  BY <1>1
<1>3. pos = Len(x)
  <2>1. \/ pos = npos /\ \A i \in 0 + 1 .. Len(z) : z[i] # Equals
        \/ pos \in 0 .. Len(z) - 1 /\ z[pos + 1] = Equals /\ \A i \in 0 + 1 .. pos : z[i] # Equals
    <3>1. z \in Seq(Bytes) /\ 0 \in Nat
      BY <1>1
    <3> QED
      BY <3>1, FindIs
  <2> HIDE DEF pos
  <2>2. Len(x) + 1 \in 0 + 1 .. Len(z)
    BY <1>1, <1>2
  <2>3. pos \in 0 .. Len(z) - 1 /\ z[pos + 1] = Equals /\ \A i \in 0 + 1 .. pos : z[i] # Equals
    BY <1>1, <2>1, <2>2
  <2>4. ~(pos < Len(x))
    <3>1. ASSUME pos < Len(x) PROVE FALSE
      <4>1. pos + 1 \in 1 .. Len(x)
        BY <1>2, <2>3, <3>1
      <4> QED
        BY <1>1, <2>3, <4>1
    <3> QED
      BY <3>1
  <2>5. ~(Len(x) < pos)
    <3>1. ASSUME Len(x) < pos PROVE FALSE
      <4>1. Len(x) + 1 \in 0 + 1 .. pos
        BY <1>2, <2>3, <3>1
      <4> QED
        BY <1>1, <2>3, <4>1
    <3> QED
      BY <3>1
  <2> QED
    BY <1>2, <2>3, <2>4, <2>5
<1>4. SubSeq(z, 1, Len(x)) = x
  <2>1. \A i \in 1 .. Len(x) : z[0 + i] = x[i]
    BY <1>1
  <2>2. SubSeq(z, 0 + 1, Len(x)) = x
    <3>1. 0 \in Nat /\ 0 <= Len(x) /\ Len(x) = Len(x) - 0
      BY <1>2
    <3> QED
      BY <1>1, <1>2, <2>1, <3>1, SubSeqIs
  <2> QED
    BY <2>2
<1>5. SubSeq(z, Len(x) + 2, Len(z)) = y
  <2>1. SubSeq(z, (Len(x) + 1) + 1, Len(z)) = y
    <3>1. Len(x) + 1 \in Nat /\ Len(x) + 1 <= Len(z) /\ Len(y) = Len(z) - (Len(x) + 1)
      BY <1>1, <1>2
    <3> QED
      BY <1>1, <1>2, <3>1, SubSeqIs
  <2>2. (Len(x) + 1) + 1 = Len(x) + 2
    BY <1>2
  <2> QED
    BY <2>1, <2>2
<1> QED
  BY <1>3, <1>4, <1>5 DEF z

(* What was encoded holds nothing that takes a query apart.                *)
LEMMA CodeIsOnePiece ==
  ASSUME NEW a \in Seq(Bytes)
  PROVE  /\ UrlEnCode(a, TRUE) \in Seq(Bytes)
         /\ \A i \in 1 .. Len(UrlEnCode(a, TRUE)) :
              UrlEnCode(a, TRUE)[i] # Equals /\ UrlEnCode(a, TRUE)[i] # Ampersand
         /\ UrlDecode(UrlEnCode(a, TRUE), TRUE) = a
<1> DEFINE code == UrlEnCode(a, TRUE)
<1>1. code \in Seq(Allowed(TRUE)) /\ code \in Seq(Bytes) /\ UrlDecode(code, TRUE) = a
  BY CodingRoundTrip
<1>2. Equals \notin Allowed(TRUE) /\ Ampersand \notin Allowed(TRUE)
  BY DEF Allowed, Unreserved, Alphanumeric, Equals, Ampersand, Percent, Plus, Hyphen, Underscore,
         Tilde, Dot
<1> HIDE DEF code
<1>3. \A i \in 1 .. Len(code) : code[i] \in Allowed(TRUE)
  BY <1>1, ElementOfSeq
<1> QED
  BY <1>1, <1>2, <1>3 DEF code

Pair(a, b) == UrlEnCode(a, TRUE) \o <<Equals>> \o UrlEnCode(b, TRUE)

LEMMA PairOfCodes ==
  ASSUME NEW a \in Seq(Bytes), NEW b \in Seq(Bytes)
  PROVE  /\ Pair(a, b) \in Seq(Bytes) /\ Len(Pair(a, b)) > 0
         /\ \A i \in 1 .. Len(Pair(a, b)) : Pair(a, b)[i] # Ampersand
         /\ find(Pair(a, b), <<Equals>>, 0) # npos
         /\ UrlDecode(SubSeq(Pair(a, b), 1, find(Pair(a, b), <<Equals>>, 0)), TRUE) = a
         /\ UrlDecode(SubSeq(Pair(a, b), find(Pair(a, b), <<Equals>>, 0) + 2, Len(Pair(a, b))), TRUE) = b
<1> DEFINE x == UrlEnCode(a, TRUE)
           y == UrlEnCode(b, TRUE)
           z == x \o <<Equals>> \o y
<1>1. /\ x \in Seq(Bytes) /\ y \in Seq(Bytes)
      /\ \A i \in 1 .. Len(x) : x[i] # Equals /\ x[i] # Ampersand
      /\ \A i \in 1 .. Len(y) : y[i] # Equals /\ y[i] # Ampersand
      /\ UrlDecode(x, TRUE) = a /\ UrlDecode(y, TRUE) = b
  BY CodeIsOnePiece
<1> HIDE DEF x, y
<1>2. /\ z \in Seq(Bytes) /\ Len(z) = Len(x) + 1 + Len(y)
      /\ \A i \in 1 .. Len(x) : z[i] = x[i]
      /\ z[Len(x) + 1] = Equals
      /\ \A i \in 1 .. Len(y) : z[Len(x) + 1 + i] = y[i]
  <2>1. Equals \in Bytes
    BY DEF Equals, Bytes
  <2> QED
    BY <1>1, <2>1, Joined
<1>3. /\ find(z, <<Equals>>, 0) = Len(x)
      /\ SubSeq(z, 1, Len(x)) = x
      /\ SubSeq(z, Len(x) + 2, Len(z)) = y
  BY <1>1, PairIs
<1> HIDE DEF z
<1>4. Len(x) \in Nat /\ Len(y) \in Nat
  BY <1>1
<1>5. ASSUME NEW i \in 1 .. Len(z) PROVE z[i] # Ampersand
  <2>1. CASE i <= Len(x)
    <3>1. i \in 1 .. Len(x)
      BY <1>4, <2>1
    <3> QED
      BY <1>1, <1>2, <3>1
  <2>2. CASE i = Len(x) + 1
    <3>1. Equals # Ampersand
      BY DEF Equals, Ampersand
    <3> QED
      BY <1>2, <2>2, <3>1
  <2>3. CASE i > Len(x) + 1
    <3>1. i - (Len(x) + 1) \in 1 .. Len(y) /\ Len(x) + 1 + (i - (Len(x) + 1)) = i
      BY <1>2, <1>4, <2>3
    <3> QED
      BY <1>1, <1>2, <3>1
  <2> QED
    BY <1>4, <2>1, <2>2, <2>3
<1>6. Pair(a, b) = z
  BY DEF Pair, x, y, z
<1>7. Len(x) # npos /\ Len(z) > 0
  BY <1>2, <1>4 DEF npos
<1> QED
  BY <1>1, <1>2, <1>3, <1>5, <1>6, <1>7

LEMMA QueryRead ==
  ASSUME NEW k \in Seq(Bytes), NEW v \in Seq(Bytes), NEW t \in Seq(Bytes)
  PROVE  Params(Pair(k, v) \o <<Ampersand>> \o Pair(v, k) \o <<Ampersand>> \o Pair(k, t))
           = [sound |-> TRUE, params |-> {<<k, v>>, <<v, k>>}]
<1> DEFINE p1 == Pair(k, v)
           p2 == Pair(v, k)
           p3 == Pair(k, t)
           query == p1 \o <<Ampersand>> \o p2 \o <<Ampersand>> \o p3
           w == <<p1, p2, p3>>
           key(i) == UrlDecode(SubSeq(w[i], 1, find(w[i], <<Equals>>, 0)), TRUE)
           val(i) == UrlDecode(SubSeq(w[i], find(w[i], <<Equals>>, 0) + 2, Len(w[i])), TRUE)
           first == {i \in 1 .. 3 : \A j \in 1 .. i - 1 : key(j) # key(i)}
<1>1. split(query, <<Ampersand>>) = w
  <2>1. Ampersand \in Bytes
    BY DEF Ampersand, Bytes
  <2>2. /\ p1 \in Seq(Bytes) /\ p2 \in Seq(Bytes) /\ p3 \in Seq(Bytes)
        /\ Len(p1) > 0 /\ Len(p2) > 0 /\ Len(p3) > 0
        /\ \A i \in 1 .. Len(p1) : p1[i] # Ampersand
        /\ \A i \in 1 .. Len(p2) : p2[i] # Ampersand
        /\ \A i \in 1 .. Len(p3) : p3[i] # Ampersand
    BY PairOfCodes
  <2> HIDE DEF p1, p2, p3
  <2> QED
    BY <2>1, <2>2, SplitThree
<1>2. /\ find(p1, <<Equals>>, 0) # npos /\ find(p2, <<Equals>>, 0) # npos /\ find(p3, <<Equals>>, 0) # npos
      /\ UrlDecode(SubSeq(p1, 1, find(p1, <<Equals>>, 0)), TRUE) = k
      /\ UrlDecode(SubSeq(p2, 1, find(p2, <<Equals>>, 0)), TRUE) = v
      /\ UrlDecode(SubSeq(p3, 1, find(p3, <<Equals>>, 0)), TRUE) = k
      /\ UrlDecode(SubSeq(p1, find(p1, <<Equals>>, 0) + 2, Len(p1)), TRUE) = v
      /\ UrlDecode(SubSeq(p2, find(p2, <<Equals>>, 0) + 2, Len(p2)), TRUE) = k
  BY PairOfCodes
<1> HIDE DEF p1, p2, p3
<1>3. Len(w) = 3 /\ w[1] = p1 /\ w[2] = p2 /\ w[3] = p3
  OBVIOUS
<1> HIDE DEF query, w
<1>4. ~\E i \in 1 .. 3 : find(w[i], <<Equals>>, 0) = npos
  BY <1>2, <1>3
<1>5. Params(query) = [sound |-> TRUE, params |-> {<<key(i), val(i)>> : i \in first}]
  BY <1>1, <1>3, <1>4 DEF Params
<1>6. key(1) = k /\ key(2) = v /\ key(3) = k /\ val(1) = v /\ val(2) = k
  BY <1>2, <1>3
<1> HIDE DEF key, val
<1>7. 1 \in first /\ 3 \notin first /\ (2 \in first <=> k # v)
  BY <1>6
<1>8. first = IF k = v THEN {1} ELSE {1, 2}
  <2>1. first \subseteq {1, 2, 3}
    OBVIOUS
  <2> HIDE DEF first
  <2> QED
    BY <1>7, <2>1
<1> HIDE DEF first
<1>9. {<<key(i), val(i)>> : i \in first} = {<<k, v>>, <<v, k>>}
  <2>1. CASE k = v
    BY <1>6, <1>8, <2>1
  <2>2. CASE k # v
    BY <1>6, <1>8, <2>2
  <2> QED
    BY <2>1, <2>2
<1> QED
  BY <1>5, <1>9 DEF query, p1, p2, p3

(* A query that was put together from encoded keys and values is taken     *)
(* apart into the same keys and values, whatever characters they hold, and *)
(* the first value of a key that comes twice is the one that stays.        *)
THEOREM ParamsAreRecovered == Spec => []ParamsRecovered
<1>1. TextInv => ParamsRecovered
  <2> SUFFICES ASSUME TextInv, NEW n \in 0 .. Len(target)
               PROVE  LET k == SubSeq(target, 1, n)
                          v == SubSeq(target, n + 1, Len(target))
                      IN  Params(Pair(k, v) \o <<Ampersand>> \o Pair(v, k) \o <<Ampersand>> \o Pair(k, target))
                            = [sound |-> TRUE, params |-> {<<k, v>>, <<v, k>>}]
    BY DEF ParamsRecovered, Pair
  <2>1. target \in Seq(Bytes) /\ \A i \in 1 .. Len(target) : target[i] \in Bytes
    BY DEF TextInv
  <2>2. SubSeq(target, 1, n) \in Seq(Bytes)
    <3>1. 1 \in Int /\ n \in Int /\ \A i \in 1 .. n : target[i] \in Bytes
      BY <2>1
    <3> QED
      BY <3>1, SubSeqProperties
  <2>3. SubSeq(target, n + 1, Len(target)) \in Seq(Bytes)
    <3>1. n + 1 \in Int /\ Len(target) \in Int /\ \A i \in n + 1 .. Len(target) : target[i] \in Bytes
      BY <2>1
    <3> QED
      BY <3>1, SubSeqProperties
  <2> QED
    BY <2>1, <2>2, <2>3, QueryRead
<1> QED
  BY <1>1, TextCorrect, PTL

-----------------------------------------------------------------------------
(* Texts within texts, and what split makes of them.                       *)
NextAt(src, c, from, pos) ==
  /\ src \in Seq(Bytes)
  /\ from \in Nat /\ pos \in from .. Len(src) - 1
  /\ src[pos + 1] = c
  /\ \A i \in from + 1 .. pos : src[i] # c

LEMMA FoundAt ==
  ASSUME NEW src, NEW c, NEW from, NEW pos, NextAt(src, c, from, pos)
  PROVE  find(src, <<c>>, from) = pos
<1> USE DEF NextAt
<1> DEFINE at == find(src, <<c>>, from)
<1>1. \/ at = npos /\ \A i \in from + 1 .. Len(src) : src[i] # c
      \/ at \in from .. Len(src) - 1 /\ src[at + 1] = c /\ \A i \in from + 1 .. at : src[i] # c
  BY FindIs
<1> HIDE DEF at
<1>2. pos + 1 \in from + 1 .. Len(src)
  OBVIOUS
<1>3. at \in from .. Len(src) - 1 /\ src[at + 1] = c /\ \A i \in from + 1 .. at : src[i] # c
  BY <1>1, <1>2
<1>4. ~(at < pos)
  <2>1. ASSUME at < pos PROVE FALSE
    <3>1. at + 1 \in from + 1 .. pos
      BY <1>3, <2>1
    <3> QED
      BY <1>3, <3>1
  <2> QED
    BY <2>1
<1>5. ~(pos < at)
  <2>1. ASSUME pos < at PROVE FALSE
    <3>1. pos + 1 \in from + 1 .. at
      BY <1>3, <2>1
    <3> QED
      BY <1>3, <3>1
  <2> QED
    BY <2>1
<1>6. at = pos
  BY <1>3, <1>4, <1>5
<1> QED
  BY <1>6 DEF at

LEMMA NotFound ==
  ASSUME NEW src \in Seq(Bytes), NEW c, NEW from \in Nat,
         \A i \in from + 1 .. Len(src) : src[i] # c
  PROVE  find(src, <<c>>, from) = npos
<1> DEFINE at == find(src, <<c>>, from)
<1>1. \/ at = npos
      \/ at \in from .. Len(src) - 1 /\ src[at + 1] = c
  BY FindIs
<1> HIDE DEF at
<1>2. ASSUME at \in from .. Len(src) - 1, src[at + 1] = c PROVE FALSE
  <2>1. at + 1 \in from + 1 .. Len(src)
    BY <1>2
  <2> QED
    BY <1>2, <2>1
<1> QED
  BY <1>1, <1>2 DEF at

Embeds(src, k, b) ==
  /\ src \in Seq(Bytes) /\ b \in Seq(Bytes) /\ k \in Nat
  /\ k + Len(b) <= Len(src)
  /\ \A i \in 1 .. Len(b) : src[k + i] = b[i]

Stretch(b, o, p) == o \in Nat /\ p \in Nat /\ o <= p /\ p <= Len(b)

SameStretch(src, k, b, o, p) == SubSeq(src, k + o + 1, k + p) = SubSeq(b, o + 1, p)

LEMMA SubSeqWithin ==
  ASSUME NEW src, NEW k, NEW b, Embeds(src, k, b),
         NEW o, NEW p, Stretch(b, o, p)
  PROVE  SameStretch(src, k, b, o, p)
<1> DEFINE t == SubSeq(b, o + 1, p)
<1> USE DEF Embeds, Stretch
<1>0. Len(b) \in Nat /\ k \in Nat /\ k + o \in Nat /\ k + p \in Nat /\ k + o <= k + p
  OBVIOUS
<1>1. \A i \in o + 1 .. p : b[i] \in Bytes
  BY <1>0
<1>2. /\ t \in Seq(Bytes)
      /\ Len(t) = IF o + 1 <= p THEN p - (o + 1) + 1 ELSE 0
      /\ \A i \in 1 .. p - (o + 1) + 1 : t[i] = b[(o + 1) + i - 1]
  BY <1>0, <1>1, SubSeqProperties
<1> HIDE DEF t
<1>3. Len(t) = (k + p) - (k + o) /\ Len(t) = p - (o + 1) + 1
  BY <1>0, <1>2
<1>4. \A i \in 1 .. Len(t) : src[(k + o) + i] = t[i]
  <2> SUFFICES ASSUME NEW i \in 1 .. Len(t) PROVE src[(k + o) + i] = t[i]
    OBVIOUS
  <2>1. o + i \in 1 .. Len(b) /\ (o + 1) + i - 1 = o + i /\ (k + o) + i = k + (o + i)
    BY <1>0, <1>3
  <2> QED
    BY <1>2, <1>3, <2>1
<1>5. SubSeq(src, (k + o) + 1, k + p) = t
  BY <1>0, <1>2, <1>3, <1>4, SubSeqIs
<1> QED
  BY <1>5 DEF t, SameStretch

FindsAlike(src, k, b, c, o) ==
  /\ find(b, <<c>>, o) # npos =>
       /\ find(b, <<c>>, o) \in o .. Len(b) - 1
       /\ find(src, <<c>>, k + o) = k + find(b, <<c>>, o)
  /\ find(b, <<c>>, o) = npos =>
       /\ k + Len(b) = Len(src) => find(src, <<c>>, k + o) = npos
       /\ k + Len(b) < Len(src) /\ src[k + Len(b) + 1] = c =>
            find(src, <<c>>, k + o) = k + Len(b)

LEMMA FindWithin ==
  ASSUME NEW src, NEW k, NEW b, Embeds(src, k, b), NEW c, NEW o \in 0 .. Len(b)
  PROVE  FindsAlike(src, k, b, c, o)
<1> USE DEF FindsAlike
<1> DEFINE pos == find(b, <<c>>, o)
<1> USE DEF Embeds
<1>0. Len(b) \in Nat /\ Len(src) \in Nat /\ k \in Nat /\ o \in Nat /\ k + o \in Nat
  OBVIOUS
<1>1. \/ pos = npos /\ \A i \in o + 1 .. Len(b) : b[i] # c
      \/ pos \in o .. Len(b) - 1 /\ b[pos + 1] = c /\ \A i \in o + 1 .. pos : b[i] # c
  BY <1>0, FindIs
<1> HIDE DEF pos
<1>2. ASSUME NEW p \in o .. Len(b), \A i \in o + 1 .. p : b[i] # c
      PROVE  \A i \in (k + o) + 1 .. k + p : src[i] # c
  <2> SUFFICES ASSUME NEW i \in (k + o) + 1 .. k + p PROVE src[i] # c
    OBVIOUS
  <2>1. i - k \in o + 1 .. p /\ i - k \in 1 .. Len(b) /\ k + (i - k) = i
    BY <1>0
  <2> QED
    BY <1>2, <2>1
<1>3. CASE pos # npos
  <2>1. pos \in o .. Len(b) - 1 /\ b[pos + 1] = c /\ \A i \in o + 1 .. pos : b[i] # c
    BY <1>1, <1>3
  <2>2. /\ k + pos \in k + o .. Len(src) - 1
        /\ pos + 1 \in 1 .. Len(b) /\ k + (pos + 1) = (k + pos) + 1 /\ pos \in o .. Len(b)
    BY <1>0, <2>1
  <2>3. src[(k + pos) + 1] = c
    BY <2>1, <2>2
  <2>4. \A i \in (k + o) + 1 .. k + pos : src[i] # c
    BY <1>2, <2>1, <2>2
  <2>5. find(src, <<c>>, k + o) = k + pos
    <3>1. NextAt(src, c, k + o, k + pos)
      BY <1>0, <2>2, <2>3, <2>4 DEF NextAt
    <3> QED
      BY <3>1, FoundAt
  <2> QED
    BY <1>3, <2>1, <2>5 DEF pos
<1>4. CASE pos = npos
  <2>1. \A i \in o + 1 .. Len(b) : b[i] # c
    <3>1. npos \notin o .. Len(b) - 1
      BY <1>0 DEF npos
    <3> QED
      BY <1>1, <1>4, <3>1
  <2>2. \A i \in (k + o) + 1 .. k + Len(b) : src[i] # c
    <3>1. Len(b) \in o .. Len(b)
      BY <1>0
    <3> QED
      BY <1>2, <2>1, <3>1
  <2>3. k + Len(b) = Len(src) => find(src, <<c>>, k + o) = npos
    BY <1>0, <2>2, NotFound
  <2>4. ASSUME k + Len(b) < Len(src), src[k + Len(b) + 1] = c
        PROVE  find(src, <<c>>, k + o) = k + Len(b)
    <3>1. k + Len(b) \in k + o .. Len(src) - 1
      BY <1>0, <2>4
    <3>2. NextAt(src, c, k + o, k + Len(b))
      BY <1>0, <2>2, <2>4, <3>1 DEF NextAt
    <3> QED
      BY <3>2, FoundAt
  <2> QED
    BY <1>4, <2>3, <2>4 DEF pos
<1> QED
  BY <1>3, <1>4

Associates(x, y, z) == <<x>> \o (y \o z) = (<<x>> \o y) \o z

LEMMA PrefixOfConcat ==
  ASSUME NEW S, NEW x, x \in S, NEW y, y \in Seq(S), NEW z, z \in Seq(S)
  PROVE  Associates(x, y, z)
<1> DEFINE w == <<x>>
<1>1. w \in Seq(S)
  OBVIOUS
<1> HIDE DEF w
<1>2. (w \o y) \o z = w \o (y \o z)
  BY <1>1, ConcatAssociative
<1> QED
  BY <1>2 DEF w, Associates

(* A separator separates: what is before it and what is behind it are      *)
(* split one by one.                                                       *)
LEMMA SplitConcat ==
  ASSUME NEW a \in Seq(Bytes), NEW c \in Bytes, NEW b \in Seq(Bytes)
  PROVE  split(a \o <<c>> \o b, <<c>>) = split(a, <<c>>) \o split(b, <<c>>)
<1> DEFINE src == a \o <<c>> \o b
           S == Seq(Bytes)
           m == Len(a)
           n == Len(src)
<1>1. /\ src \in Seq(Bytes) /\ n = m + 1 + Len(b)
      /\ \A i \in 1 .. m : src[i] = a[i]
      /\ src[m + 1] = c
      /\ \A i \in 1 .. Len(b) : src[m + 1 + i] = b[i]
  BY Joined
<1> HIDE DEF src
<1>2. m \in Nat /\ Len(b) \in Nat /\ n \in Nat /\ n = m + 1 + Len(b) /\ Len(<<c>>) = 1
  BY <1>1
<1>k. PICK k \in Nat : k = m + 1
  BY <1>2
<1>n. n = k + Len(b) /\ k <= Len(src)
  BY <1>2, <1>k
<1>3. Embeds(src, k, b)
  BY <1>1, <1>2, <1>k DEF Embeds
<1>z. PICK z \in Nat : z = 0
  OBVIOUS
<1>4. Embeds(src, z, a)
  <2>1. \A i \in 1 .. m : src[z + i] = a[i]
    BY <1>1, <1>2, <1>z
  <2> QED
    BY <1>1, <1>2, <1>z, <2>1 DEF Embeds
<1>5. PICK f : /\ split(src, <<c>>) = f[0]
               /\ \A i \in 0 .. Len(src) + 1 :
                    f[i] = SplitFrom(f, src, <<c>>, i) /\ f[i] \in Seq(S)
  BY <1>1, SplitUnfolds
<1>6. PICK g : /\ split(a, <<c>>) = g[0]
               /\ \A i \in 0 .. Len(a) + 1 :
                    g[i] = SplitFrom(g, a, <<c>>, i) /\ g[i] \in Seq(S)
  BY SplitUnfolds
<1>7. PICK h : /\ split(b, <<c>>) = h[0]
               /\ \A i \in 0 .. Len(b) + 1 :
                    h[i] = SplitFrom(h, b, <<c>>, i) /\ h[i] \in Seq(S)
  BY SplitUnfolds
<1> HIDE DEF S
<1> DEFINE Behind(o) == f[k + o] = h[o]
           FailingB == {o \in 0 .. Len(b) + 1 : ~Behind(o)}
<1>8. FailingB = {}
  <2> SUFFICES ASSUME FailingB # {} PROVE FALSE
    OBVIOUS
  <2>1. PICK o \in FailingB : \A j \in FailingB : j <= o
    <3>1. FailingB \in SUBSET (0 .. Len(b) + 1) /\ 0 \in Int /\ Len(b) + 1 \in Int
      BY <1>n, <1>2
    <3> HIDE DEF FailingB
    <3> QED
      BY <3>1, LastExists
  <2>2. o \in 0 .. Len(b) + 1 /\ ~Behind(o)
    OBVIOUS
  <2>3. k + o \in 0 .. Len(src) + 1
    BY <1>n, <1>2, <2>2
  <2>4. /\ f[k + o] = SplitFrom(f, src, <<c>>, k + o)
        /\ h[o] = SplitFrom(h, b, <<c>>, o)
    BY <1>5, <1>7, <2>2, <2>3
  <2>5. CASE o >= Len(b)
    <3>1. k + o >= Len(src)
      BY <1>n, <1>2, <2>2, <2>5
    <3>2. f[k + o] = <<>> /\ h[o] = <<>>
      BY <2>4, <2>5, <3>1 DEF SplitFrom
    <3> QED
      BY <2>2, <3>2
  <2>6. CASE ~(o >= Len(b))
    <3> DEFINE pos == find(b, <<c>>, o)
    <3>1. o \in 0 .. Len(b) /\ o \in Nat /\ ~(k + o >= Len(src))
      BY <1>n, <1>2, <2>2, <2>6
    <3>3. FindsAlike(src, k, b, c, o)
      BY <1>3, <3>1, FindWithin
    <3>2. CASE pos = npos
      <4>1. find(src, <<c>>, k + o) = npos
        BY <1>n, <3>2, <3>3 DEF FindsAlike
      <4>2. SubSeq(src, k + o + 1, k + Len(b)) = SubSeq(b, o + 1, Len(b))
        <5>1. Stretch(b, o, Len(b))
          BY <1>2, <3>1 DEF Stretch
        <5>2. SameStretch(src, k, b, o, Len(b))
          BY <1>3, <5>1, SubSeqWithin
        <5> QED
          BY <5>2 DEF SameStretch
      <4>3. f[k + o] = <<SubSeq(src, k + o + 1, Len(src))>>
        BY <2>4, <3>1, <4>1 DEF SplitFrom
      <4>4. h[o] = <<SubSeq(b, o + 1, Len(b))>>
        BY <2>4, <2>6, <3>2 DEF SplitFrom
      <4>5. f[k + o] = h[o]
        BY <1>n, <1>2, <4>2, <4>3, <4>4
      <4> QED
        BY <2>2, <4>5
    <3>4. CASE pos # npos
      <4> HIDE DEF pos
      <4>1. pos \in o .. Len(b) - 1 /\ find(src, <<c>>, k + o) = k + pos
        <5>1. o \in 0 .. Len(b) /\ find(b, <<c>>, o) # npos
          BY <3>1, <3>4 DEF pos
        <5>2. find(b, <<c>>, o) \in o .. Len(b) - 1 /\ find(src, <<c>>, k + o) = k + find(b, <<c>>, o)
          BY <3>3, <5>1 DEF FindsAlike
        <5> QED
          BY <5>2 DEF pos
      <4>2. pos + 1 \in 0 .. Len(b) + 1 /\ ~(pos + 1 <= o)
        BY <1>n, <1>2, <3>1, <4>1
      <4>3. f[k + (pos + 1)] = h[pos + 1]
        <5>1. pos + 1 \notin FailingB
          BY <2>1, <4>2
        <5>2. Behind(pos + 1)
          BY <4>2, <5>1
        <5> QED
          BY <5>2
      <4>4. k + (pos + 1) = k + pos + 1 /\ k + pos # npos /\ (k + pos = k + o <=> pos = o)
        BY <1>n, <1>2, <3>1, <4>1 DEF npos
      <4>5. SubSeq(src, k + o + 1, k + pos) = SubSeq(b, o + 1, pos)
        <5>1. Stretch(b, o, pos)
          BY <1>2, <3>1, <4>1 DEF Stretch
        <5>2. SameStretch(src, k, b, o, pos)
          BY <1>3, <5>1, SubSeqWithin
        <5> QED
          BY <5>2 DEF SameStretch
      <4>6. f[k + o] = IF pos = o THEN f[k + pos + 1]
                           ELSE <<SubSeq(src, k + o + 1, k + pos)>> \o f[k + pos + 1]
        BY <1>n, <1>2, <2>4, <3>1, <4>1, <4>4 DEF SplitFrom
      <4>7. h[o] = IF pos = o THEN h[pos + 1] ELSE <<SubSeq(b, o + 1, pos)>> \o h[pos + 1]
        BY <1>n, <1>2, <2>4, <2>6, <3>4 DEF SplitFrom, pos
      <4>8. f[k + o] = h[o]
        <5>1. CASE pos = o
          BY <4>3, <4>4, <4>6, <4>7, <5>1
        <5>2. CASE pos # o
          <6>1. f[k + o] = <<SubSeq(src, k + o + 1, k + pos)>> \o f[k + pos + 1]
            BY <4>6, <5>2
          <6>2. h[o] = <<SubSeq(b, o + 1, pos)>> \o h[pos + 1]
            BY <4>7, <5>2
          <6>3. f[k + pos + 1] = h[pos + 1]
            BY <4>3, <4>4
          <6> QED
            BY <4>5, <6>1, <6>2, <6>3
        <5> QED
          BY <5>1, <5>2
      <4> QED
        BY <2>2, <4>8
    <3> QED
      BY <3>2, <3>4
  <2> QED
    BY <2>5, <2>6
<1>9. f[m + 1] = h[0]
  <2>1. 0 \in 0 .. Len(b) + 1 /\ k + 0 = m + 1
    BY <1>2, <1>k
  <2>2. Behind(0)
    BY <1>8, <2>1
  <2> QED
    BY <2>1, <2>2
<1> DEFINE Before(o) == f[o] = g[o] \o f[m + 1]
           FailingA == {o \in 0 .. m : ~Before(o)}
<1>10. f[m + 1] \in Seq(S)
  BY <1>2, <1>5
<1>11. FailingA = {}
  <2> SUFFICES ASSUME FailingA # {} PROVE FALSE
    OBVIOUS
  <2>1. PICK o \in FailingA : \A j \in FailingA : j <= o
    <3> HIDE DEF Before, m
    <3>1. FailingA \in SUBSET (0 .. m) /\ 0 \in Int /\ m \in Int
      BY <1>2
    <3> HIDE DEF FailingA
    <3> QED
      BY <3>1, LastExists
  <2>2. o \in 0 .. m /\ ~Before(o)
    OBVIOUS
  <2>3. /\ f[o] = SplitFrom(f, src, <<c>>, o) /\ ~(o >= Len(src))
        /\ g[o] = SplitFrom(g, a, <<c>>, o)
    BY <1>2, <1>5, <1>6, <2>2
  <2> DEFINE pos == find(a, <<c>>, o)
  <2>4. /\ pos # npos => pos \in o .. m - 1 /\ find(src, <<c>>, o) = pos
        /\ pos = npos => find(src, <<c>>, o) = m
    <3>1. /\ pos # npos => pos \in o .. m - 1 /\ find(src, <<c>>, z + o) = z + pos
          /\ pos = npos => find(src, <<c>>, z + o) = z + m
      <4>1. z + m < Len(src) /\ src[z + m + 1] = c
        BY <1>1, <1>2, <1>z
      <4> QED
        BY <1>4, <2>2, <4>1, FindWithin DEF FindsAlike
    <3>2. z + o = o /\ z + m = m
      BY <1>2, <1>z, <2>2
    <3>3. pos # npos => z + pos = pos
      BY <1>z, <3>1
    <3> QED
      BY <3>1, <3>2, <3>3
  <2>5. \A p \in o .. m : SubSeq(src, o + 1, p) = SubSeq(a, o + 1, p)
    <3> SUFFICES ASSUME NEW p \in o .. m PROVE SubSeq(src, o + 1, p) = SubSeq(a, o + 1, p)
      OBVIOUS
    <3>1. Stretch(a, o, p)
      BY <1>2, <2>2 DEF Stretch
    <3>2. SameStretch(src, z, a, o, p)
      BY <1>4, <3>1, SubSeqWithin
    <3>3. z + o + 1 = o + 1 /\ z + p = p
      BY <1>z, <3>1 DEF Stretch
    <3> QED
      BY <3>2, <3>3 DEF SameStretch
  <2>6. CASE o = m
    <3>1. pos = npos
      BY <1>2, <2>4, <2>6
    <3>2. f[o] = f[m + 1] /\ g[o] = <<>>
      <4>1. m # npos /\ o >= Len(a)
        BY <1>2, <2>6 DEF npos
      <4> QED
        BY <1>2, <2>3, <2>4, <2>6, <3>1, <4>1 DEF SplitFrom
    <3> QED
      BY <1>10, <2>2, <3>2, ConcatEmptySeq
  <2>7. CASE o # m /\ pos = npos
    <3>1. m # npos /\ ~(o >= Len(a)) /\ m \in o .. m /\ m # o
      BY <1>2, <2>2, <2>7 DEF npos
    <3>2. f[o] = <<SubSeq(src, o + 1, m)>> \o f[m + 1]
      BY <1>2, <2>3, <2>4, <2>7, <3>1 DEF SplitFrom
    <3>3. g[o] = <<SubSeq(a, o + 1, m)>>
      BY <2>3, <2>7, <3>1 DEF SplitFrom
    <3> QED
      BY <2>2, <2>5, <3>1, <3>2, <3>3
  <2>8. CASE o # m /\ pos # npos
    <3> HIDE DEF pos
    <3>1. pos \in o .. m - 1 /\ find(src, <<c>>, o) = pos /\ find(a, <<c>>, o) = pos
      BY <2>4, <2>8 DEF pos
    <3>2. ~(o >= Len(a)) /\ pos \in o .. m /\ pos + 1 \in 0 .. m /\ ~(pos + 1 <= o)
      BY <1>2, <2>2, <2>8, <3>1
    <3>3. f[pos + 1] = g[pos + 1] \o f[m + 1]
      <4>1. pos + 1 \notin FailingA
        BY <2>1, <3>2
      <4>2. Before(pos + 1)
        BY <3>2, <4>1
      <4> QED
        BY <4>2
    <3>4. f[o] = IF pos = o THEN f[pos + 1] ELSE <<SubSeq(src, o + 1, pos)>> \o f[pos + 1]
      BY <1>2, <2>3, <2>8, <3>1 DEF SplitFrom
    <3>5. g[o] = IF pos = o THEN g[pos + 1] ELSE <<SubSeq(a, o + 1, pos)>> \o g[pos + 1]
      BY <1>2, <2>3, <2>8, <3>1, <3>2 DEF SplitFrom
    <3>6. SubSeq(src, o + 1, pos) = SubSeq(a, o + 1, pos)
      BY <2>5, <3>2
    <3>7. <<SubSeq(a, o + 1, pos)>> \o (g[pos + 1] \o f[m + 1])
            = (<<SubSeq(a, o + 1, pos)>> \o g[pos + 1]) \o f[m + 1]
      <4>1. SubSeq(a, o + 1, pos) \in S
        <5>1. o + 1 \in Int /\ pos \in Int /\ \A i \in o + 1 .. pos : a[i] \in Bytes
          BY <1>2, <2>2, <3>2
        <5> QED
          BY <5>1, SubSeqProperties DEF S
      <4>2. g[pos + 1] \in Seq(S)
        <5>1. pos + 1 \in 0 .. Len(a) + 1
          BY <1>2, <3>2
        <5> QED
          BY <1>6, <5>1
      <4>3. Associates(SubSeq(a, o + 1, pos), g[pos + 1], f[m + 1])
        BY <1>10, <4>1, <4>2, PrefixOfConcat
      <4> QED
        BY <4>3 DEF Associates
    <3>8. f[o] = g[o] \o f[m + 1]
      <4>1. CASE pos = o
        BY <3>3, <3>4, <3>5, <4>1
      <4>2. CASE pos # o
        BY <3>3, <3>4, <3>5, <3>6, <3>7, <4>2
      <4> QED
        BY <4>1, <4>2
    <3> QED
      BY <2>2, <3>8
  <2> QED
    BY <2>6, <2>7, <2>8
<1>12. f[0] = g[0] \o f[m + 1]
  <2>1. 0 \in 0 .. m
    BY <1>2
  <2>2. Before(0)
    BY <1>11, <2>1
  <2> QED
    BY <2>2
<1> QED
  BY <1>5, <1>6, <1>7, <1>9, <1>12 DEF src

LEMMA SplitNone ==
  ASSUME NEW c
  PROVE  split(<<>>, <<c>>) = <<>>
<1>1. <<>> \in Seq(Bytes) /\ Len(<<>>) = 0
  OBVIOUS
<1>2. PICK f : /\ split(<<>>, <<c>>) = f[0]
               /\ \A i \in 0 .. Len(<<>>) + 1 :
                    f[i] = SplitFrom(f, <<>>, <<c>>, i) /\ f[i] \in Seq(Seq(Bytes))
  BY <1>1, SplitUnfolds
<1>3. f[0] = SplitFrom(f, <<>>, <<c>>, 0)
  BY <1>1, <1>2
<1> QED
  BY <1>1, <1>2, <1>3 DEF SplitFrom

(* A piece of a name: not empty, and without a slash.                      *)
IsPiece(x) == x \in Seq(Bytes) /\ x # <<>> /\ \A i \in 1 .. Len(x) : x[i] # Slash

LEMMA SplitOne ==
  ASSUME NEW x, IsPiece(x)
  PROVE  split(x, <<Slash>>) = <<x>>
<1> USE DEF IsPiece
<1>1. Len(x) \in Nat /\ Len(x) > 0
  BY EmptySeq
<1>2. PICK f : /\ split(x, <<Slash>>) = f[0]
               /\ \A i \in 0 .. Len(x) + 1 :
                    f[i] = SplitFrom(f, x, <<Slash>>, i) /\ f[i] \in Seq(Seq(Bytes))
  BY SplitUnfolds
<1>3. f[0] = SplitFrom(f, x, <<Slash>>, 0)
  BY <1>1, <1>2
<1>4. find(x, <<Slash>>, 0) = npos
  BY NotFound
<1>5. SubSeq(x, 0 + 1, Len(x)) = x
  BY SubSeqFull
<1> QED
  BY <1>1, <1>2, <1>3, <1>4, <1>5 DEF SplitFrom

(* Pieces are made of the letters of the text.                             *)
LEMMA SplitKind ==
  ASSUME NEW S \in SUBSET Bytes, NEW src \in Seq(S), NEW c
  PROVE  split(src, <<c>>) \in Seq(Seq(S))
<1> DEFINE n == Len(src)
           V == Seq(S)
<1>1. n \in Nat /\ Len(<<c>>) = 1 /\ src \in Seq(Bytes) /\ \A i \in 1 .. n : src[i] \in S
  OBVIOUS
<1>2. PICK f : /\ split(src, <<c>>) = f[0]
               /\ \A i \in 0 .. n + 1 :
                    f[i] = SplitFrom(f, src, <<c>>, i) /\ f[i] \in Seq(Seq(Bytes))
  BY <1>1, SplitUnfolds
<1>3. \A i \in Nat, j \in 0 .. n : SubSeq(src, i + 1, j) \in V
  <2> SUFFICES ASSUME NEW i \in Nat, NEW j \in 0 .. n PROVE SubSeq(src, i + 1, j) \in V
    OBVIOUS
  <2>1. i + 1 \in Int /\ j \in Int /\ \A k \in i + 1 .. j : src[k] \in S
    BY <1>1
  <2> QED
    BY <2>1, SubSeqProperties
<1> HIDE DEF V
<1> DEFINE Failing == {i \in 0 .. n + 1 : f[i] \notin Seq(V)}
<1>4. Failing = {}
  <2> SUFFICES ASSUME Failing # {} PROVE FALSE
    OBVIOUS
  <2>1. PICK o \in Failing : \A j \in Failing : j <= o
    <3>1. Failing \in SUBSET (0 .. n + 1) /\ 0 \in Int /\ n + 1 \in Int
      BY <1>1
    <3> HIDE DEF Failing
    <3> QED
      BY <3>1, LastExists
  <2>2. o \in 0 .. n + 1 /\ f[o] \notin Seq(V) /\ f[o] = SplitFrom(f, src, <<c>>, o)
    BY <1>2
  <2>3. ~(o >= n)
    <3>1. o >= n => f[o] = <<>>
      BY <2>2 DEF SplitFrom
    <3>2. <<>> \in Seq(V)
      OBVIOUS
    <3> QED
      BY <2>2, <3>1, <3>2, Zenon
  <2> DEFINE pos == find(src, <<c>>, o)
  <2>4. \/ pos = npos
        \/ pos \in o .. n - 1
    <3>1. o \in Nat
      BY <1>1, <2>2
    <3> QED
      BY <1>1, <3>1, FindIs
  <2> HIDE DEF pos
  <2>5. CASE pos = npos
    <3>1. f[o] = <<SubSeq(src, o + 1, n)>>
      BY <1>1, <2>2, <2>3, <2>5 DEF SplitFrom, pos
    <3>2. SubSeq(src, o + 1, n) \in V
      BY <1>1, <1>3, <2>2
    <3>3. <<SubSeq(src, o + 1, n)>> \in Seq(V)
      BY <3>2
    <3> QED
      BY <2>2, <3>1, <3>3, Zenon
  <2>6. CASE pos # npos
    <3>1. pos \in o .. n - 1 /\ pos + 1 \in 0 .. n + 1 /\ ~(pos + 1 <= o)
      BY <1>1, <2>2, <2>4, <2>6
    <3>2. f[pos + 1] \in Seq(V)
      <4>1. pos + 1 \notin Failing
        BY <2>1, <3>1
      <4> QED
        BY <3>1, <4>1
    <3>3. f[o] = IF pos = o THEN f[pos + 1] ELSE <<SubSeq(src, o + 1, pos)>> \o f[pos + 1]
      BY <1>1, <2>2, <2>3, <2>6 DEF SplitFrom, pos
    <3>4. <<SubSeq(src, o + 1, pos)>> \in Seq(V)
      <4>1. SubSeq(src, o + 1, pos) \in V
        BY <1>1, <1>3, <2>2, <3>1
      <4> QED
        BY <4>1
    <3>5. f[o] \in Seq(V)
      BY <3>2, <3>3, <3>4, ConcatProperties
    <3> QED
      BY <2>2, <3>5
  <2> QED
    BY <2>5, <2>6
<1>5. f[0] \in Seq(V)
  BY <1>1, <1>4
<1> QED
  BY <1>2, <1>5 DEF V

EndsWith(a, x) == a \o <<Slash>> \o x

(* A path that does not end in a slash has a last piece; what is added to  *)
(* the path is added to that piece.                                        *)
LEMMA LastPiece ==
  ASSUME NEW p \in Seq(Bytes), p # <<>>, ~EndsInSlash(p)
  PROVE  \E a, x \in Seq(Bytes) :
           /\ IsPiece(x)
           /\ <<Slash>> \o p = EndsWith(a, x)
<1> DEFINE s == <<Slash>> \o p
           n == Len(s)
           S == {i \in 1 .. n : s[i] = Slash}
<1>1. Len(p) \in Nat /\ Len(p) > 0 /\ p[Len(p)] # Slash
  BY EmptySeq DEF EndsInSlash, Last
<1>2. /\ s \in Seq(Bytes) /\ n = 1 + Len(p) /\ s[1] = Slash
      /\ \A i \in 1 .. Len(p) : s[1 + i] = p[i]
  <2>1. Slash \in Bytes
    BY DEF Slash, Bytes
  <2> QED
    BY <1>1, <2>1
<1> HIDE DEF s
<1>3. PICK k \in S : \A j \in S : j <= k
  <2>1. S \in SUBSET (1 .. n) /\ S # {} /\ 1 \in Int /\ n \in Int
    <3>1. 1 \in S
      BY <1>1, <1>2
    <3> QED
      BY <1>1, <1>2, <3>1
  <2> HIDE DEF S
  <2> QED
    BY <2>1, LastExists
<1>4. k \in 1 .. n /\ s[k] = Slash /\ \A j \in k + 1 .. n : s[j] # Slash
  <2>1. k \in 1 .. n /\ s[k] = Slash
    OBVIOUS
  <2>2. ASSUME NEW j \in k + 1 .. n PROVE s[j] # Slash
    BY <1>1, <1>2, <1>3, <2>1
  <2> QED
    BY <2>1, <2>2
<1>5. k # n
  BY <1>1, <1>2, <1>4
<1> DEFINE a == SubSeq(s, 1, k - 1)
           x == SubSeq(s, k + 1, n)
<1>6. /\ a \in Seq(Bytes) /\ Len(a) = k - 1
      /\ \A i \in 1 .. k - 1 : a[i] = s[i]
  <2>1. 1 \in Int /\ k - 1 \in Int /\ \A i \in 1 .. k - 1 : s[i] \in Bytes
    BY <1>1, <1>2, <1>4
  <2>2. /\ a \in Seq(Bytes)
        /\ Len(a) = IF 1 <= k - 1 THEN (k - 1) - 1 + 1 ELSE 0
        /\ \A i \in 1 .. (k - 1) - 1 + 1 : a[i] = s[1 + i - 1]
    BY <2>1, SubSeqProperties
  <2> HIDE DEF a
  <2> QED
    BY <1>4, <2>2
<1>7. /\ x \in Seq(Bytes) /\ Len(x) = n - k
      /\ \A i \in 1 .. n - k : x[i] = s[k + i]
  <2>1. k + 1 \in Int /\ n \in Int /\ \A i \in k + 1 .. n : s[i] \in Bytes
    BY <1>1, <1>2, <1>4
  <2>2. /\ x \in Seq(Bytes)
        /\ Len(x) = IF k + 1 <= n THEN n - (k + 1) + 1 ELSE 0
        /\ \A i \in 1 .. n - (k + 1) + 1 : x[i] = s[k + 1 + i - 1]
    BY <2>1, SubSeqProperties
  <2> HIDE DEF x
  <2> QED
    BY <1>1, <1>2, <1>4, <1>5, <2>2
<1> HIDE DEF a, x
<1>8. IsPiece(x)
  <2>1. x # <<>>
    BY <1>1, <1>2, <1>4, <1>5, <1>7
  <2>2. \A i \in 1 .. Len(x) : x[i] # Slash
    <3> SUFFICES ASSUME NEW i \in 1 .. Len(x) PROVE x[i] # Slash
      OBVIOUS
    <3>1. k + i \in k + 1 .. n /\ x[i] = s[k + i]
      BY <1>1, <1>2, <1>4, <1>7
    <3> QED
      BY <1>4, <3>1
  <2> QED
    BY <1>7, <2>1, <2>2 DEF IsPiece
<1>9. s = EndsWith(a, x)
  <2> DEFINE z == a \o <<Slash>> \o x
  <2>1. /\ z \in Seq(Bytes)
        /\ Len(z) = Len(a) + 1 + Len(x)
        /\ \A i \in 1 .. Len(a) : z[i] = a[i]
        /\ z[Len(a) + 1] = Slash
        /\ \A i \in 1 .. Len(x) : z[Len(a) + 1 + i] = x[i]
    <3>1. Slash \in Bytes
      BY DEF Slash, Bytes
    <3> QED
      BY <1>6, <1>7, <3>1, Joined
  <2> HIDE DEF z
  <2>2. Len(z) = n
    BY <1>1, <1>2, <1>4, <1>6, <1>7, <2>1
  <2>3. \A i \in 1 .. n : s[i] = z[i]
    <3> SUFFICES ASSUME NEW i \in 1 .. n PROVE s[i] = z[i]
      OBVIOUS
    <3>1. CASE i < k
      BY <1>4, <1>6, <2>1, <3>1
    <3>2. CASE i = k
      <4>1. Len(a) + 1 = k
        BY <1>4, <1>6
      <4> QED
        BY <1>4, <2>1, <3>2, <4>1
    <3>3. CASE i > k
      <4>1. i - k \in 1 .. n - k /\ Len(a) + 1 + (i - k) = i /\ k + (i - k) = i
        BY <1>1, <1>2, <1>4, <1>6, <3>3
      <4> QED
        BY <1>7, <2>1, <4>1
    <3> QED
      BY <1>4, <3>1, <3>2, <3>3
  <2>4. s = z
    BY <1>2, <2>1, <2>2, <2>3, SeqEqual
  <2> QED
    BY <2>4 DEF z, EndsWith
<1>10. a \in Seq(Bytes) /\ x \in Seq(Bytes) /\ <<Slash>> \o p = EndsWith(a, x)
  BY <1>6, <1>7, <1>9 DEF s
<1> QED
  BY <1>8, <1>10, Zenon

LEMMA SlashInFront ==
  ASSUME NEW p \in Seq(Bytes)
  PROVE  split(<<Slash>> \o p, <<Slash>>) = split(p, <<Slash>>)
<1>1. <<>> \in Seq(Bytes) /\ Slash \in Bytes
  BY DEF Slash, Bytes
<1>2. split(<<>> \o <<Slash>> \o p, <<Slash>>) = split(<<>>, <<Slash>>) \o split(p, <<Slash>>)
  BY <1>1, SplitConcat
<1>3. split(<<>>, <<Slash>>) = <<>>
  BY SplitNone
<1>4. split(p, <<Slash>>) \in Seq(Seq(Bytes))
  BY SplitKind
<1>5. <<>> \o <<Slash>> = <<Slash>>
  OBVIOUS
<1>6. <<>> \o split(p, <<Slash>>) = split(p, <<Slash>>)
  BY <1>4, ConcatEmptySeq
<1> QED
  BY <1>2, <1>3, <1>5, <1>6

LEMMA SplitLast ==
  ASSUME NEW a \in Seq(Bytes), NEW x, IsPiece(x)
  PROVE  split(EndsWith(a, x), <<Slash>>) = Append(split(a, <<Slash>>), x)
<1>1. x \in Seq(Bytes) /\ Slash \in Bytes
  BY DEF IsPiece, Slash, Bytes
<1>2. split(a \o <<Slash>> \o x, <<Slash>>) = split(a, <<Slash>>) \o split(x, <<Slash>>)
  BY <1>1, SplitConcat
<1>3. split(x, <<Slash>>) = <<x>>
  BY SplitOne
<1>4. split(a, <<Slash>>) \in Seq(Seq(Bytes))
  BY SplitKind
<1>5. split(a, <<Slash>>) \o <<x>> = Append(split(a, <<Slash>>), x)
  BY <1>1, <1>4, AppendIsConcat
<1> QED
  BY <1>2, <1>3, <1>5 DEF EndsWith

LEMMA RootIs == <<Dot>> \o <<Slash>> = Root
<1> DEFINE z == <<Dot>> \o <<Slash>>
<1>1. <<Slash>> \in Seq(Bytes) /\ <<Dot>> \in Seq(Bytes)
  BY DEF Slash, Dot, Bytes
<1>2. Len(z) = 2 /\ z[1] = Dot /\ z[2] = Slash /\ z \in Seq(Bytes)
  BY <1>1
<1>3. Root \in Seq(Bytes) /\ Len(Root) = 2 /\ Root[1] = Dot /\ Root[2] = Slash
  BY DEF Root, Dot, Slash, Bytes
<1> HIDE DEF z
<1>4. z = Root
  BY <1>2, <1>3, SeqEqual
<1> QED
  BY <1>4 DEF z

LEMMA SplitRoot ==
  ASSUME NEW p \in Seq(Bytes)
  PROVE  split(Root \o p, <<Slash>>) = <<<<Dot>>>> \o split(p, <<Slash>>)
<1>1. <<Dot>> \in Seq(Bytes) /\ Slash \in Bytes /\ IsPiece(<<Dot>>)
  BY DEF Slash, Dot, Bytes, IsPiece
<1>2. split(<<Dot>> \o <<Slash>> \o p, <<Slash>>) = split(<<Dot>>, <<Slash>>) \o split(p, <<Slash>>)
  BY <1>1, SplitConcat
<1>3. split(<<Dot>>, <<Slash>>) = <<<<Dot>>>>
  BY <1>1, SplitOne
<1>4. <<Dot>> \o <<Slash>> = Root
  BY RootIs
<1> QED
  BY <1>2, <1>3, <1>4

-----------------------------------------------------------------------------
(* Walking.  What holds at the root and after every step holds at the end. *)
LEMMA StepByStep ==
  ASSUME NEW n \in Nat, NEW G, 0 \in G, \A i \in 1 .. n : i - 1 \in G => i \in G
  PROVE  \A i \in 0 .. n : i \in G
<1> DEFINE Failing == {i \in 0 .. n : i \notin G}
<1> SUFFICES ASSUME Failing # {} PROVE FALSE
  OBVIOUS
<1>1. Failing \in SUBSET Nat
  OBVIOUS
<1>2. PICK k \in Failing : \A j \in Failing : k <= j
  BY <1>1, LeastExists
<1>3. k \in 1 .. n /\ k - 1 \in 0 .. n /\ ~(k <= k - 1)
  OBVIOUS
<1>4. k - 1 \in G
  BY <1>2, <1>3
<1> QED
  BY <1>3, <1>4

Leads(f, t, v) == f[0] = <<>> /\ \A i \in 1 .. Len(v) : f[i] = StepTo(t, f[i - 1], v[i])

Walked(f, t, v, i) == IF i = 0 THEN <<>> ELSE StepTo(t, f[i - 1], v[i])

LEMMA WalkExists ==
  ASSUME NEW t, NEW v, NEW n \in Nat
  PROVE  \E f : f = [i \in 0 .. n |-> Walked(f, t, v, i)]
<1> DEFINE Exists(k) ==
             \E f : f = [i \in 0 .. k |-> Walked(f, t, v, i)]
           G == {k \in 0 .. n : Exists(k)}
<1>1. Exists(0)
  <2> DEFINE f == [i \in 0 .. 0 |-> <<>>]
  <2>1. f = [i \in 0 .. 0 |-> Walked(f, t, v, i)]
    BY DEF Walked
  <2> QED
    BY <2>1
<1>2. ASSUME NEW k \in 1 .. n, Exists(k - 1) PROVE Exists(k)
  <2>1. PICK g : g = [i \in 0 .. k - 1 |-> Walked(g, t, v, i)]
    BY <1>2
  <2> DEFINE f == [i \in 0 .. k |-> IF i = k THEN StepTo(t, g[i - 1], v[i]) ELSE g[i]]
  <2>2. \A i \in 0 .. k : f[i] = Walked(f, t, v, i)
    <3> SUFFICES ASSUME NEW i \in 0 .. k
                 PROVE  f[i] = Walked(f, t, v, i)
      OBVIOUS
    <3>1. i # 0 => i - 1 \in 0 .. k /\ i - 1 # k
      OBVIOUS
    <3>2. i # 0 => f[i - 1] = g[i - 1]
      BY <3>1
    <3>3. f[i] = Walked(g, t, v, i)
      <4>1. CASE i = k
        BY <4>1 DEF Walked
      <4>2. CASE i # k
        <5>1. i \in 0 .. k - 1 /\ f[i] = g[i]
          BY <4>2
        <5> QED
          BY <2>1, <5>1
      <4> QED
        BY <4>1, <4>2
    <3> HIDE DEF f
    <3> QED
      BY <3>2, <3>3 DEF Walked
  <2>3. f = [i \in 0 .. k |-> f[i]]
    OBVIOUS
  <2> HIDE DEF f
  <2> QED
    BY <2>2, <2>3
<1> HIDE DEF Exists
<1>3. 0 \in G /\ \A i \in 1 .. n : i - 1 \in G => i \in G
  BY <1>1, <1>2
<1>4. n \in G
  <2> HIDE DEF G
  <2>1. \A i \in 0 .. n : i \in G
    BY <1>3, StepByStep
  <2> QED
    BY <2>1
<1> QED
  BY <1>4 DEF Exists

LEMMA WalkUnfolds ==
  ASSUME NEW t, NEW name \in Seq(Bytes)
  PROVE  \E f : /\ Leads(f, t, split(name, <<Slash>>))
                /\ Walk(t, name) = f[Len(split(name, <<Slash>>))]
<1> DEFINE v == split(name, <<Slash>>)
           Unfolds(f) == f = [i \in 0 .. Len(v) |-> Walked(f, t, v, i)]
           at == CHOOSE f : Unfolds(f)
<1>1. Walk(t, name) = at[Len(v)]
  BY DEF Walk, Follow, Walked
<1>2. Len(v) \in Nat
  <2>1. v \in Seq(Seq(Bytes))
    BY SplitKind
  <2> HIDE DEF v
  <2> QED
    BY <2>1
<1> HIDE DEF v
<1>3. Unfolds(at)
  <2>1. \E f : Unfolds(f)
    BY <1>2, WalkExists
  <2> HIDE DEF Unfolds
  <2> QED
    BY <2>1
<1> HIDE DEF at
<1>4. Leads(at, t, v)
  BY <1>2, <1>3 DEF Leads, Walked
<1> QED
  BY <1>1, <1>4 DEF v

(* Names of files and directories: sequences of pieces.                    *)
Places == Seq(Seq(Bytes))

LEMMA FrontIs ==
  ASSUME NEW at \in Places, at # <<>>
  PROVE  /\ Front(at) \in Places /\ Len(Front(at)) = Len(at) - 1
         /\ \A i \in 1 .. Len(at) - 1 : Front(at)[i] = at[i]
<1> DEFINE S == Seq(Bytes)
           t == SubSeq(at, 1, Len(at) - 1)
<1>1. Len(at) \in Nat /\ Len(at) > 0 /\ \A i \in 1 .. Len(at) : at[i] \in S
  BY EmptySeq DEF Places
<1> HIDE DEF S
<1>2. 1 \in Int /\ Len(at) - 1 \in Int /\ \A i \in 1 .. Len(at) - 1 : at[i] \in S
  BY <1>1
<1>3. /\ t \in Seq(S)
      /\ Len(t) = IF 1 <= Len(at) - 1 THEN (Len(at) - 1) - 1 + 1 ELSE 0
      /\ \A i \in 1 .. (Len(at) - 1) - 1 + 1 : t[i] = at[1 + i - 1]
  BY <1>2, SubSeqProperties
<1> HIDE DEF t
<1>4. Len(t) = Len(at) - 1
  <2> DEFINE m == Len(at)
  <2>1. m \in Nat /\ m > 0 /\ Len(t) = IF 1 <= m - 1 THEN (m - 1) - 1 + 1 ELSE 0
    BY <1>1, <1>3
  <2> HIDE DEF m
  <2>2. Len(t) = m - 1
    BY <2>1
  <2> QED
    BY <2>2 DEF m
<1>5. ASSUME NEW i \in 1 .. Len(at) - 1 PROVE t[i] = at[i]
  <2>1. i \in 1 .. (Len(at) - 1) - 1 + 1 /\ 1 + i - 1 = i
    BY <1>1
  <2> QED
    BY <1>3, <2>1
<1> QED
  BY <1>3, <1>4, <1>5 DEF t, S, Front, Places

LEMMA StepType ==
  ASSUME NEW t, NEW at \in Places, NEW c \in Seq(Bytes)
  PROVE  StepTo(t, at, c) \in Places
<1>1. Outside \in Places
  <2>1. 0 \in Bytes
    BY DEF Bytes
  <2> QED
    BY <2>1 DEF Outside, Places
<1>2. Append(at, c) \in Places
  BY AppendProperties DEF Places
<1>3. at # <<>> => Front(at) \in Places
  BY FrontIs
<1>4. <<Dot, Dot>> # <<Dot>>
  OBVIOUS
<1> QED
  BY <1>1, <1>2, <1>3, <1>4, Zenon DEF StepTo

LEMMA LeadsType ==
  ASSUME NEW t, NEW v \in Places, NEW f, Leads(f, t, v)
  PROVE  \A i \in 0 .. Len(v) : f[i] \in Places
<1> DEFINE G == {i \in 0 .. Len(v) : f[i] \in Places}
<1>1. Len(v) \in Nat /\ \A i \in 1 .. Len(v) : v[i] \in Seq(Bytes)
  BY DEF Places
<1>2. 0 \in G
  <2>1. f[0] \in Places
    BY DEF Leads, Places
  <2> QED
    BY <1>1, <2>1
<1>3. ASSUME NEW i \in 1 .. Len(v), i - 1 \in G PROVE i \in G
  <2>1. f[i - 1] \in Places /\ f[i] = StepTo(t, f[i - 1], v[i])
    BY <1>3 DEF Leads
  <2>2. f[i] \in Places
    BY <1>1, <2>1, StepType
  <2> QED
    BY <1>1, <2>2
<1>4. \A i \in 0 .. Len(v) : i \in G
  <2> HIDE DEF G
  <2> QED
    BY <1>1, <1>2, <1>3, StepByStep
<1> QED
  BY <1>4

LEMMA PrefixIs ==
  ASSUME NEW p \in Places, NEW f \in Places
  PROVE  IsPrefix(p, f) <=> Len(p) <= Len(f) /\ \A i \in 1 .. Len(p) : p[i] = f[i]
<1> DEFINE S == Seq(Bytes)
           m == Len(p)
           u == SubSeq(p, 1, m)
           w == SubSeq(f, 1, m)
<1>1. /\ p \in Seq(S) /\ f \in Seq(S) /\ m \in Nat /\ Len(f) \in Nat
      /\ \A i \in 1 .. m : p[i] \in S
      /\ \A i \in 1 .. Len(f) : f[i] \in S
  BY DEF Places
<1>2. u = p
  BY <1>1, SubSeqFull
<1>3. ASSUME m <= Len(f)
      PROVE  w \in Seq(S) /\ Len(w) = m /\ \A i \in 1 .. m : w[i] = f[i]
  <2>1. 1 \in Int /\ m \in Int /\ \A i \in 1 .. m : f[i] \in S
    BY <1>1, <1>3
  <2> HIDE DEF m, S
  <2>2. /\ w \in Seq(S)
        /\ Len(w) = IF 1 <= m THEN m - 1 + 1 ELSE 0
        /\ \A i \in 1 .. m - 1 + 1 : w[i] = f[1 + i - 1]
    BY <2>1, SubSeqProperties
  <2> HIDE DEF w
  <2>3. Len(w) = m /\ \A i \in 1 .. m : i \in 1 .. m - 1 + 1 /\ 1 + i - 1 = i
    BY <1>1, <2>2
  <2> QED
    BY <2>2, <2>3
<1>4. IsPrefix(p, f) <=> m <= Len(f) /\ p = w
  BY <1>2 DEF IsPrefix
<1> HIDE DEF w, S
<1>5. ASSUME m <= Len(f) PROVE p = w <=> \A i \in 1 .. m : p[i] = f[i]
  <2>1. w \in Seq(S) /\ Len(w) = m /\ \A i \in 1 .. m : w[i] = f[i]
    BY <1>3, <1>5
  <2>2. p = w => \A i \in 1 .. m : p[i] = f[i]
    BY <2>1
  <2>3. ASSUME \A i \in 1 .. m : p[i] = f[i] PROVE p = w
    BY <1>1, <2>1, <2>3, SeqEqual
  <2> QED
    BY <2>2, <2>3
<1> QED
  BY <1>4, <1>5

Files == {<<Index>>, <<<<A>>>>, <<<<A>> \o Html>>, <<<<A>>, Index>>}

LEMMA FilesArePlaces ==
  /\ Files \subseteq Places
  /\ \A f \in Files : Len(f) > 0 /\ f[1] # <<0>>
  /\ IsFiniteSet(Files)
<1> DEFINE S == Seq(Bytes)
           AHtml == <<A>> \o Html
<1>1. Index \in S /\ <<A>> \in S /\ Html \in S
  BY DEF Index, Html, A, Dot, Bytes
<1>2. AHtml \in S /\ Len(AHtml) = 3
  <2>1. Len(<<A>>) = 1 /\ Len(Html) = 2
    BY DEF Html
  <2>2. \A u, w \in Seq(Bytes) : u \o w \in Seq(Bytes) /\ Len(u \o w) = Len(u) + Len(w)
    BY ConcatProperties
  <2>3. 1 + 2 = 3
    OBVIOUS
  <2> QED
    BY <1>1, <2>1, <2>2, <2>3, Zenon
<1>3. Index # <<0>> /\ <<A>> # <<0>> /\ AHtml # <<0>>
  <2>1. Len(<<0>>) = 1 /\ Len(Index) = 3
    BY DEF Index
  <2> HIDE DEF AHtml
  <2> QED
    BY <1>2, <2>1 DEF A
<1>4. Files = {<<Index>>, <<<<A>>>>, <<AHtml>>, <<<<A>>, Index>>}
  BY DEF Files
<1> HIDE DEF AHtml, S
<1>5. Files \subseteq Seq(S)
  BY <1>1, <1>2, <1>4
<1>6. \A f \in Files : Len(f) > 0 /\ f[1] # <<0>>
  BY <1>3, <1>4
<1>7. IsFiniteSet(Files)
  <2>1. IsFiniteSet({})
    BY FS_EmptySet
  <2>2. IsFiniteSet({} \union {<<Index>>})
    BY <2>1, FS_AddElement
  <2>3. IsFiniteSet(({} \union {<<Index>>}) \union {<<<<A>>>>})
    BY <2>2, FS_AddElement
  <2>4. IsFiniteSet((({} \union {<<Index>>}) \union {<<<<A>>>>}) \union {<<AHtml>>})
    BY <2>3, FS_AddElement
  <2>5. IsFiniteSet(((({} \union {<<Index>>}) \union {<<<<A>>>>}) \union {<<AHtml>>}) \union {<<<<A>>, Index>>})
    BY <2>4, FS_AddElement
  <2>6. Files = ((({} \union {<<Index>>}) \union {<<<<A>>>>}) \union {<<AHtml>>}) \union {<<<<A>>, Index>>}
    BY <1>4
  <2> QED
    BY <2>5, <2>6
<1> QED
  BY <1>5, <1>6, <1>7 DEF Places, S

LEMMA TreeFacts ==
  ASSUME NEW t \in Trees
  PROVE  /\ t \subseteq Files /\ t \subseteq Places
         /\ Outside \notin t /\ <<>> \notin t
         /\ ~IsDir(t, Outside)
         /\ \A f \in t : ~IsDir(t, f)
<1>1. t \subseteq Files /\ \A f, g \in t : ~IsStrictPrefix(f, g)
  BY DEF Trees, Files
<1>2. t \subseteq Places /\ \A f \in t : Len(f) > 0 /\ f[1] # <<0>>
  BY <1>1, FilesArePlaces
<1>3. Outside \in Places /\ Len(Outside) = 1 /\ Outside[1] = <<0>> /\ Outside # <<>>
  <2>1. 0 \in Bytes
    BY DEF Bytes
  <2> QED
    BY <2>1 DEF Outside, Places
<1>4. ASSUME NEW f \in t PROVE ~IsPrefix(Outside, f)
  <2>1. f \in Places /\ f[1] # <<0>>
    BY <1>2
  <2>2. ASSUME IsPrefix(Outside, f) PROVE FALSE
    <3>1. \A i \in 1 .. Len(Outside) : Outside[i] = f[i]
      BY <1>3, <2>1, <2>2, PrefixIs
    <3> QED
      BY <1>3, <2>1, <3>1
  <2> QED
    BY <2>2
<1>5. Outside \notin t /\ <<>> \notin t
  BY <1>2, <1>3
<1>6. ~IsDir(t, Outside)
  BY <1>3, <1>4 DEF IsDir, IsStrictPrefix
<1>7. \A f \in t : ~IsDir(t, f)
  BY <1>1, <1>5 DEF IsDir
<1> QED
  BY <1>1, <1>2, <1>5, <1>6, <1>7

LEMMA DirUp ==
  ASSUME NEW t \in Trees, NEW p \in Places, p # <<>>, IsDir(t, p)
  PROVE  IsDir(t, Front(p))
<1>1. PICK f \in t : IsPrefix(p, f) /\ p # f
  BY DEF IsDir, IsStrictPrefix
<1>2. f \in Places
  BY TreeFacts
<1>3. Len(p) <= Len(f) /\ \A i \in 1 .. Len(p) : p[i] = f[i]
  BY <1>1, <1>2, PrefixIs
<1> DEFINE q == Front(p)
<1>4. /\ q \in Places /\ Len(q) = Len(p) - 1
      /\ \A i \in 1 .. Len(p) - 1 : q[i] = p[i]
  BY FrontIs
<1> HIDE DEF q
<1>5. Len(p) \in Nat /\ Len(f) \in Nat
  BY <1>2 DEF Places
<1>6. Len(q) <= Len(f) /\ Len(q) # Len(f) /\ \A i \in 1 .. Len(q) : q[i] = f[i]
  BY <1>3, <1>4, <1>5
<1>7. IsPrefix(q, f) /\ q # f
  BY <1>2, <1>4, <1>6, PrefixIs
<1> QED
  BY <1>7 DEF q, IsDir, IsStrictPrefix

LEMMA DirMono ==
  ASSUME NEW s, NEW b, s \subseteq b, NEW p, IsDir(s, p)
  PROVE  IsDir(b, p)
BY DEF IsDir

(* More files lead to more, never elsewhere.                               *)
LEMMA WalkMono ==
  ASSUME NEW s \in Trees, NEW b \in Trees, s \subseteq b, NEW name \in Seq(Bytes)
  PROVE  Walk(s, name) = Outside \/ Walk(s, name) = Walk(b, name)
<1> DEFINE v == split(name, <<Slash>>)
<1>1. PICK f : Leads(f, s, v) /\ Walk(s, name) = f[Len(v)]
  BY WalkUnfolds
<1>2. PICK g : Leads(g, b, v) /\ Walk(b, name) = g[Len(v)]
  BY WalkUnfolds
<1>3. v \in Places /\ Len(v) \in Nat
  <2>1. v \in Places
    BY SplitKind DEF Places
  <2> HIDE DEF v
  <2> QED
    BY <2>1 DEF Places
<1> HIDE DEF v
<1> DEFINE Same(i) == f[i] = Outside \/ f[i] = g[i]
           G == {i \in 0 .. Len(v) : Same(i)}
<1>4. 0 \in G
  BY <1>1, <1>2, <1>3 DEF Leads
<1>5. ASSUME NEW i \in 1 .. Len(v), i - 1 \in G PROVE i \in G
  <2>1. f[i] = StepTo(s, f[i - 1], v[i]) /\ g[i] = StepTo(b, g[i - 1], v[i])
    BY <1>1, <1>2 DEF Leads
  <2>2. Same(i - 1)
    BY <1>5
  <2>3. IsDir(s, f[i - 1]) => f[i - 1] = g[i - 1] /\ IsDir(b, g[i - 1])
    BY <2>2, TreeFacts, DirMono
  <2>4. ~IsDir(s, f[i - 1]) => f[i] = Outside
    BY <2>1 DEF StepTo
  <2>5. IsDir(s, f[i - 1]) => f[i] = g[i]
    BY <2>1, <2>3 DEF StepTo
  <2> QED
    BY <1>3, <2>4, <2>5
<1>6. Same(Len(v))
  <2>1. \A i \in 0 .. Len(v) : i \in G
    <3> HIDE DEF G
    <3> QED
      BY <1>3, <1>4, <1>5, StepByStep
  <2> QED
    BY <1>3, <2>1
<1> QED
  BY <1>1, <1>2, <1>6

(* The root's own step leads nowhere.                                      *)
LEMMA WalkFromRoot ==
  ASSUME NEW t, NEW name \in Seq(Bytes)
  PROVE  Walk(t, Root \o name) = Walk(t, name)
<1> DEFINE w == split(Root \o name, <<Slash>>)
           v == split(name, <<Slash>>)
<1>0. Root \in Seq(Bytes)
  BY DEF Root, Dot, Slash, Bytes
<1>1. PICK f : Leads(f, t, w) /\ Walk(t, Root \o name) = f[Len(w)]
  <2>1. Root \o name \in Seq(Bytes)
    BY <1>0, ConcatProperties
  <2> QED
    BY <2>1, WalkUnfolds
<1>2. PICK g : Leads(g, t, v) /\ Walk(t, name) = g[Len(v)]
  BY WalkUnfolds
<1>3. v \in Places /\ w = <<<<Dot>>>> \o v
  BY SplitKind, SplitRoot DEF Places
<1> HIDE DEF v, w
<1>4. /\ Len(v) \in Nat /\ Len(w) = 1 + Len(v) /\ w[1] = <<Dot>>
      /\ \A i \in 1 .. Len(v) : w[i + 1] = v[i]
  <2> DEFINE d == <<Dot>>
             S == Seq(Bytes)
  <2>1. d \in S /\ v \in Seq(S) /\ w = <<d>> \o v
    BY <1>3 DEF Places, Dot, Bytes
  <2> HIDE DEF d, S
  <2>2. /\ Len(v) \in Nat /\ Len(w) = 1 + Len(v) /\ w[1] = d
        /\ \A i \in 1 .. Len(v) : w[i + 1] = v[i]
    BY <2>1
  <2> QED
    BY <2>2 DEF d
<1>5. f[1] = <<>>
  <2>1. f[0] = <<>> /\ f[1] = StepTo(t, f[1 - 1], w[1])
    <3>1. 1 \in 1 .. Len(w)
      BY <1>4
    <3> QED
      BY <1>1, <3>1 DEF Leads
  <2>2. f[1] = StepTo(t, <<>>, <<Dot>>)
    BY <1>4, <2>1
  <2>3. <<Dot>> # <<Dot, Dot>> /\ IsDir(t, <<>>)
    BY DEF IsDir
  <2> QED
    BY <2>2, <2>3, Zenon DEF StepTo
<1> DEFINE G == {i \in 0 .. Len(v) : f[i + 1] = g[i]}
<1>6. 0 \in G
  BY <1>2, <1>4, <1>5 DEF Leads
<1>7. ASSUME NEW i \in 1 .. Len(v), i - 1 \in G PROVE i \in G
  <2>1. g[i] = StepTo(t, g[i - 1], v[i])
    BY <1>2 DEF Leads
  <2>2. f[i + 1] = StepTo(t, f[i], w[i + 1])
    <3>1. i + 1 \in 1 .. Len(w) /\ (i + 1) - 1 = i
      BY <1>4
    <3>2. f[i + 1] = StepTo(t, f[(i + 1) - 1], w[i + 1])
      BY <1>1, <3>1 DEF Leads
    <3> QED
      BY <3>1, <3>2
  <2>3. f[i] = g[i - 1]
    <3>1. f[(i - 1) + 1] = g[i - 1] /\ (i - 1) + 1 = i
      BY <1>7
    <3> QED
      BY <3>1
  <2>4. f[i + 1] = g[i]
    BY <1>4, <2>1, <2>2, <2>3
  <2> QED
    BY <1>4, <2>4
<1>8. f[Len(v) + 1] = g[Len(v)]
  <2>1. \A i \in 0 .. Len(v) : i \in G
    <3> HIDE DEF G
    <3> QED
      BY <1>4, <1>6, <1>7, StepByStep
  <2> QED
    BY <1>4, <2>1
<1>9. Len(w) = Len(v) + 1
  BY <1>4
<1> QED
  BY <1>1, <1>2, <1>8, <1>9

(* What ends at a file ends with its own name.                             *)
LEMMA EndsAtFile ==
  ASSUME NEW t \in Trees, NEW a \in Seq(Bytes), NEW x, IsPiece(x),
         Walk(t, EndsWith(a, x)) \in t
  PROVE  Last(Walk(t, EndsWith(a, x))) = x
<1> DEFINE u == split(a, <<Slash>>)
           v == split(EndsWith(a, x), <<Slash>>)
<1>1. x \in Seq(Bytes) /\ EndsWith(a, x) \in Seq(Bytes)
  <2>1. Slash \in Bytes /\ x \in Seq(Bytes)
    BY DEF Slash, Bytes, IsPiece
  <2> QED
    BY <2>1, Joined DEF EndsWith
<1>2. PICK f : Leads(f, t, v) /\ Walk(t, EndsWith(a, x)) = f[Len(v)]
  BY <1>1, WalkUnfolds
<1>3. u \in Places /\ v = Append(u, x)
  BY SplitKind, SplitLast DEF Places
<1>0. v \in Places
  BY <1>1, SplitKind DEF Places
<1> HIDE DEF u, v
<1>4. Len(u) \in Nat /\ Len(v) = Len(u) + 1 /\ v[Len(u) + 1] = x
  <2> DEFINE S == Seq(Bytes)
  <2>1. u \in Seq(S) /\ x \in S
    BY <1>1, <1>3 DEF Places
  <2> HIDE DEF S
  <2> QED
    BY <1>3, <2>1, AppendProperties
<1> DEFINE n == Len(u)
           at == f[n]
<1>5. /\ f[Len(v)] = StepTo(t, at, x) /\ at \in Places
  <2>1. n + 1 \in 1 .. Len(v) /\ (n + 1) - 1 = n /\ n \in 0 .. Len(v)
    BY <1>4
  <2>2. f[n + 1] = StepTo(t, f[(n + 1) - 1], v[n + 1])
    BY <1>2, <2>1 DEF Leads
  <2>3. f[n] \in Places
    BY <1>0, <1>2, <2>1, LeadsType
  <2> QED
    BY <1>4, <2>1, <2>2, <2>3
<1> HIDE DEF at
<1>6. StepTo(t, at, x) \in t
  BY <1>2, <1>5
<1>7. Outside \notin t /\ \A g \in t : ~IsDir(t, g)
  BY TreeFacts
<1>8. IsDir(t, at) /\ ~(x = <<Dot, Dot>> /\ at = <<>>)
  BY <1>6, <1>7, Zenon DEF StepTo
<1>9. x # <<Dot>>
  BY <1>6, <1>7, <1>8, Zenon DEF StepTo
<1>10. x # <<Dot, Dot>>
  <2> SUFFICES ASSUME x = <<Dot, Dot>> PROVE FALSE
    OBVIOUS
  <2>1. at # <<>>
    BY <1>8
  <2>2. Front(at) \in t
    BY <1>6, <1>8, <1>9, Zenon DEF StepTo
  <2>3. IsDir(t, Front(at))
    BY <1>5, <1>8, <2>1, DirUp
  <2> QED
    BY <1>7, <2>2, <2>3
<1>11. f[Len(v)] = Append(at, x)
  BY <1>5, <1>8, <1>9, <1>10, Zenon DEF StepTo
<1>12. Last(Append(at, x)) = x
  <2> DEFINE S == Seq(Bytes)
  <2>1. at \in Seq(S) /\ x \in S
    BY <1>1, <1>5 DEF Places
  <2> HIDE DEF S
  <2> QED
    BY <2>1, AppendProperties DEF Last
<1> QED
  BY <1>2, <1>11, <1>12

Take(v, i) == SubSeq(v, 1, i)

LEMMA TakeIs ==
  ASSUME NEW v \in Places, NEW i \in 0 .. Len(v)
  PROVE  /\ Take(v, i) \in Places /\ Len(Take(v, i)) = i
         /\ \A j \in 1 .. i : Take(v, i)[j] = v[j]
<1> DEFINE S == Seq(Bytes)
           t == SubSeq(v, 1, i)
<1>1. Len(v) \in Nat /\ \A j \in 1 .. Len(v) : v[j] \in S
  BY DEF Places
<1> HIDE DEF S
<1>2. 1 \in Int /\ i \in Int /\ \A j \in 1 .. i : v[j] \in S
  BY <1>1
<1>3. /\ t \in Seq(S)
      /\ Len(t) = IF 1 <= i THEN i - 1 + 1 ELSE 0
      /\ \A j \in 1 .. i - 1 + 1 : t[j] = v[1 + j - 1]
  BY <1>2, SubSeqProperties
<1> HIDE DEF t
<1>4. Len(t) = i
  BY <1>1, <1>3
<1>5. ASSUME NEW j \in 1 .. i PROVE t[j] = v[j]
  <2>1. j \in 1 .. i - 1 + 1 /\ 1 + j - 1 = j
    BY <1>1
  <2> QED
    BY <1>3, <2>1
<1> QED
  BY <1>3, <1>4, <1>5 DEF t, S, Take, Places

LEMMA TakeNext ==
  ASSUME NEW v \in Places, NEW i \in 1 .. Len(v)
  PROVE  Take(v, i) = Append(Take(v, i - 1), v[i])
<1> DEFINE S == Seq(Bytes)
           p == Take(v, i)
           q == Take(v, i - 1)
           r == Append(q, v[i])
<1>1. Len(v) \in Nat /\ v[i] \in S
  BY DEF Places
<1>2. /\ p \in Seq(S) /\ Len(p) = i
      /\ \A j \in 1 .. i : p[j] = v[j]
  <2>1. i \in 0 .. Len(v)
    BY <1>1
  <2> QED
    BY <2>1, TakeIs DEF Places
<1>3. /\ q \in Seq(S) /\ Len(q) = i - 1
      /\ \A j \in 1 .. i - 1 : q[j] = v[j]
  <2>1. i - 1 \in 0 .. Len(v)
    BY <1>1
  <2> QED
    BY <2>1, TakeIs DEF Places
<1> HIDE DEF p, q, S
<1>4. /\ r \in Seq(S) /\ Len(r) = i /\ r[i] = v[i]
      /\ \A j \in 1 .. i - 1 : r[j] = q[j]
  <2>1. /\ r \in Seq(S)
        /\ Len(r) = Len(q) + 1
        /\ \A j \in 1 .. Len(q) : r[j] = q[j]
        /\ r[Len(q) + 1] = v[i]
    BY <1>1, <1>3, AppendProperties
  <2>2. Len(q) + 1 = i
    BY <1>1, <1>3
  <2> HIDE DEF r
  <2> QED
    BY <1>3, <2>1, <2>2
<1> HIDE DEF r
<1>5. ASSUME NEW j \in 1 .. i PROVE p[j] = r[j]
  <2>1. CASE j = i
    BY <1>2, <1>4, <2>1
  <2>2. CASE j # i
    <3>1. j \in 1 .. i - 1
      BY <1>1, <2>2
    <3> QED
      BY <1>2, <1>3, <1>4, <3>1
  <2> QED
    BY <2>1, <2>2
<1>6. p = r
  BY <1>2, <1>4, <1>5, SeqEqual
<1> QED
  BY <1>6 DEF p, q, r

Plain(v) == \A i \in 1 .. Len(v) : v[i] \notin {<<Dot>>, <<Dot, Dot>>}

(* Without dots a name leads to itself or outside, and it leads to itself  *)
(* where there is such a file or directory.                                *)
LEMMA PlainWalk ==
  ASSUME NEW t \in Trees, NEW name \in Seq(Bytes), Plain(split(name, <<Slash>>))
  PROVE  /\ Walk(t, name) \in {Outside, split(name, <<Slash>>)}
         /\ split(name, <<Slash>>) \in t => Walk(t, name) = split(name, <<Slash>>)
         /\ IsDir(t, split(name, <<Slash>>)) => Walk(t, name) = split(name, <<Slash>>)
<1> DEFINE v == split(name, <<Slash>>)
           n == Len(v)
<1>1. PICK f : Leads(f, t, v) /\ Walk(t, name) = f[n]
  BY WalkUnfolds
<1>2. v \in Places /\ Plain(v)
  BY SplitKind DEF Places
<1> HIDE DEF v
<1>3. n \in Nat /\ n \in 0 .. n
  BY <1>2 DEF Places
<1>4. Take(v, 0) = <<>> /\ Take(v, n) = v
  <2> DEFINE S == Seq(Bytes)
  <2>1. v \in Seq(S)
    BY <1>2 DEF Places
  <2> HIDE DEF S
  <2>2. Take(v, n) = v
    BY <2>1, SubSeqFull DEF Take
  <2>3. 0 \in 0 .. Len(v)
    BY <1>3
  <2>4. Take(v, 0) \in Places /\ Len(Take(v, 0)) = 0
    BY <1>2, <2>3, TakeIs
  <2>5. Take(v, 0) = <<>>
    <3> DEFINE w == Take(v, 0)
    <3>1. w \in Seq(S) /\ Len(w) = 0
      BY <2>4 DEF S, Places
    <3> HIDE DEF w
    <3>2. w = <<>>
      BY <3>1, EmptySeq
    <3> QED
      BY <3>2 DEF w
  <2> QED
    BY <2>2, <2>5
<1>5. ASSUME NEW i \in 1 .. n, f[i - 1] = Take(v, i - 1)
      PROVE  f[i] = IF IsDir(t, Take(v, i - 1)) THEN Take(v, i) ELSE Outside
  <2>1. f[i] = StepTo(t, Take(v, i - 1), v[i])
    BY <1>1, <1>5 DEF Leads
  <2>2. v[i] # <<Dot>> /\ v[i] # <<Dot, Dot>>
    BY <1>2 DEF Plain
  <2>3. Take(v, i) = Append(Take(v, i - 1), v[i])
    BY <1>2, TakeNext
  <2> QED
    BY <2>1, <2>2, <2>3, Zenon DEF StepTo
<1> DEFINE G == {i \in 0 .. n : f[i] = Outside \/ f[i] = Take(v, i)}
           H == {i \in 0 .. n : f[i] = Take(v, i)}
<1>6. f[0] = Take(v, 0)
  BY <1>1, <1>4 DEF Leads
<1>7. f[n] \in {Outside, v}
  <2>1. 0 \in G
    BY <1>3, <1>6
  <2>2. ASSUME NEW i \in 1 .. n, i - 1 \in G PROVE i \in G
    <3>1. CASE f[i - 1] = Outside
      <4>1. f[i] = StepTo(t, Outside, v[i])
        BY <1>1, <3>1 DEF Leads
      <4>2. f[i] = Outside
        BY <4>1, TreeFacts DEF StepTo
      <4> QED
        BY <1>3, <4>2
    <3>2. CASE f[i - 1] = Take(v, i - 1)
      <4>1. f[i] = Outside \/ f[i] = Take(v, i)
        BY <1>5, <3>2
      <4> QED
        BY <1>3, <4>1
    <3> QED
      BY <2>2, <3>1, <3>2
  <2>3. \A i \in 0 .. n : i \in G
    <3> HIDE DEF G
    <3> QED
      BY <1>3, <2>1, <2>2, StepByStep
  <2> QED
    BY <1>3, <1>4, <2>3
<1>8. ASSUME NEW g \in t, IsPrefix(v, g) PROVE f[n] = v
  <2>0. g \in Places /\ Len(g) \in Nat
    BY TreeFacts DEF Places
  <2>1. n <= Len(g) /\ \A j \in 1 .. n : v[j] = g[j]
    BY <1>2, <1>8, <2>0, PrefixIs
  <2>2. ASSUME NEW i \in 1 .. n PROVE IsDir(t, Take(v, i - 1))
    <3> DEFINE p == Take(v, i - 1)
    <3>1. p \in Places /\ Len(p) = i - 1 /\ \A j \in 1 .. i - 1 : p[j] = v[j]
      <4>1. i - 1 \in 0 .. Len(v)
        BY <1>3
      <4> QED
        BY <1>2, <4>1, TakeIs
    <3> HIDE DEF p
    <3>2. Len(p) <= Len(g) /\ Len(p) # Len(g) /\ \A j \in 1 .. Len(p) : p[j] = g[j]
      BY <1>3, <2>0, <2>1, <3>1
    <3>3. IsPrefix(p, g) /\ p # g
      BY <2>0, <3>1, <3>2, PrefixIs
    <3>4. IsDir(t, p)
      BY <3>3 DEF IsDir, IsStrictPrefix
    <3> QED
      BY <3>4 DEF p
  <2>3. 0 \in H
    BY <1>3, <1>6
  <2>4. ASSUME NEW i \in 1 .. n, i - 1 \in H PROVE i \in H
    <3>1. f[i - 1] = Take(v, i - 1)
      BY <2>4
    <3>2. f[i] = Take(v, i)
      BY <1>5, <2>2, <3>1
    <3> QED
      BY <1>3, <3>2
  <2>5. \A i \in 0 .. n : i \in H
    <3> HIDE DEF H
    <3> QED
      BY <1>3, <2>3, <2>4, StepByStep
  <2> QED
    BY <1>3, <1>4, <2>5
<1>9. v \in t => f[n] = v
  <2> SUFFICES ASSUME v \in t PROVE f[n] = v
    OBVIOUS
  <2>1. IsPrefix(v, v)
    BY <1>2, <1>3, PrefixIs
  <2> QED
    BY <1>8, <2>1
<1>10. IsDir(t, v) => f[n] = v
  <2> SUFFICES ASSUME IsDir(t, v) PROVE f[n] = v
    OBVIOUS
  <2>1. CASE v = <<>>
    BY <1>1, <2>1 DEF Leads
  <2>2. CASE v # <<>>
    BY <1>8, <2>2 DEF IsDir, IsStrictPrefix
  <2> QED
    BY <2>1, <2>2
<1> QED
  BY <1>1, <1>7, <1>9, <1>10 DEF v

-----------------------------------------------------------------------------
(* The type of a file is that of the last piece of its name.               *)
LEMMA RfindIs ==
  ASSUME NEW src \in Seq(Bytes), NEW c
  PROVE  \/ rfind(src, c) = npos /\ \A i \in 1 .. Len(src) : src[i] # c
         \/ /\ rfind(src, c) \in 0 .. Len(src) - 1 /\ src[rfind(src, c) + 1] = c
            /\ \A i \in rfind(src, c) + 2 .. Len(src) : src[i] # c
<1> DEFINE n == Len(src)
           at == {p \in 0 .. n - 1 : src[p + 1] = c}
           r == rfind(src, c)
<1>1. n \in Nat
  OBVIOUS
<1>2. r = IF at = {} THEN npos ELSE Max(at)
  BY DEF rfind
<1>3. CASE at = {}
  <2>1. \A i \in 1 .. n : src[i] # c
    <3> SUFFICES ASSUME NEW i \in 1 .. n PROVE src[i] # c
      OBVIOUS
    <3>1. i - 1 \in 0 .. n - 1 /\ (i - 1) + 1 = i
      BY <1>1
    <3>2. i - 1 \notin at
      BY <1>3
    <3> QED
      BY <3>1, <3>2
  <2> QED
    BY <1>2, <1>3, <2>1
<1>4. CASE at # {}
  <2>1. PICK k \in at : \A j \in at : j <= k
    <3>1. at \in SUBSET (0 .. n - 1) /\ 0 \in Int /\ n - 1 \in Int
      BY <1>1
    <3> HIDE DEF at
    <3> QED
      BY <1>4, <3>1, LastExists
  <2>2. Max(at) \in at /\ \A j \in at : j <= Max(at)
    <3>1. Max(at) = CHOOSE m \in at : \A j \in at : m >= j
      BY DEF Max
    <3>2. k \in at /\ \A j \in at : k >= j
      BY <1>1, <2>1
    <3> HIDE DEF at
    <3>3. Max(at) \in at /\ \A j \in at : Max(at) >= j
      BY <3>1, <3>2
    <3>4. at \subseteq Int
      BY DEF at
    <3> QED
      BY <3>3, <3>4
  <2>3. r \in at /\ \A j \in at : j <= r
    BY <1>2, <1>4, <2>2
  <2> HIDE DEF r
  <2>4. r \in 0 .. n - 1 /\ src[r + 1] = c
    BY <2>3
  <2>5. \A i \in r + 2 .. n : src[i] # c
    <3> SUFFICES ASSUME NEW i \in r + 2 .. n, src[i] = c PROVE FALSE
      OBVIOUS
    <3>1. i - 1 \in 0 .. n - 1 /\ (i - 1) + 1 = i /\ ~(i - 1 <= r)
      BY <1>1, <2>4
    <3>2. i - 1 \in at
      BY <3>1
    <3> QED
      BY <2>3, <3>1, <3>2
  <2> QED
    BY <2>4, <2>5 DEF r
<1> QED
  BY <1>3, <1>4

LEMMA MimeOfName ==
  ASSUME NEW b \in Seq(Bytes), NEW x, IsPiece(x)
  PROVE  ExMime(EndsWith(b, x)) = ExMime(x)
<1> DEFINE z == EndsWith(b, x)
           exts == {<<Dot, 104>>, <<Dot, 72>>}
<1>1. x \in Seq(Bytes) /\ Slash \in Bytes
  BY DEF IsPiece, Slash, Bytes
<1>2. PICK k \in Nat : k = Len(b) + 1
  OBVIOUS
<1>3. /\ z \in Seq(Bytes) /\ Len(z) = k + Len(x) /\ z[k] = Slash
      /\ \A i \in 1 .. Len(x) : z[k + i] = x[i]
  BY <1>1, <1>2, Joined DEF EndsWith
<1> SUFFICES ExMime(z) = ExMime(x)
  OBVIOUS
<1> HIDE DEF z
<1>4. Len(x) \in Nat /\ Len(z) \in Nat /\ 1 <= k
  BY <1>1, <1>2, <1>3
<1>5. Embeds(z, k, x)
  BY <1>1, <1>3, <1>4 DEF Embeds
<1> DEFINE p == rfind(x, Dot)
           r == rfind(z, Dot)
<1>6. \/ p = npos /\ \A i \in 1 .. Len(x) : x[i] # Dot
      \/ /\ p \in 0 .. Len(x) - 1 /\ x[p + 1] = Dot
         /\ \A i \in p + 2 .. Len(x) : x[i] # Dot
  BY <1>1, RfindIs
<1>7. \/ r = npos /\ \A i \in 1 .. Len(z) : z[i] # Dot
      \/ /\ r \in 0 .. Len(z) - 1 /\ z[r + 1] = Dot
         /\ \A i \in r + 2 .. Len(z) : z[i] # Dot
  BY <1>3, RfindIs
<1> DEFINE HasExt(s, o) == o # npos /\ SubSeq(s, o + 1, Len(s)) \in exts
<1>8. /\ ExMime(x) = IF HasExt(x, p) THEN "html" ELSE "stream"
      /\ ExMime(z) = IF HasExt(z, r) THEN "html" ELSE "stream"
  BY DEF ExMime
<1> HIDE DEF p, r, exts
<1>9. CASE p = npos
  <2>1. \A i \in 1 .. Len(x) : x[i] # Dot
    <3>1. npos \notin 0 .. Len(x) - 1
      BY <1>4 DEF npos
    <3> QED
      BY <1>6, <1>9, <3>1
  <2>2. ASSUME r # npos, SubSeq(z, r + 1, Len(z)) \in exts PROVE FALSE
    <3>1. r \in 0 .. Len(z) - 1 /\ z[r + 1] = Dot
      BY <1>7, <2>2
    <3>2. r + 1 < k
      <4>1. r + 1 # k
        BY <1>3, <3>1 DEF Dot, Slash
      <4>2. ASSUME r + 1 > k PROVE FALSE
        <5>1. r + 1 - k \in 1 .. Len(x) /\ k + (r + 1 - k) = r + 1
          BY <1>3, <1>4, <2>2, <3>1, <4>2
        <5> QED
          BY <1>3, <2>1, <3>1, <5>1
      <4> QED
        BY <1>4, <3>1, <4>1, <4>2
    <3> DEFINE t == SubSeq(z, r + 1, Len(z))
    <3>3. /\ Len(t) = IF r + 1 <= Len(z) THEN Len(z) - (r + 1) + 1 ELSE 0
          /\ \A i \in 1 .. Len(z) - (r + 1) + 1 : t[i] = z[r + 1 + i - 1]
      <4>1. r + 1 \in Int /\ Len(z) \in Int /\ \A i \in r + 1 .. Len(z) : z[i] \in Bytes
        BY <1>3, <1>4, <3>1
      <4> QED
        BY <4>1, SubSeqProperties
    <3>4. t \in exts
      BY <2>2
    <3> HIDE DEF t
    <3>5. k - r \in 1 .. Len(z) - (r + 1) + 1 /\ r + 1 + (k - r) - 1 = k /\ k - r \in 1 .. Len(t)
      BY <1>3, <1>4, <3>1, <3>2, <3>3
    <3>6. t[k - r] = Slash
      BY <1>3, <3>3, <3>5
    <3>7. t[k - r] \in {Dot, 104, 72}
      BY <3>4, <3>5 DEF exts
    <3> QED
      BY <3>6, <3>7 DEF Dot, Slash
  <2> QED
    BY <1>8, <1>9, <2>2
<1>10. CASE p # npos
  <2>1. /\ p \in 0 .. Len(x) - 1 /\ x[p + 1] = Dot
        /\ \A i \in p + 2 .. Len(x) : x[i] # Dot
    BY <1>6, <1>10
  <2>2. z[k + p + 1] = Dot /\ k + p + 1 \in 1 .. Len(z)
    <3>1. p + 1 \in 1 .. Len(x) /\ k + (p + 1) = k + p + 1
      BY <1>4, <2>1
    <3>2. k + p + 1 \in 1 .. Len(z)
      BY <1>3, <1>4, <2>1
    <3> QED
      BY <1>3, <2>1, <3>1, <3>2
  <2>3. r \in 0 .. Len(z) - 1 /\ z[r + 1] = Dot /\ \A i \in r + 2 .. Len(z) : z[i] # Dot
    BY <1>7, <2>2
  <2>4. r >= k + p
    <3>1. ASSUME r < k + p PROVE FALSE
      <4>1. k + p + 1 \in r + 2 .. Len(z)
        BY <1>4, <2>1, <2>2, <2>3, <3>1
      <4> QED
        BY <2>2, <2>3, <4>1
    <3> QED
      BY <1>4, <2>1, <2>3, <3>1
  <2>5. r <= k + p
    <3>1. ASSUME r > k + p PROVE FALSE
      <4>1. r + 1 - k \in p + 2 .. Len(x) /\ r + 1 - k \in 1 .. Len(x) /\ k + (r + 1 - k) = r + 1
        BY <1>3, <1>4, <2>1, <2>3, <3>1
      <4> QED
        BY <1>3, <2>1, <2>3, <4>1
    <3> QED
      BY <1>4, <2>1, <2>3, <3>1
  <2>6. r = k + p /\ r # npos
    BY <1>4, <2>1, <2>3, <2>4, <2>5 DEF npos
  <2>7. SubSeq(z, r + 1, Len(z)) = SubSeq(x, p + 1, Len(x))
    <3>1. Stretch(x, p, Len(x))
      BY <1>4, <2>1 DEF Stretch
    <3>2. SameStretch(z, k, x, p, Len(x))
      BY <1>5, <3>1, SubSeqWithin
    <3> QED
      BY <1>3, <2>6, <3>2 DEF SameStretch
  <2>8. HasExt(z, r) <=> HasExt(x, p)
    BY <1>10, <2>6, <2>7, Zenon
  <2> QED
    <3> HIDE DEF HasExt
    <3> QED
      BY <1>8, <2>8
<1> QED
  BY <1>9, <1>10

-----------------------------------------------------------------------------
(* Names under the root.                                                   *)
LEMMA UnderRoot ==
  ASSUME NEW q \in Seq(Bytes)
  PROVE  /\ Root \o q \in Seq(Bytes) /\ Root \o q # <<>>
         /\ EndsInSlash(q) => EndsInSlash(Root \o q)
         /\ q # <<>> /\ EndsInSlash(Root \o q) => EndsInSlash(q)
         /\ SubSeq(Root \o q, Len(Root) + 1, Len(Root \o q)) = q
         /\ \A h \in Seq(Bytes) : (Root \o q) \o h = Root \o (q \o h)
<1> DEFINE n == Root \o q
<1>1. Root \in Seq(Bytes) /\ Len(Root) = 2
  BY DEF Root, Dot, Slash, Bytes
<1>2. PICK k \in Nat : k = Len(Root)
  BY <1>1
<1>3. n \in Seq(Bytes) /\ Len(n) = k + Len(q) /\ \A i \in 1 .. Len(q) : n[k + i] = q[i]
  <2> DEFINE r == Root
  <2>1. r \in Seq(Bytes) /\ n = r \o q /\ k = Len(r)
    BY <1>1, <1>2
  <2> HIDE DEF r, n
  <2> QED
    BY <2>1
<1>4. Len(q) \in Nat /\ (q # <<>> <=> Len(q) > 0)
  BY EmptySeq
<1>5. \A h \in Seq(Bytes) : (Root \o q) \o h = Root \o (q \o h)
  BY <1>1, ConcatAssociative
<1> SUFFICES /\ n # <<>>
             /\ EndsInSlash(q) => EndsInSlash(n)
             /\ q # <<>> /\ EndsInSlash(n) => EndsInSlash(q)
             /\ SubSeq(n, k + 1, Len(n)) = q
  BY <1>2, <1>3, <1>5
<1> HIDE DEF n
<1>6. n # <<>>
  BY <1>1, <1>2, <1>3, <1>4
<1>7. q # <<>> => Last(n) = Last(q)
  <2>1. q # <<>> => Len(q) \in 1 .. Len(q)
    BY <1>4
  <2> QED
    BY <1>3, <2>1 DEF Last
<1>8. SubSeq(n, k + 1, Len(n)) = q
  <2>1. SubSeq(q, 1, Len(q)) = q
    BY SubSeqFull
  <2>2. Embeds(n, k, q)
    BY <1>3, <1>4 DEF Embeds
  <2>3. Stretch(q, 0, Len(q))
    BY <1>4 DEF Stretch
  <2>4. SameStretch(n, k, q, 0, Len(q))
    BY <2>2, <2>3, SubSeqWithin
  <2>5. k + 0 + 1 = k + 1 /\ 0 + 1 = 1
    BY <1>2
  <2> QED
    BY <1>3, <2>1, <2>4, <2>5 DEF SameStretch
<1> QED
  BY <1>6, <1>7, <1>8 DEF EndsInSlash

Reassociates(u, v, w) == (u \o v) \o w = u \o (v \o w)

LEMMA TextAssociates ==
  ASSUME NEW u, NEW v, NEW w, u \in Seq(Bytes), v \in Seq(Bytes), w \in Seq(Bytes)
  PROVE  Reassociates(u, v, w)
BY ConcatAssociative DEF Reassociates

LEMMA PageType ==
  ASSUME NEW t \in Trees, NEW q \in Seq(Bytes), q # <<>>, ~EndsInSlash(q),
         Walk(t, Root \o q) \in t
  PROVE  ExMime(Root \o q) = ExMime(Last(Walk(t, Root \o q)))
<1>1. PICK a, x \in Seq(Bytes) : IsPiece(x) /\ <<Slash>> \o q = EndsWith(a, x)
  BY LastPiece
<1>2. Root \o q = EndsWith(<<Dot>> \o a, x) /\ <<Dot>> \o a \in Seq(Bytes)
  <2> DEFINE d == <<Dot>>
             s == <<Slash>>
  <2>1. d \in Seq(Bytes) /\ s \in Seq(Bytes) /\ x \in Seq(Bytes) /\ Slash \in Bytes
    BY <1>1 DEF Dot, Slash, Bytes, IsPiece
  <2>2. Root = d \o s
    BY RootIs
  <2>3. s \o q = a \o s \o x
    BY <1>1 DEF EndsWith
  <2> SUFFICES (d \o s) \o q = (d \o a) \o s \o x /\ d \o a \in Seq(Bytes)
    BY <2>2 DEF EndsWith
  <2> HIDE DEF d, s
  <2>4. a \o s \in Seq(Bytes) /\ d \o a \in Seq(Bytes)
    BY <2>1, ConcatProperties
  <2>5. Reassociates(d, s, q) /\ Reassociates(d, a, s)
    BY <2>1, TextAssociates
  <2>6. Reassociates(d, a \o s, x)
    BY <2>1, <2>4, TextAssociates, Zenon
  <2> QED
    BY <2>3, <2>4, <2>5, <2>6 DEF Reassociates
<1>3. Last(Walk(t, Root \o q)) = x
  BY <1>1, <1>2, EndsAtFile
<1>4. ExMime(Root \o q) = ExMime(x)
  <2> DEFINE b == <<Dot>> \o a
  <2>1. Root \o q = EndsWith(b, x) /\ b \in Seq(Bytes) /\ IsPiece(x)
    BY <1>1, <1>2
  <2> HIDE DEF b
  <2>2. ExMime(EndsWith(b, x)) = ExMime(x)
    BY <2>1, MimeOfName
  <2> QED
    BY <2>1, <2>2
<1> QED
  BY <1>3, <1>4

(* The looks of the echo server one after the other, at one tree.          *)
Asked(p) == IF p \in {<<>>, <<Slash>>} THEN <<Slash>> \o Index ELSE p

LooksRegular(t, n) == IsRegular(t, n)
LooksHtml(t, n) ==
  /\ ~Contains(SubSeq(n, Len(Root) + 1, Len(n)), Dot) /\ ~EndsInSlash(n)
  /\ IsRegular(t, n \o Html)
LooksDirectory(t, n) == ~EndsInSlash(n) /\ IsDirectory(t, n)
LooksIndex(t, n) == EndsInSlash(n) /\ IsRegular(t, n \o Index)

EchoLooks(t, n) ==
  IF LooksRegular(t, n) THEN Page(t, n)
  ELSE IF LooksHtml(t, n) THEN Page(t, n \o Html)
  ELSE IF LooksDirectory(t, n) THEN Reply(302)
  ELSE IF LooksIndex(t, n) THEN Page(t, n \o Index)
  ELSE Reply(404)

LEMMA AskedIs ==
  ASSUME NEW p \in Seq(Bytes)
  PROVE  Asked(p) \in Seq(Bytes) /\ Asked(p) # <<>>
<1>1. <<Slash>> \in Seq(Bytes) /\ Index \in Seq(Bytes) /\ Len(<<Slash>>) = 1 /\ Len(Index) = 3
  BY DEF Slash, Index, Dot, Bytes
<1>2. <<Slash>> \o Index \in Seq(Bytes) /\ Len(<<Slash>> \o Index) = 4
  <2>1. \A u, w \in Seq(Bytes) : u \o w \in Seq(Bytes) /\ Len(u \o w) = Len(u) + Len(w)
    BY ConcatProperties
  <2>2. 1 + 3 = 4
    OBVIOUS
  <2> QED
    BY <1>1, <2>1, <2>2, Zenon
<1>3. <<Slash>> \o Index # <<>>
  BY <1>2
<1> QED
  BY <1>2, <1>3 DEF Asked

LEMMA HtmlAndIndex ==
  ASSUME NEW q \in Seq(Bytes), NEW h \in {Html, Index}
  PROVE  /\ h \in Seq(Bytes) /\ h # <<>> /\ q \o h \in Seq(Bytes) /\ q \o h # <<>>
         /\ ~EndsInSlash(q \o h)
<1>1. h \in Seq(Bytes) /\ Len(h) > 0 /\ h[Len(h)] = 104 /\ Len(h) \in 1 .. Len(h)
  <2>1. CASE h = Html
    BY <2>1 DEF Html, Dot, Bytes
  <2>2. CASE h = Index
    BY <2>2 DEF Index, Dot, Bytes
  <2> QED
    BY <2>1, <2>2
<1> DEFINE z == q \o h
<1>2. z \in Seq(Bytes) /\ Len(z) = Len(q) + Len(h) /\ \A i \in 1 .. Len(h) : z[Len(q) + i] = h[i]
  BY <1>1
<1> SUFFICES z \in Seq(Bytes) /\ z # <<>> /\ ~EndsInSlash(z)
  BY <1>1
<1> HIDE DEF z
<1>3. Len(q) \in Nat
  OBVIOUS
<1>4. z # <<>>
  BY <1>1, <1>2, <1>3
<1>5. z[Len(z)] = 104
  BY <1>1, <1>2
<1> QED
  BY <1>2, <1>4, <1>5 DEF EndsInSlash, Last, Slash

LEMMA EchoLooksAtOnce ==
  ASSUME NEW t \in Trees, NEW p \in Seq(Bytes), NEW m \in {"GET", "HEAD"}, VaildPath(p)
  PROVE  EchoAnswer(t, m, p) = EchoLooks(t, Root \o Asked(p))
<1> DEFINE q == Asked(p)
           n == Root \o q
           Pg(y) == [Page(t, y) EXCEPT !.type = ExMime(Last(Walk(t, y)))]
<1>1. EchoAnswer(t, m, p) =
        IF EndsInSlash(n)
        THEN IF Walk(t, n \o Index) \in t THEN Pg(n \o Index) ELSE Reply(404)
        ELSE IF Walk(t, n) \in t THEN Pg(n)
        ELSE IF ~Contains(q, Dot) /\ Walk(t, n \o Html) \in t THEN Pg(n \o Html)
        ELSE IF IsDirectory(t, n) THEN Reply(302) ELSE Reply(404)
  BY DEF EchoAnswer, Asked
<1>2. q \in Seq(Bytes) /\ q # <<>>
  BY AskedIs
<1> HIDE DEF q
<1>3. ASSUME NEW y \in Seq(Bytes), y # <<>>, ~EndsInSlash(y), Walk(t, Root \o y) \in t
      PROVE  Pg(Root \o y) = Page(t, Root \o y)
  <2>1. ExMime(Root \o y) = ExMime(Last(Walk(t, Root \o y)))
    BY <1>3, PageType
  <2> QED
    BY <2>1 DEF Page, Reply, NoReply
<1>4. /\ EndsInSlash(n) <=> EndsInSlash(q)
      /\ SubSeq(n, Len(Root) + 1, Len(n)) = q
      /\ n \o Html = Root \o (q \o Html)
      /\ n \o Index = Root \o (q \o Index)
  <2>1. Html \in Seq(Bytes) /\ Index \in Seq(Bytes)
    BY <1>2, HtmlAndIndex
  <2> QED
    BY <1>2, <2>1, UnderRoot
<1>5. /\ ~EndsInSlash(n \o Html) /\ ~EndsInSlash(n \o Index)
      /\ Walk(t, n \o Html) \in t => Pg(n \o Html) = Page(t, n \o Html)
      /\ Walk(t, n \o Index) \in t => Pg(n \o Index) = Page(t, n \o Index)
      /\ ~EndsInSlash(n) /\ Walk(t, n) \in t => Pg(n) = Page(t, n)
  <2>1. n \in Seq(Bytes)
    BY <1>2, UnderRoot
  <2>2. ~EndsInSlash(n \o Html) /\ ~EndsInSlash(n \o Index)
    BY <2>1, HtmlAndIndex
  <2>3. \A h \in {Html, Index} : q \o h \in Seq(Bytes) /\ q \o h # <<>> /\ ~EndsInSlash(q \o h)
    BY <1>2, HtmlAndIndex
  <2> HIDE DEF Pg
  <2> QED
    BY <1>2, <1>3, <1>4, <2>2, <2>3
<1>6. /\ LooksRegular(t, n) <=> ~EndsInSlash(n) /\ Walk(t, n) \in t
      /\ LooksHtml(t, n) <=> ~Contains(q, Dot) /\ ~EndsInSlash(n) /\ Walk(t, n \o Html) \in t
      /\ LooksDirectory(t, n) <=> ~EndsInSlash(n) /\ IsDirectory(t, n)
      /\ LooksIndex(t, n) <=> EndsInSlash(n) /\ Walk(t, n \o Index) \in t
  BY <1>4, <1>5 DEF LooksRegular, LooksHtml, LooksDirectory, LooksIndex, IsRegular
<1> HIDE DEF n, Pg
<1>7. EchoAnswer(t, m, p) = EchoLooks(t, n)
  BY <1>1, <1>5, <1>6, Zenon DEF EchoLooks
<1> QED
  BY <1>7 DEF n, q

(* Where a path without dots, the path with ".html" and its index lead.    *)
Names(q, v, vh, vi) ==
  /\ v \in Places /\ vh \in Places /\ vi \in Places
  /\ Len(vh) = Len(v) /\ vh # v /\ Len(vi) = Len(v) + 1
  /\ split(q, <<Slash>>) = v
  /\ split(q \o Html, <<Slash>>) = vh
  /\ split(EndsWith(q, Index), <<Slash>>) = vi
  /\ Plain(v) /\ Plain(vh) /\ Plain(vi)

HasPlainName(q) == q # <<>> /\ ~EndsInSlash(q) /\ ~Contains(q, Dot)

LEMMA PlainNames ==
  ASSUME NEW q \in Seq(Bytes), HasPlainName(q)
  PROVE  \E v, vh, vi : Names(q, v, vh, vi)
<1> DEFINE S == Bytes \ {Dot}
           v == split(q, <<Slash>>)
           vh == split(q \o Html, <<Slash>>)
           vi == split(EndsWith(q, Index), <<Slash>>)
<1>1. PICK a, x \in Seq(Bytes) : IsPiece(x) /\ <<Slash>> \o q = EndsWith(a, x)
  BY LastPiece DEF HasPlainName
<1> DEFINE w == split(a, <<Slash>>)
           xh == x \o Html
<1>2. Html \in Seq(Bytes) /\ Index \in Seq(Bytes) /\ <<Slash>> \in Seq(Bytes) /\ q \o Html \in Seq(Bytes)
  BY HtmlAndIndex DEF Slash, Bytes
<1>3. IsPiece(Index) /\ Len(Index) = 3
  BY DEF IsPiece, Index, Dot, Slash, Bytes
<1>4. x \in Seq(Bytes) /\ Len(x) \in Nat /\ Len(x) > 0 /\ \A i \in 1 .. Len(x) : x[i] # Slash
  BY <1>1, EmptySeq DEF IsPiece
<1>5. IsPiece(xh) /\ xh \in Seq(Bytes) /\ Len(xh) = Len(x) + 2
  <2> DEFINE h == Html
  <2>1. h \in Seq(Bytes) /\ Len(h) = 2 /\ \A i \in 1 .. 2 : h[i] # Slash
    BY DEF Html, Dot, Slash, Bytes
  <2> HIDE DEF h
  <2> DEFINE z == x \o h
  <2>2. /\ z \in Seq(Bytes) /\ Len(z) = Len(x) + 2
        /\ \A i \in 1 .. Len(x) + 2 : z[i] = IF i <= Len(x) THEN x[i] ELSE h[i - Len(x)]
    <3>1. x \in Seq(Bytes) /\ h \in Seq(Bytes) /\ Len(x) \in Nat /\ Len(h) = 2
      BY <1>4, <2>1
    <3>2. z \in Seq(Bytes) /\ Len(z) = Len(x) + 2
      <4>1. \A e, f \in Seq(Bytes) : e \o f \in Seq(Bytes) /\ Len(e \o f) = Len(e) + Len(f)
        BY ConcatProperties
      <4> QED
        BY <3>1, <4>1, Zenon
    <3>3. \A i \in 1 .. Len(x) + Len(h) : z[i] = IF i <= Len(x) THEN x[i] ELSE h[i - Len(x)]
      BY <3>1, ConcatProperties
    <3> HIDE DEF z
    <3> QED
      BY <3>1, <3>2, <3>3
  <2> HIDE DEF z
  <2>3. \A i \in 1 .. Len(z) : z[i] # Slash
    <3> SUFFICES ASSUME NEW i \in 1 .. Len(z) PROVE z[i] # Slash
      OBVIOUS
    <3>1. CASE i <= Len(x)
      BY <1>4, <2>2, <3>1
    <3>2. CASE ~(i <= Len(x))
      <4>1. i - Len(x) \in 1 .. 2
        BY <1>4, <2>2, <3>2
      <4> QED
        BY <1>4, <2>1, <2>2, <3>2, <4>1
    <3> QED
      BY <3>1, <3>2
  <2>4. z # <<>>
    BY <1>4, <2>2
  <2> QED
    BY <2>2, <2>3, <2>4 DEF IsPiece, z, h
<1>6. v = Append(w, x) /\ w \in Places
  BY <1>1, SlashInFront, SplitLast, SplitKind DEF Places
<1>7. vh = Append(w, xh)
  <2>1. <<Slash>> \o (q \o Html) = EndsWith(a, xh)
    <3> DEFINE s == <<Slash>>
               h == Html
               as == a \o s
    <3>1. as \in Seq(Bytes) /\ s \in Seq(Bytes) /\ h \in Seq(Bytes) /\ x \in Seq(Bytes)
      BY <1>2, <1>4, ConcatProperties
    <3>2. s \o q = as \o x
      BY <1>1 DEF EndsWith
    <3> SUFFICES s \o (q \o h) = as \o (x \o h)
      BY DEF EndsWith
    <3> HIDE DEF s, h, as
    <3>3. (s \o q) \o h = s \o (q \o h)
      <4>1. Reassociates(s, q, h)
        BY <3>1, TextAssociates
      <4> QED
        BY <4>1 DEF Reassociates
    <3>4. (as \o x) \o h = as \o (x \o h)
      <4>1. Reassociates(as, x, h)
        BY <3>1, TextAssociates
      <4> QED
        BY <4>1 DEF Reassociates
    <3> QED
      BY <3>2, <3>3, <3>4
  <2>2. split(<<Slash>> \o (q \o Html), <<Slash>>) = vh
    BY <1>2, SlashInFront
  <2>3. split(EndsWith(a, xh), <<Slash>>) = Append(w, xh)
    BY <1>5, SplitLast
  <2> QED
    BY <2>1, <2>2, <2>3
<1>8. vi = Append(v, Index)
  BY <1>3, SplitLast
<1>9. Plain(v)
  <2>1. q \in Seq(S)
    <3>1. \A i \in 1 .. Len(q) : q[i] \in S
      <4>1. \A i \in 1 .. Len(q) : q[i] \in Bytes
        OBVIOUS
      <4> QED
        BY <4>1 DEF Contains, HasPlainName
    <3>2. \E k \in Nat : Len(q) = k
      OBVIOUS
    <3> HIDE DEF S
    <3>3. q = [i \in 1 .. Len(q) |-> q[i]]
      OBVIOUS
    <3> QED
      BY <3>1, <3>2, <3>3, IsASeq
  <2>2. v \in Seq(Seq(S))
    <3>1. S \in SUBSET Bytes
      OBVIOUS
    <3> HIDE DEF S
    <3> QED
      BY <2>1, <3>1, SplitKind
  <2> HIDE DEF v
  <2>3. ASSUME NEW i \in 1 .. Len(v) PROVE v[i] \notin {<<Dot>>, <<Dot, Dot>>}
    <3>1. v[i] \in Seq(S)
      <4> DEFINE T == Seq(S)
      <4> HIDE DEF T, S
      <4>1. v \in Seq(T)
        BY <2>2 DEF T
      <4>2. v[i] \in T
        BY <2>3, <4>1
      <4> QED
        BY <4>2 DEF T
    <3>2. <<Dot>> \notin Seq(S) /\ <<Dot, Dot>> \notin Seq(S)
      <4>1. \A u \in Seq(S) : \A j \in 1 .. Len(u) : u[j] # Dot
        OBVIOUS
      <4>2. 1 \in 1 .. Len(<<Dot>>) /\ <<Dot>>[1] = Dot
        OBVIOUS
      <4>3. 1 \in 1 .. Len(<<Dot, Dot>>) /\ <<Dot, Dot>>[1] = Dot
        OBVIOUS
      <4> QED
        BY <4>1, <4>2, <4>3
    <3> QED
      BY <3>1, <3>2
  <2> QED
    BY <2>3 DEF Plain
<1> HIDE DEF w, xh, v, vh, vi
<1> DEFINE B == Seq(Bytes)
<1>10. w \in Seq(B) /\ x \in B /\ xh \in B /\ Index \in B
  BY <1>2, <1>4, <1>5, <1>6 DEF Places
<1>11. \A u \in B : Len(u) >= 3 => u \notin {<<Dot>>, <<Dot, Dot>>}
  <2>1. Len(<<Dot>>) = 1 /\ Len(<<Dot, Dot>>) = 2
    OBVIOUS
  <2>2. ASSUME NEW u \in B, Len(u) >= 3 PROVE u # <<Dot>> /\ u # <<Dot, Dot>>
    <3> DEFINE l == Len(u)
    <3>0. l \in Nat /\ l >= 3
      BY <2>2
    <3> HIDE DEF l
    <3>1. l # 1 /\ l # 2
      BY <3>0
    <3> QED
      BY <2>1, <3>1, Zenon DEF l
  <2> QED
    BY <2>2
<1>12. x # xh /\ xh \notin {<<Dot>>, <<Dot, Dot>>} /\ Index \notin {<<Dot>>, <<Dot, Dot>>}
  <2>1. Len(x) # Len(xh) /\ Len(xh) >= 3 /\ Len(Index) >= 3
    BY <1>3, <1>4, <1>5
  <2> QED
    BY <1>10, <1>11, <2>1
<1> HIDE DEF B
<1> DEFINE k == Len(w)
<1>13. /\ k \in Nat
       /\ v \in Seq(B) /\ Len(v) = k + 1 /\ v[k + 1] = x /\ \A i \in 1 .. k : v[i] = w[i]
       /\ vh \in Seq(B) /\ Len(vh) = k + 1 /\ vh[k + 1] = xh /\ \A i \in 1 .. k : vh[i] = w[i]
  BY <1>6, <1>7, <1>10, AppendProperties
<1>14. /\ vi \in Seq(B) /\ Len(vi) = Len(v) + 1 /\ vi[Len(v) + 1] = Index
       /\ \A i \in 1 .. Len(v) : vi[i] = v[i]
  BY <1>8, <1>10, <1>13, AppendProperties
<1> HIDE DEF k
<1>15. Plain(vh)
  <2> SUFFICES ASSUME NEW i \in 1 .. k + 1 PROVE vh[i] \notin {<<Dot>>, <<Dot, Dot>>}
    BY <1>13 DEF Plain
  <2>1. CASE i = k + 1
    BY <1>12, <1>13, <2>1
  <2>2. CASE i # k + 1
    <3>1. i \in 1 .. k /\ i \in 1 .. Len(v)
      BY <1>13, <2>2
    <3>2. vh[i] = v[i]
      BY <1>13, <3>1
    <3> QED
      BY <1>9, <3>1, <3>2 DEF Plain
  <2> QED
    BY <2>1, <2>2
<1>16. Plain(vi)
  <2> SUFFICES ASSUME NEW i \in 1 .. Len(v) + 1 PROVE vi[i] \notin {<<Dot>>, <<Dot, Dot>>}
    BY <1>14 DEF Plain
  <2>1. CASE i = Len(v) + 1
    BY <1>12, <1>14, <2>1
  <2>2. CASE i # Len(v) + 1
    <3>1. i \in 1 .. Len(v)
      BY <1>13, <2>2
    <3>2. vi[i] = v[i]
      BY <1>14, <3>1
    <3> QED
      BY <1>9, <3>1, <3>2 DEF Plain
  <2> QED
    BY <2>1, <2>2
<1>17. vh # v
  BY <1>12, <1>13
<1>18. Names(q, v, vh, vi)
  BY <1>9, <1>13, <1>14, <1>15, <1>16, <1>17 DEF Names, Places, B, v, vh, vi
<1> QED
  BY <1>18

LEMMA EndsInSlashIs ==
  ASSUME NEW p \in Seq(Bytes), EndsInSlash(p)
  PROVE  \E r \in Seq(Bytes) : p = r \o <<Slash>>
<1>1. p # <<>> /\ p[Len(p)] = Slash
  BY DEF EndsInSlash, Last
<1>2. PICK r \in Seq(Bytes), c \in Bytes : p = Append(r, c)
  BY <1>1, SequenceEmptyOrAppend
<1>3. c = Slash
  BY <1>1, <1>2, AppendProperties
<1>4. Append(r, Slash) = r \o <<Slash>>
  BY <1>2, <1>3, AppendIsConcat
<1> QED
  BY <1>2, <1>3, <1>4

LEMMA SplitSlashed ==
  ASSUME NEW r \in Seq(Bytes)
  PROVE  split(r \o <<Slash>>, <<Slash>>) = split(r, <<Slash>>)
<1>1. <<>> \in Seq(Bytes) /\ Slash \in Bytes /\ <<Slash>> \in Seq(Bytes)
  BY DEF Slash, Bytes
<1>2. split(r \o <<Slash>> \o <<>>, <<Slash>>) = split(r, <<Slash>>) \o split(<<>>, <<Slash>>)
  BY <1>1, SplitConcat
<1>3. split(<<>>, <<Slash>>) = <<>>
  BY SplitNone
<1>4. split(r, <<Slash>>) \in Seq(Seq(Bytes))
  BY SplitKind
<1>5. split(r, <<Slash>>) \o <<>> = split(r, <<Slash>>)
  BY <1>4, ConcatEmptySeq
<1>6. (r \o <<Slash>>) \o <<>> = r \o <<Slash>>
  <2>1. r \o <<Slash>> \in Seq(Bytes)
    BY <1>1, ConcatProperties
  <2> QED
    BY <2>1, ConcatEmptySeq
<1> QED
  BY <1>2, <1>3, <1>5, <1>6

LEMMA IndexHasDot == Contains(<<Slash>> \o Index, Dot)
<1> DEFINE z == <<Slash>> \o Index
           x == Index
           s == <<Slash>>
<1>1. x \in Seq(Bytes) /\ Len(x) = 3 /\ x[2] = Dot
  BY DEF Index, Dot, Bytes
<1>2. s \in Seq(Bytes) /\ Len(s) = 1
  BY DEF Slash, Bytes
<1> HIDE DEF x, s
<1>3. Len(s \o x) = 4 /\ (s \o x)[3] = Dot
  <2>1. /\ Len(s \o x) = Len(s) + Len(x)
        /\ \A i \in 1 .. Len(s) + Len(x) : (s \o x)[i] = IF i <= Len(s) THEN s[i] ELSE x[i - Len(s)]
    BY <1>1, <1>2, ConcatProperties
  <2>2. 1 + 3 = 4 /\ 3 \in 1 .. 4 /\ ~(3 <= 1) /\ 3 - 1 = 2
    OBVIOUS
  <2> QED
    BY <1>1, <1>2, <2>1, <2>2
<1>4. 3 \in 1 .. 4
  OBVIOUS
<1>5. Len(z) = 4 /\ z[3] = Dot
  BY <1>3 DEF x, s
<1> HIDE DEF z
<1>6. Contains(z, Dot)
  BY <1>4, <1>5 DEF Contains
<1> QED
  BY <1>6 DEF z

LEMMA PlainLooks ==
  ASSUME NEW t \in Trees, NEW q \in Seq(Bytes), NEW v, NEW vh, NEW vi, Names(q, v, vh, vi)
  PROVE  /\ Walk(t, q) \in {Outside, v}
         /\ Walk(t, q \o Html) \in {Outside, vh}
         /\ Walk(t, EndsWith(q, Index)) \in {Outside, vi}
         /\ Walk(t, q) \in t <=> v \in t
         /\ Walk(t, q \o Html) \in t <=> vh \in t
         /\ IsDir(t, Walk(t, q)) <=> IsDir(t, v)
<1>1. /\ q \o Html \in Seq(Bytes) /\ EndsWith(q, Index) \in Seq(Bytes)
  <2>1. Slash \in Bytes /\ Index \in Seq(Bytes)
    BY HtmlAndIndex DEF Slash, Bytes
  <2> QED
    BY <2>1, HtmlAndIndex, Joined DEF EndsWith
<1>2. /\ split(q, <<Slash>>) = v /\ Plain(v)
      /\ split(q \o Html, <<Slash>>) = vh /\ Plain(vh)
      /\ split(EndsWith(q, Index), <<Slash>>) = vi /\ Plain(vi)
  BY DEF Names
<1>3. Outside \notin t /\ ~IsDir(t, Outside)
  BY TreeFacts
<1>4. /\ Walk(t, q) \in {Outside, v}
      /\ v \in t => Walk(t, q) = v
      /\ IsDir(t, v) => Walk(t, q) = v
  BY <1>2, PlainWalk
<1>5. /\ Walk(t, q \o Html) \in {Outside, vh}
      /\ vh \in t => Walk(t, q \o Html) = vh
  BY <1>1, <1>2, PlainWalk
<1>6. Walk(t, EndsWith(q, Index)) \in {Outside, vi}
  BY <1>1, <1>2, PlainWalk
<1> QED
  BY <1>3, <1>4, <1>5, <1>6, Zenon

LEMMA PageFields ==
  /\ \A t, x : Page(t, x).status = 200 /\ Page(t, x).file = Walk(t, x)
  /\ \A s : Reply(s).status = s
BY DEF Page, Reply, NoReply

(* The one look of Http_Server.                                            *)
LEMMA HttpLooksAtOnce ==
  ASSUME NEW t \in Trees, NEW p \in Seq(Bytes), p # <<>>, NEW m \in {"GET", "HEAD", "POST"}
  PROVE  HttpAnswer(t, m, p)
           = IF IsFileHandler(t, m, p) THEN Page(t, BackPath(p)) ELSE Dispather(m, p)
<1> DEFINE e == EchoAnswer(t, m, p)
           q == Asked(p)
           n == Root \o q
           pi == EndsWith(p, Index)
           back == BackPath(p)
<1>1. HttpAnswer(t, m, p) = IF e.status = 200 /\ e.file \in {Walk(t, p), Walk(t, pi)}
                            THEN e ELSE Dispather(m, p)
  BY DEF HttpAnswer, EndsWith
<1>2. CASE m = "POST"
  <2>1. e = Reply(405)
    BY <1>2 DEF EchoAnswer
  <2>2. e.status # 200
    BY <2>1, PageFields
  <2>3. ~IsFileHandler(t, m, p)
    BY <1>2 DEF IsFileHandler
  <2> QED
    BY <1>1, <2>2, <2>3
<1>3. CASE m \in {"GET", "HEAD"} /\ ~VaildPath(p)
  <2>1. e = Reply(403)
    BY <1>3 DEF EchoAnswer
  <2>2. e.status # 200
    BY <2>1, PageFields
  <2>3. ~IsFileHandler(t, m, p)
    BY <1>3 DEF IsFileHandler
  <2> QED
    BY <1>1, <2>2, <2>3
<1>4. CASE m \in {"GET", "HEAD"} /\ VaildPath(p)
  <2>0. e = EchoLooks(t, n)
    BY <1>4, EchoLooksAtOnce
  <2>1. IsFileHandler(t, m, p) <=> IsRegular(t, back)
    BY <1>4 DEF IsFileHandler
  <2>2. q \in Seq(Bytes) /\ q # <<>> /\ Html \in Seq(Bytes) /\ Index \in Seq(Bytes)
    BY AskedIs, HtmlAndIndex
  <2>3. e.status = 200 => \/ LooksRegular(t, n) /\ e = Page(t, n)
                          \/ ~LooksRegular(t, n) /\ LooksHtml(t, n) /\ e = Page(t, n \o Html)
                          \/ ~LooksRegular(t, n) /\ ~LooksHtml(t, n) /\ LooksIndex(t, n) /\ e = Page(t, n \o Index)
    <3>1. Reply(302).status # 200 /\ Reply(404).status # 200
      BY PageFields
    <3> QED
      BY <2>0, <3>1 DEF EchoLooks
  <2>4. /\ LooksRegular(t, n) => e = Page(t, n)
        /\ LooksIndex(t, n) => e = Page(t, n \o Index)
    <3>1. LooksIndex(t, n) => ~LooksRegular(t, n) /\ ~LooksHtml(t, n) /\ ~LooksDirectory(t, n)
      BY DEF LooksIndex, LooksRegular, LooksHtml, LooksDirectory, IsRegular
    <3> QED
      BY <2>0, <3>1 DEF EchoLooks
  <2>5. CASE EndsInSlash(p)
    <3>1. back = Root \o (p \o Index) /\ ~EndsInSlash(back)
      <4>1. back = (Root \o p) \o Index
        BY <2>5 DEF BackPath
      <4>2. (Root \o p) \o Index = Root \o (p \o Index)
        BY <2>2, UnderRoot
      <4>3. Root \o p \in Seq(Bytes)
        BY UnderRoot
      <4>4. ~EndsInSlash((Root \o p) \o Index)
        BY <4>3, HtmlAndIndex
      <4> QED
        BY <4>1, <4>2, <4>4
    <3>2. Walk(t, back) = Walk(t, pi)
      <4>1. PICK r \in Seq(Bytes) : p = r \o <<Slash>>
        BY <2>5, EndsInSlashIs
      <4>2. p \o Index = EndsWith(r, Index)
        BY <4>1 DEF EndsWith
      <4>3. IsPiece(Index)
        BY DEF IsPiece, Index, Dot, Slash, Bytes
      <4>4. split(p, <<Slash>>) = split(r, <<Slash>>)
        BY <4>1, SplitSlashed
      <4>5. split(p \o Index, <<Slash>>) = split(pi, <<Slash>>)
        BY <4>2, <4>3, <4>4, SplitLast
      <4>6. Walk(t, p \o Index) = Walk(t, pi)
        BY <4>5 DEF Walk
      <4>7. p \o Index \in Seq(Bytes)
        BY HtmlAndIndex
      <4> QED
        BY <3>1, <4>6, <4>7, WalkFromRoot
    <3>3. CASE p = <<Slash>>
      <4>1. q = p \o Index
        BY <3>3 DEF Asked
      <4>2. n = back
        BY <3>1, <4>1
      <4>3. ~LooksIndex(t, n)
        BY <3>1, <4>2 DEF LooksIndex
      <4>4. ~LooksHtml(t, n)
        <5>1. Contains(q, Dot)
          BY <3>3, <4>1, IndexHasDot
        <5>2. SubSeq(n, Len(Root) + 1, Len(n)) = q
          BY <2>2, UnderRoot
        <5> HIDE DEF n, q
        <5> QED
          BY <5>1, <5>2 DEF LooksHtml
      <4>5. LooksRegular(t, n) <=> IsRegular(t, back)
        BY <4>2 DEF LooksRegular
      <4>6. CASE IsRegular(t, back)
        <5>1. e = Page(t, back)
          BY <2>4, <4>2, <4>5, <4>6
        <5> QED
          BY <1>1, <2>1, <3>2, <4>6, <5>1, PageFields
      <4>7. CASE ~IsRegular(t, back)
        <5>1. e.status # 200
          BY <2>3, <4>3, <4>4, <4>5, <4>7
        <5> QED
          BY <1>1, <2>1, <4>7, <5>1
      <4> QED
        BY <4>6, <4>7
    <3>4. CASE p # <<Slash>>
      <4>1. q = p
        BY <3>4 DEF Asked
      <4>2. EndsInSlash(n) /\ n \o Index = back
        <5>1. n = Root \o p
          BY <4>1
        <5> QED
          BY <2>2, <2>5, <3>1, <5>1, UnderRoot
      <4>3. ~LooksRegular(t, n) /\ ~LooksHtml(t, n) /\ (LooksIndex(t, n) <=> IsRegular(t, back))
        BY <4>2 DEF LooksRegular, LooksHtml, LooksIndex, IsRegular
      <4>4. CASE IsRegular(t, back)
        <5>1. e = Page(t, back)
          BY <2>4, <4>2, <4>3, <4>4
        <5> QED
          BY <1>1, <2>1, <3>2, <4>4, <5>1, PageFields
      <4>5. CASE ~IsRegular(t, back)
        <5>1. e.status # 200
          BY <2>3, <4>3, <4>5
        <5> QED
          BY <1>1, <2>1, <4>5, <5>1
      <4> QED
        BY <4>4, <4>5
    <3> QED
      BY <3>3, <3>4
  <2>6. CASE ~EndsInSlash(p)
    <3>1. q = p
      <4>1. p # <<Slash>>
        BY <2>6 DEF EndsInSlash, Last
      <4> QED
        BY <4>1 DEF Asked
    <3>2. n = Root \o p /\ back = n /\ n \in Seq(Bytes) /\ ~EndsInSlash(n)
      <4>1. Root \o p \in Seq(Bytes) /\ ~EndsInSlash(Root \o p)
        BY <2>6, UnderRoot
      <4>2. back = (Root \o p) \o <<>>
        BY <2>6 DEF BackPath
      <4>3. (Root \o p) \o <<>> = Root \o p
        BY <4>1, ConcatEmptySeq
      <4> QED
        BY <3>1, <4>1, <4>2, <4>3
    <3>3. LooksRegular(t, n) <=> IsRegular(t, back)
      BY <3>2 DEF LooksRegular
    <3>4. Walk(t, n) = Walk(t, p)
      BY <3>2, WalkFromRoot
    <3>5. CASE IsRegular(t, back)
      <4>1. e = Page(t, back)
        BY <2>4, <3>2, <3>3, <3>5
      <4> QED
        BY <1>1, <2>1, <3>2, <3>4, <3>5, <4>1, PageFields
    <3>6. CASE ~IsRegular(t, back)
      <4>1. ~LooksIndex(t, n)
        BY <3>2 DEF LooksIndex
      <4>2. CASE LooksHtml(t, n)
        <5>1. e = Page(t, n \o Html)
          BY <2>0, <3>3, <3>6, <4>2 DEF EchoLooks
        <5>2. HasPlainName(p)
          <6>1. SubSeq(n, Len(Root) + 1, Len(n)) = p
            BY <3>2, UnderRoot
          <6> HIDE DEF n
          <6> QED
            BY <2>6, <4>2, <6>1 DEF LooksHtml, HasPlainName
        <5>3. PICK v, vh, vi : Names(p, v, vh, vi)
          BY <5>2, PlainNames
        <5>4. n \o Html = Root \o (p \o Html) /\ p \o Html \in Seq(Bytes)
          BY <2>2, <3>2, UnderRoot, HtmlAndIndex
        <5>5. e.file = Walk(t, p \o Html)
          <6>1. e.file = Walk(t, n \o Html)
            BY <5>1, PageFields
          <6>2. Walk(t, Root \o (p \o Html)) = Walk(t, p \o Html)
            BY <5>4, WalkFromRoot
          <6> QED
            BY <5>4, <6>1, <6>2
        <5>6. Walk(t, p \o Html) \in t
          <6>1. Walk(t, n \o Html) \in t
            BY <4>2 DEF LooksHtml, IsRegular
          <6> QED
            BY <5>4, <6>1, WalkFromRoot
        <5>7. Walk(t, p) \notin t
          BY <3>2, <3>4, <3>6 DEF IsRegular
        <5>8. vh # vi
          <6>1. Len(v) \in Nat /\ Len(vh) = Len(v) /\ Len(vi) = Len(v) + 1
            BY <5>3 DEF Names, Places
          <6>2. Len(vh) # Len(vi)
            BY <6>1
          <6> QED
            BY <6>2
        <5>9. Walk(t, p \o Html) # Walk(t, pi)
          <6>1. Walk(t, p \o Html) \in {Outside, vh} /\ Walk(t, pi) \in {Outside, vi}
            BY <5>3, PlainLooks
          <6>2. Outside \notin t
            BY TreeFacts
          <6> QED
            BY <5>6, <5>8, <6>1, <6>2
        <5>10. e.file \notin {Walk(t, p), Walk(t, pi)}
          BY <5>5, <5>6, <5>7, <5>9
        <5> QED
          BY <1>1, <2>1, <3>6, <5>10
      <4>3. CASE ~LooksHtml(t, n)
        <5>1. e.status # 200
          BY <2>3, <3>3, <3>6, <4>1, <4>3
        <5> QED
          BY <1>1, <2>1, <3>6, <5>1
      <4> QED
        BY <4>2, <4>3
    <3> QED
      BY <3>5, <3>6
  <2> QED
    BY <2>5, <2>6
<1> QED
  BY <1>2, <1>3, <1>4

-----------------------------------------------------------------------------
(* What was there is still there when a file was added, and with a file    *)
(* that comes or goes there are two trees, of which one holds the other.   *)
LEMMA RegularMono ==
  ASSUME NEW s \in Trees, NEW b \in Trees, s \subseteq b, NEW name \in Seq(Bytes),
         IsRegular(s, name)
  PROVE  IsRegular(b, name)
<1>1. Walk(s, name) = Outside \/ Walk(s, name) = Walk(b, name)
  BY WalkMono
<1>2. Outside \notin s
  BY TreeFacts
<1> QED
  BY <1>1, <1>2 DEF IsRegular

LEMMA DirectoryMono ==
  ASSUME NEW s \in Trees, NEW b \in Trees, s \subseteq b, NEW name \in Seq(Bytes),
         IsDirectory(s, name)
  PROVE  IsDirectory(b, name)
<1>1. Walk(s, name) = Outside \/ Walk(s, name) = Walk(b, name)
  BY WalkMono
<1>2. ~IsDir(s, Outside)
  BY TreeFacts
<1>3. Walk(s, name) = Walk(b, name) /\ IsDir(s, Walk(s, name))
  BY <1>1, <1>2 DEF IsDirectory
<1>4. IsDir(b, Walk(s, name))
  BY <1>3, DirMono
<1> QED
  BY <1>3, <1>4 DEF IsDirectory

Apart(T, s, b, f) ==
  s \in Trees /\ b \in Trees /\ s \subseteq b /\ b \subseteq s \union {f} /\ T = {s, b}

(* A place is no directory for the sake of its own ".html".                *)
LEMMA SameLevel ==
  ASSUME NEW v \in Places, NEW vh \in Places, Len(vh) = Len(v), vh # v
  PROVE  ~IsStrictPrefix(v, vh)
<1> SUFFICES ASSUME IsPrefix(v, vh) PROVE FALSE
  BY DEF IsStrictPrefix
<1>1. \A i \in 1 .. Len(v) : v[i] = vh[i]
  BY PrefixIs
<1>2. v = vh
  <2> DEFINE S == Seq(Bytes)
  <2>1. v \in Seq(S) /\ vh \in Seq(S)
    BY DEF Places
  <2> HIDE DEF S
  <2> QED
    BY <1>1, <2>1, SeqEqual
<1> QED
  BY <1>2

(* A name without a slash at its end that has a page with ".html".         *)
LEMMA HtmlNames ==
  ASSUME NEW q \in Seq(Bytes), q # <<>>, NEW t, LooksHtml(t, Root \o q)
  PROVE  \E v, vh \in Places :
           /\ Len(vh) = Len(v) /\ vh # v
           /\ ~Contains(SubSeq(Root \o q, Len(Root) + 1, Len(Root \o q)), Dot)
           /\ ~EndsInSlash(Root \o q) /\ ~EndsInSlash(Root \o q \o Html)
           /\ \A u \in Trees :
                /\ LooksRegular(u, Root \o q) <=> v \in u
                /\ LooksHtml(u, Root \o q) <=> vh \in u
                /\ LooksDirectory(u, Root \o q) <=> IsDir(u, v)
                /\ vh \in u => Walk(u, Root \o q \o Html) = vh
<1> DEFINE n == Root \o q
<1>1. /\ n \in Seq(Bytes) /\ SubSeq(n, Len(Root) + 1, Len(n)) = q
      /\ EndsInSlash(n) <=> EndsInSlash(q)
      /\ q \o Html \in Seq(Bytes) /\ n \o Html = Root \o (q \o Html)
  <2>1. Html \in Seq(Bytes) /\ q \o Html \in Seq(Bytes)
    BY HtmlAndIndex
  <2> QED
    BY <2>1, UnderRoot
<1>2. ~EndsInSlash(n \o Html)
  BY <1>1, HtmlAndIndex
<1>3. ~Contains(SubSeq(n, Len(Root) + 1, Len(n)), Dot) /\ ~EndsInSlash(n)
  BY DEF LooksHtml
<1>5. HasPlainName(q)
  <2> HIDE DEF n
  <2> QED
    BY <1>1, <1>3 DEF HasPlainName
<1>6. PICK v, vh, vi : Names(q, v, vh, vi)
  BY <1>5, PlainNames
<1>7. v \in Places /\ vh \in Places /\ Len(vh) = Len(v) /\ vh # v
  BY <1>6 DEF Names
<1>8. ASSUME NEW u \in Trees
      PROVE  /\ LooksRegular(u, n) <=> v \in u
             /\ LooksHtml(u, n) <=> vh \in u
             /\ LooksDirectory(u, n) <=> IsDir(u, v)
             /\ vh \in u => Walk(u, n \o Html) = vh
  <2>1. Walk(u, n) = Walk(u, q) /\ Walk(u, n \o Html) = Walk(u, q \o Html)
    BY <1>1, WalkFromRoot
  <2>2. /\ Walk(u, q \o Html) \in {Outside, vh}
        /\ Walk(u, q) \in u <=> v \in u
        /\ Walk(u, q \o Html) \in u <=> vh \in u
        /\ IsDir(u, Walk(u, q)) <=> IsDir(u, v)
    BY <1>6, PlainLooks
  <2>3. Outside \notin u
    BY TreeFacts
  <2>4. LooksRegular(u, n) <=> v \in u
    BY <1>3, <2>1, <2>2 DEF LooksRegular, IsRegular
  <2>5. LooksHtml(u, n) <=> vh \in u
    BY <1>2, <1>3, <2>1, <2>2 DEF LooksHtml, IsRegular
  <2>6. LooksDirectory(u, n) <=> IsDir(u, v)
    BY <1>3, <2>1, <2>2 DEF LooksDirectory, IsDirectory
  <2>7. vh \in u => Walk(u, n \o Html) = vh
    BY <2>1, <2>2, <2>3
  <2> QED
    BY <2>4, <2>5, <2>6, <2>7
<1> QED
  BY <1>2, <1>3, <1>7, <1>8

LEMMA HtmlIsTimely ==
  ASSUME NEW T, NEW s, NEW b, NEW f, Apart(T, s, b, f), NEW q \in Seq(Bytes), q # <<>>,
         NEW t \in T, NEW t1 \in T, ~LooksRegular(t1, Root \o q),
         NEW t2 \in T, LooksHtml(t2, Root \o q), IsRegular(t, Root \o q \o Html)
  PROVE  \E u \in T : Page(t, Root \o q \o Html) = EchoLooks(u, Root \o q)
<1> DEFINE n == Root \o q
<1>1. PICK v, vh \in Places :
        /\ Len(vh) = Len(v) /\ vh # v
        /\ ~Contains(SubSeq(n, Len(Root) + 1, Len(n)), Dot)
        /\ ~EndsInSlash(n) /\ ~EndsInSlash(n \o Html)
        /\ \A u \in Trees :
             /\ LooksRegular(u, n) <=> v \in u
             /\ LooksHtml(u, n) <=> vh \in u
             /\ LooksDirectory(u, n) <=> IsDir(u, v)
             /\ vh \in u => Walk(u, n \o Html) = vh
  BY HtmlNames
<1>2. s \in Trees /\ b \in Trees /\ s \subseteq b /\ b \subseteq s \union {f} /\ T = {s, b}
  BY DEF Apart
<1>3. LooksHtml(t, n)
  BY <1>1 DEF LooksHtml
<1> HIDE DEF n
<1>4. vh \in t
  BY <1>1, <1>2, <1>3
<1>5. CASE ~LooksRegular(t, n)
  <2>1. EchoLooks(t, n) = Page(t, n \o Html)
    BY <1>3, <1>5 DEF EchoLooks
  <2> QED
    BY <2>1 DEF n
<1>6. CASE LooksRegular(t, n)
  <2>1. v \in t /\ v \notin t1
    BY <1>1, <1>2, <1>6 DEF n
  <2>2. t = b /\ t1 = s /\ v = f
    BY <1>2, <2>1
  <2>3. vh \in s
    BY <1>1, <1>2, <1>4, <2>2
  <2>4. EchoLooks(s, n) = Page(s, n \o Html)
    BY <1>1, <1>2, <2>1, <2>2, <2>3 DEF EchoLooks
  <2>5. Page(s, n \o Html) = Page(t, n \o Html)
    <3>1. Walk(s, n \o Html) = Walk(t, n \o Html)
      BY <1>1, <1>2, <1>4, <2>3
    <3> QED
      BY <3>1 DEF Page
  <2> QED
    BY <1>2, <2>4, <2>5 DEF n
<1> QED
  BY <1>5, <1>6

LEMMA RedirectIsTimely ==
  ASSUME NEW T, NEW s, NEW b, NEW f, Apart(T, s, b, f), NEW q \in Seq(Bytes), q # <<>>,
         NEW t \in T, NEW t2 \in T, ~LooksHtml(t2, Root \o q),
         LooksDirectory(t, Root \o q)
  PROVE  \E u \in T : EchoLooks(u, Root \o q) = Reply(302)
<1> DEFINE n == Root \o q
<1>1. s \in Trees /\ b \in Trees /\ s \subseteq b /\ b \subseteq s \union {f} /\ T = {s, b}
  BY DEF Apart
<1>2. ~LooksRegular(t, n)
  <2>1. IsDir(t, Walk(t, n))
    BY DEF LooksDirectory, IsDirectory
  <2>2. Walk(t, n) \notin t
    BY <1>1, <2>1, TreeFacts
  <2> QED
    BY <2>2 DEF LooksRegular, IsRegular
<1>3. CASE ~LooksHtml(t, n)
  <2>1. EchoLooks(t, n) = Reply(302)
    BY <1>2, <1>3 DEF EchoLooks
  <2> QED
    BY <2>1
<1>4. CASE LooksHtml(t, n)
  <2>1. PICK v, vh \in Places :
          /\ Len(vh) = Len(v) /\ vh # v
          /\ \A u \in Trees :
               /\ LooksRegular(u, n) <=> v \in u
               /\ LooksHtml(u, n) <=> vh \in u
               /\ LooksDirectory(u, n) <=> IsDir(u, v)
    BY <1>4, HtmlNames
  <2>2. vh \in t /\ vh \notin t2 /\ IsDir(t, v)
    BY <1>1, <1>4, <2>1
  <2>3. t = b /\ t2 = s /\ vh = f
    BY <1>1, <2>2
  <2>4. IsDir(s, v)
    <3>1. CASE v = <<>>
      BY <3>1 DEF IsDir
    <3>2. CASE v # <<>>
      <4>1. PICK g \in t : IsStrictPrefix(v, g)
        BY <2>2, <3>2 DEF IsDir
      <4>2. g # vh
        BY <2>1, <4>1, SameLevel
      <4>3. g \in s
        BY <1>1, <2>3, <4>2
      <4> QED
        BY <4>1, <4>3 DEF IsDir
    <3> QED
      BY <3>1, <3>2
  <2>5. v \notin s
    BY <1>1, <2>4, TreeFacts
  <2>6. ~LooksRegular(s, n) /\ ~LooksHtml(s, n) /\ LooksDirectory(s, n)
    BY <1>1, <2>1, <2>2, <2>3, <2>4, <2>5
  <2>7. EchoLooks(s, n) = Reply(302)
    BY <2>6 DEF EchoLooks
  <2> QED
    BY <1>1, <2>7
<1> QED
  BY <1>3, <1>4

LEMMA MissingIsTimely ==
  ASSUME NEW T, NEW s, NEW b, NEW f, Apart(T, s, b, f), NEW q \in Seq(Bytes), q # <<>>,
         NEW t \in T, ~LooksIndex(t, Root \o q),
         NEW t1 \in T, ~LooksRegular(t1, Root \o q),
         NEW t2 \in T, ~LooksHtml(t2, Root \o q),
         NEW t3 \in T, ~LooksDirectory(t3, Root \o q)
  PROVE  \E u \in T : EchoLooks(u, Root \o q) = Reply(404)
<1> DEFINE n == Root \o q
<1>1. s \in Trees /\ b \in Trees /\ s \subseteq b /\ b \subseteq s \union {f} /\ T = {s, b}
  BY DEF Apart
<1>2. n \in Seq(Bytes) /\ n \o Html \in Seq(Bytes)
  <2>1. n \in Seq(Bytes)
    BY UnderRoot
  <2> QED
    BY <2>1, HtmlAndIndex
<1> HIDE DEF n
<1>3. CASE EndsInSlash(n)
  <2>1. ~LooksRegular(t, n) /\ ~LooksHtml(t, n) /\ ~LooksDirectory(t, n)
    BY <1>3 DEF LooksRegular, LooksHtml, LooksDirectory, IsRegular
  <2>2. EchoLooks(t, n) = Reply(404)
    BY <2>1 DEF EchoLooks, n
  <2> QED
    BY <2>2 DEF n
<1>4. CASE ~EndsInSlash(n)
  <2>1. ~LooksRegular(s, n)
    BY <1>1, <1>2, RegularMono DEF LooksRegular, n
  <2>2. ~LooksHtml(s, n)
    BY <1>1, <1>2, RegularMono DEF LooksHtml, n
  <2>3. ~LooksDirectory(s, n)
    BY <1>1, <1>2, DirectoryMono DEF LooksDirectory, n
  <2>4. ~LooksIndex(s, n)
    BY <1>4 DEF LooksIndex
  <2>5. EchoLooks(s, n) = Reply(404)
    BY <2>1, <2>2, <2>3, <2>4 DEF EchoLooks
  <2> QED
    BY <1>1, <2>5 DEF n
<1> QED
  BY <1>3, <1>4

(* The proof of AnswerIsTimely: what the servers have seen so far, and     *)
(* that a file came or went at most once since the request.                *)
ServerInv ==
  /\ server \in {"none", "Http_Server", "HttpServer"}
  /\ pc = "target" => server = "none"
  /\ pc \in {"route", "file"} => server = "Http_Server"
  /\ pc \in {"handle", "regular", "html", "directory", "index", "read"} => server = "HttpServer"

RequestInv ==
  server # "none" =>
    /\ path \in Seq(Bytes) /\ method \in {"GET", "HEAD", "POST"}
    /\ tree \in trees
    /\ \E s, b \in Trees, f \in Files : Apart(trees, s, b, f)

Sought == Root \o Asked(path)

FoundInv ==
  \/ file = Sought /\ \E t \in trees : LooksRegular(t, Sought)
  \/ /\ file = Sought \o Html
     /\ \E t \in trees : ~LooksRegular(t, Sought)
     /\ \E t \in trees : LooksHtml(t, Sought)
  \/ file = Sought \o Index /\ \E t \in trees : LooksIndex(t, Sought)

LooksInv ==
  /\ pc = "file" => file = BackPath(path) /\ \E t \in trees : IsFileHandler(t, method, path)
  /\ pc \in {"regular", "html", "directory", "index", "read"} =>
       method \in {"GET", "HEAD"} /\ VaildPath(path)
  /\ pc \in {"regular", "html", "directory", "index"} => file = Sought
  /\ pc \in {"html", "directory", "index"} => \E t \in trees : ~LooksRegular(t, Sought)
  /\ pc \in {"directory", "index"} => \E t \in trees : ~LooksHtml(t, Sought)
  /\ pc = "index" => \E t \in trees : ~LooksDirectory(t, Sought)
  /\ pc = "read" => FoundInv

TimelyInv == ServerInv /\ RequestInv /\ LooksInv /\ AnswerIsTimely

LEMMA PathIsText ==
  ASSUME NEW text \in Seq(Bytes)
  PROVE  PathOf(text) \in Seq(Bytes)
<1> DEFINE k == QueryStart(text)
           part == IF k = npos THEN text ELSE SubSeq(text, 1, k)
<1>1. part \in Seq(Bytes)
  <2>1. k = npos \/ k \in 1 .. Len(text) - 1
    <3>1. 1 \in Nat
      OBVIOUS
    <3> QED
      BY <3>1, FindIs DEF QueryStart
  <2> HIDE DEF k
  <2>2. CASE k # npos
    <3>1. 1 \in Int /\ k \in Int /\ \A i \in 1 .. k : text[i] \in Bytes
      BY <2>1, <2>2
    <3>2. SubSeq(text, 1, k) \in Seq(Bytes)
      BY <3>1, SubSeqProperties
    <3> QED
      BY <2>2, <3>2
  <2>3. CASE k = npos
    BY <2>3
  <2> QED
    BY <2>2, <2>3
<1>2. PathOf(text) = UrlDecode(part, FALSE)
  BY DEF PathOf
<1> HIDE DEF part
<1>3. 1 \in 1 .. Len(part) + 3
  BY <1>1
<1>4. UrlDecode(part, FALSE) \in Seq(Bytes)
  BY <1>1, <1>3, DecodeUnfolds
<1> QED
  BY <1>2, <1>4

LEMMA TwoTrees ==
  ASSUME NEW s, NEW b, s # b
  PROVE  Cardinality({s, b}) = 2
<1>1. IsFiniteSet({s}) /\ Cardinality({s}) = 1
  BY FS_Singleton
<1>2. Cardinality({s} \cup {b}) = Cardinality({s}) + 1
  BY <1>1, FS_AddElement
<1>3. {s, b} = {s} \cup {b}
  OBVIOUS
<1> QED
  BY <1>1, <1>2, <1>3

LEMMA ChangeMakesPair ==
  ASSUME RequestInv, server # "none", NEW t \in Trees, Change(t)
  PROVE  \E s, b \in Trees, f \in Files : Apart(trees', s, b, f)
<1>1. PICK s0 \in Trees, b0 \in Trees, f0 \in Files : Apart(trees, s0, b0, f0)
  BY DEF RequestInv
<1>2. tree \in trees /\ trees = {s0, b0} /\ tree \in Trees
  BY <1>1 DEF RequestInv, Apart
<1>3. Cardinality(trees) <= 1
  <2>1. Cardinality(trees) <= MaxChanges
    BY DEF Change
  <2>2. Cardinality(trees) \in Nat
    <3>1. IsFiniteSet({s0}) /\ {s0, b0} = {s0} \cup {b0}
      BY FS_Singleton
    <3>2. IsFiniteSet({s0, b0})
      BY <3>1, FS_AddElement
    <3> QED
      BY <1>2, <3>2, FS_CardinalityType
  <2> QED
    BY <2>1, <2>2, TargetAssumption DEF TargetAssumption
<1>4. trees = {tree}
  <2>1. ASSUME s0 # b0 PROVE FALSE
    <3>1. Cardinality({s0, b0}) = 2
      BY <2>1, TwoTrees
    <3> QED
      BY <1>2, <1>3, <3>1
  <2> QED
    BY <1>2, <2>1
<1> DEFINE d == (t \ tree) \union (tree \ t)
<1>5. trees' = {tree, t} /\ Cardinality(d) = 1
  BY <1>4 DEF Change
<1>6. d \subseteq Files
  BY <1>2, TreeFacts
<1>7. PICK x : d = {x}
  <2>1. IsFiniteSet(d)
    BY <1>6, FilesArePlaces, FS_Subset
  <2> QED
    BY <1>5, <2>1, FS_Singleton
<1>8. x \in Files
  BY <1>6, <1>7
<1>9. CASE x \in t
  <2>1. Apart(trees', tree, t, x)
    BY <1>2, <1>5, <1>7, <1>9 DEF Apart
  <2> QED
    BY <1>2, <1>8, <2>1
<1>10. CASE x \notin t
  <2>1. Apart(trees', t, tree, x)
    BY <1>2, <1>5, <1>7, <1>10 DEF Apart
  <2> QED
    BY <1>2, <1>8, <2>1
<1> QED
  BY <1>9, <1>10

(* What AnswerIsTimely asks of an answer.                                  *)
Timely(answer) ==
  \/ server = "Http_Server" /\ path = <<>>
  \/ \E t \in trees :
       answer = IF server = "Http_Server" THEN HttpAnswer(t, method, path)
                ELSE EchoAnswer(t, method, path)
  \/ /\ answer = Reply(IF server = "Http_Server" THEN 404 ELSE 500)
     /\ Cardinality(trees) > 1

LEMMA FinishKeeps ==
  ASSUME TimelyInv, NEW answer, Finish(answer), Timely(answer)
  PROVE  TimelyInv'
<1> USE DEF TimelyInv
<1>1. /\ pc' = "done" /\ reply' = answer /\ server' = server /\ method' = method
      /\ path' = path /\ tree' = tree /\ file' = file /\ trees' = trees
  BY DEF Finish
<1>2. ServerInv'
  BY <1>1 DEF ServerInv
<1>3. RequestInv'
  BY <1>1 DEF RequestInv
<1>4. LooksInv'
  BY <1>1 DEF LooksInv
<1>5. AnswerIsTimely'
  BY <1>1 DEF AnswerIsTimely, Timely
<1> QED
  BY <1>2, <1>3, <1>4, <1>5

LEMMA GoKeeps ==
  ASSUME TimelyInv, NEW label, NEW name, Go(label, name), label # "done",
         LooksInv', ServerInv'
  PROVE  TimelyInv'
<1> USE DEF TimelyInv
<1>1. /\ pc' = label /\ server' = server /\ method' = method
      /\ path' = path /\ tree' = tree /\ trees' = trees
  BY DEF Go
<1>2. RequestInv'
  BY <1>1 DEF RequestInv
<1>3. AnswerIsTimely'
  BY <1>1 DEF AnswerIsTimely
<1> QED
  BY <1>2, <1>3

(* The trees seen since the request, and the looks at them.                *)
LEMMA TreesSeen ==
  ASSUME RequestInv, server # "none"
  PROVE  /\ trees \subseteq Trees /\ tree \in trees
         /\ path \in Seq(Bytes) /\ method \in {"GET", "HEAD", "POST"}
         /\ \A s, b \in trees : s # b => Cardinality(trees) > 1
<1>1. PICK s0 \in Trees, b0 \in Trees, f0 \in Files : Apart(trees, s0, b0, f0)
  BY DEF RequestInv
<1>2. trees = {s0, b0} /\ trees \subseteq Trees
  BY <1>1 DEF Apart
<1>3. ASSUME NEW s \in trees, NEW b \in trees, s # b PROVE Cardinality(trees) > 1
  <2>1. trees = {s, b}
    BY <1>2, <1>3
  <2>2. Cardinality(trees) = 2
    BY <1>3, <2>1, TwoTrees
  <2> QED
    BY <2>2
<1> QED
  BY <1>2, <1>3 DEF RequestInv

LEMMA EchoTimely ==
  ASSUME RequestInv, server = "HttpServer", method \in {"GET", "HEAD"}, VaildPath(path),
         NEW answer, \E t \in trees : answer = EchoLooks(t, Sought)
  PROVE  Timely(answer)
<1>1. PICK t \in trees : answer = EchoLooks(t, Sought)
  OBVIOUS
<1>2. t \in Trees /\ path \in Seq(Bytes)
  BY TreesSeen
<1>3. EchoAnswer(t, method, path) = EchoLooks(t, Sought)
  BY <1>2, EchoLooksAtOnce DEF Sought
<1> QED
  BY <1>1, <1>3 DEF Timely

LEMMA HttpTimely ==
  ASSUME RequestInv, server = "Http_Server", NEW t \in trees
  PROVE  /\ IsFileHandler(t, method, path) => Timely(Page(t, BackPath(path)))
         /\ ~IsFileHandler(t, method, path) => Timely(Dispather(method, path))
<1> SUFFICES ASSUME path # <<>>
             PROVE  /\ IsFileHandler(t, method, path) => Timely(Page(t, BackPath(path)))
                    /\ ~IsFileHandler(t, method, path) => Timely(Dispather(method, path))
  BY DEF Timely
<1>1. t \in Trees /\ path \in Seq(Bytes) /\ method \in {"GET", "HEAD", "POST"} /\ path # <<>>
  BY TreesSeen DEF RequestInv
<1>2. HttpAnswer(t, method, path)
        = IF IsFileHandler(t, method, path) THEN Page(t, BackPath(path)) ELSE Dispather(method, path)
  BY <1>1, HttpLooksAtOnce
<1> QED
  BY <1>2 DEF Timely

-----------------------------------------------------------------------------
(* Every step keeps it.                                                    *)
LEMMA RequestKeeps ==
  ASSUME TextInv, TimelyInv, NEW s \in {"Http_Server", "HttpServer"},
         NEW m \in {"GET", "HEAD", "POST"}, NEW t \in Trees, Request(s, m, t)
  PROVE  TimelyInv'
<1>1. /\ server' = s /\ method' = m /\ tree' = t /\ trees' = {t}
      /\ pc' = IF s = "Http_Server" THEN "route" ELSE "handle"
  BY DEF Request
<1>2. path' \in Seq(Bytes)
  <2>1. PICK text \in Targets(target) : path' = PathOf(text)
    BY DEF Request
  <2>2. PICK i \in 1 .. Len(target), j \in 1 .. Len(target) : text = SubSeq(target, i, j)
    BY DEF Targets
  <2>3. i \in Int /\ j \in Int /\ \A k \in i .. j : target[k] \in Bytes
    BY DEF TextInv
  <2>4. text \in Seq(Bytes)
    BY <2>2, <2>3, SubSeqProperties
  <2> QED
    BY <2>1, <2>4, PathIsText
<1>3. \E a, b \in Trees, f \in Files : Apart(trees', a, b, f)
  <2>1. <<Index>> \in Files
    BY DEF Files
  <2>2. Apart(trees', t, t, <<Index>>)
    BY <1>1 DEF Apart
  <2> QED
    BY <2>1, <2>2
<1>4. ServerInv'
  BY <1>1 DEF ServerInv
<1>5. RequestInv'
  BY <1>1, <1>2, <1>3 DEF RequestInv
<1>6. LooksInv'
  BY <1>1 DEF LooksInv
<1>7. AnswerIsTimely'
  BY <1>1 DEF AnswerIsTimely
<1> QED
  BY <1>4, <1>5, <1>6, <1>7 DEF TimelyInv

LEMMA ChangeKeeps ==
  ASSUME TimelyInv, NEW t \in Trees, Change(t)
  PROVE  TimelyInv'
<1>1. /\ pc \notin {"target", "done"} /\ trees' = trees \union {t} /\ tree' = t
      /\ pc' = pc /\ server' = server /\ method' = method /\ path' = path /\ file' = file
  BY DEF Change
<1>2. ServerInv'
  BY <1>1 DEF TimelyInv, ServerInv
<1>3. RequestInv'
  <2> SUFFICES ASSUME server # "none" PROVE RequestInv'
    BY <1>1 DEF RequestInv
  <2>1. \E a, b \in Trees, f \in Files : Apart(trees', a, b, f)
    BY ChangeMakesPair DEF TimelyInv
  <2> QED
    BY <1>1, <2>1 DEF TimelyInv, RequestInv
<1>4. LooksInv'
  <2>1. Sought' = Sought /\ trees \subseteq trees'
    BY <1>1 DEF Sought
  <2>2. FoundInv => FoundInv'
    BY <1>1, <2>1 DEF FoundInv
  <2> QED
    BY <1>1, <2>1, <2>2 DEF TimelyInv, LooksInv
<1>5. AnswerIsTimely'
  BY <1>1 DEF AnswerIsTimely
<1> QED
  BY <1>2, <1>3, <1>4, <1>5 DEF TimelyInv

(* The answers of Http_Server.                                             *)
LEMMA HttpKeeps ==
  ASSUME TimelyInv, Route \/ FileHandler
  PROVE  TimelyInv'
<1>1. server = "Http_Server" /\ RequestInv
  BY DEF TimelyInv, ServerInv, Route, FileHandler
<1>2. tree \in trees /\ \A s, b \in trees : s # b => Cardinality(trees) > 1
  BY <1>1, TreesSeen
<1>3. CASE Route /\ IsFileHandler(tree, method, path)
  <2>1. Go("file", BackPath(path))
    BY <1>3 DEF Route
  <2>2. ServerInv'
    BY <1>1, <2>1 DEF Go, ServerInv
  <2>3. LooksInv'
    BY <1>2, <1>3, <2>1 DEF Go, LooksInv
  <2> QED
    BY <2>1, <2>2, <2>3, GoKeeps
<1>4. CASE Route /\ ~IsFileHandler(tree, method, path)
  <2>1. Finish(Dispather(method, path))
    BY <1>4 DEF Route
  <2>2. Timely(Dispather(method, path))
    BY <1>1, <1>2, <1>4, HttpTimely
  <2> QED
    BY <2>1, <2>2, FinishKeeps
<1>5. CASE FileHandler
  <2>1. file = BackPath(path) /\ \E t \in trees : IsFileHandler(t, method, path)
    BY <1>5 DEF FileHandler, TimelyInv, LooksInv
  <2>2. CASE IsRegular(tree, file) /\ ReadFile(404)
    <3>1. Finish(Page(tree, file))
      BY <2>2 DEF ReadFile
    <3>2. IsFileHandler(tree, method, path)
      BY <2>1, <2>2 DEF IsFileHandler
    <3>3. Timely(Page(tree, file))
      BY <1>1, <1>2, <2>1, <3>2, HttpTimely
    <3> QED
      BY <3>1, <3>3, FinishKeeps
  <2>3. CASE ~IsRegular(tree, file) /\ ReadFile(404)
    <3>1. Finish(Reply(404))
      BY <2>3 DEF ReadFile
    <3>2. Cardinality(trees) > 1
      BY <1>2, <2>1, <2>3 DEF IsFileHandler
    <3>3. Timely(Reply(404))
      BY <1>1, <3>2 DEF Timely
    <3> QED
      BY <3>1, <3>3, FinishKeeps
  <2>4. CASE path = <<>> /\ ReadRoot
    <3>1. PICK answer : Finish(answer)
      BY <2>4 DEF ReadRoot
    <3>2. Timely(answer)
      BY <1>1, <2>4 DEF Timely
    <3> QED
      BY <3>1, <3>2, FinishKeeps
  <2> QED
    BY <1>5, <2>2, <2>3, <2>4 DEF FileHandler
<1> QED
  BY <1>3, <1>4, <1>5

(* The looks of HttpServer before it has found a name.                     *)
LEMMA HandleKeeps ==
  ASSUME TimelyInv, HandleRequest
  PROVE  TimelyInv'
<1>1. server = "HttpServer" /\ RequestInv
  BY DEF TimelyInv, ServerInv, HandleRequest
<1>2. tree \in trees
  BY <1>1, TreesSeen
<1>3. CASE method \notin {"GET", "HEAD"}
  <2>1. EchoAnswer(tree, method, path) = Reply(405)
    BY <1>3 DEF EchoAnswer
  <2>2. Finish(Reply(405))
    BY <1>3 DEF HandleRequest
  <2>3. Timely(Reply(405))
    BY <1>1, <1>2, <2>1 DEF Timely
  <2> QED
    BY <2>2, <2>3, FinishKeeps
<1>4. CASE method \in {"GET", "HEAD"} /\ ~VaildPath(path)
  <2>1. EchoAnswer(tree, method, path) = Reply(403)
    BY <1>4 DEF EchoAnswer
  <2>2. Finish(Reply(403))
    BY <1>4 DEF HandleRequest
  <2>3. Timely(Reply(403))
    BY <1>1, <1>2, <2>1 DEF Timely
  <2> QED
    BY <2>2, <2>3, FinishKeeps
<1>5. CASE method \in {"GET", "HEAD"} /\ VaildPath(path)
  <2>1. Go("regular", Sought)
    BY <1>5 DEF HandleRequest, Sought, Asked
  <2>2. ServerInv'
    BY <1>1, <2>1 DEF Go, ServerInv
  <2>3. Sought' = Sought
    BY <2>1 DEF Go, Sought
  <2>4. LooksInv'
    BY <1>5, <2>1, <2>3 DEF Go, LooksInv
  <2> QED
    BY <2>1, <2>2, <2>4, GoKeeps
<1> QED
  BY <1>3, <1>4, <1>5

LEMMA EchoSeeks ==
  ASSUME TimelyInv, pc \in {"regular", "html", "directory", "index", "read"}
  PROVE  /\ server = "HttpServer" /\ RequestInv /\ tree \in trees
         /\ method \in {"GET", "HEAD"} /\ VaildPath(path)
         /\ Asked(path) \in Seq(Bytes) /\ Asked(path) # <<>>
         /\ \E s, b \in Trees, f \in Files : Apart(trees, s, b, f)
<1>1. server = "HttpServer" /\ RequestInv /\ method \in {"GET", "HEAD"} /\ VaildPath(path)
  BY DEF TimelyInv, ServerInv, LooksInv
<1>2. tree \in trees /\ path \in Seq(Bytes) /\ \E s, b \in Trees, f \in Files : Apart(trees, s, b, f)
  BY <1>1 DEF RequestInv
<1> QED
  BY <1>1, <1>2, AskedIs

LEMMA SeekingKeeps ==
  ASSUME TimelyInv, NEW label \in {"html", "directory", "index", "read"}, NEW name, Go(label, name),
         pc \in {"regular", "html", "directory", "index"},
         label # "read" => name = file,
         label = "html" => ~LooksRegular(tree, Sought),
         label = "directory" => pc = "html" /\ ~LooksHtml(tree, Sought),
         label = "index" => pc = "directory" /\ ~LooksDirectory(tree, Sought),
         label = "read" =>
           \/ name = Sought /\ LooksRegular(tree, Sought)
           \/ pc = "html" /\ name = Sought \o Html /\ LooksHtml(tree, Sought)
           \/ name = Sought \o Index /\ LooksIndex(tree, Sought)
  PROVE  TimelyInv'
<1>1. /\ server = "HttpServer" /\ tree \in trees /\ method \in {"GET", "HEAD"} /\ VaildPath(path)
  BY EchoSeeks
<1>2. /\ pc' = label /\ file' = name /\ server' = server /\ method' = method /\ path' = path
      /\ trees' = trees /\ tree' = tree
  BY DEF Go
<1>3. Sought' = Sought
  BY <1>2 DEF Sought
<1>4. /\ file = Sought
      /\ pc \in {"html", "directory", "index"} => \E t \in trees : ~LooksRegular(t, Sought)
      /\ pc \in {"directory", "index"} => \E t \in trees : ~LooksHtml(t, Sought)
  BY DEF TimelyInv, LooksInv
<1>5. ServerInv'
  BY <1>1, <1>2 DEF ServerInv
<1>6. label = "read" => FoundInv'
  BY <1>1, <1>2, <1>3, <1>4 DEF FoundInv
<1>7. LooksInv'
  BY <1>1, <1>2, <1>3, <1>4, <1>6 DEF LooksInv
<1> QED
  BY <1>5, <1>7, GoKeeps

LEMMA SeekKeeps ==
  ASSUME TimelyInv, TryRegular \/ TryHtml \/ TryDirectory \/ TryIndex
  PROVE  TimelyInv'
<1>1. pc \in {"regular", "html", "directory", "index"} /\ file = Sought
  BY DEF TryRegular, TryHtml, TryDirectory, TryIndex, TimelyInv, LooksInv
<1>2. CASE TryRegular
  <2>1. CASE LooksRegular(tree, file)
    BY <1>1, <1>2, <2>1, SeekingKeeps DEF TryRegular, LooksRegular
  <2>2. CASE ~LooksRegular(tree, file)
    BY <1>1, <1>2, <2>2, SeekingKeeps DEF TryRegular, LooksRegular
  <2> QED
    BY <2>1, <2>2
<1>3. CASE TryHtml
  <2>1. CASE LooksHtml(tree, file)
    <3>1. pc = "html" /\ Go("read", file \o Html)
      BY <1>3, <2>1 DEF TryHtml, LooksHtml
    <3> QED
      BY <1>1, <2>1, <3>1, SeekingKeeps
  <2>2. CASE ~LooksHtml(tree, file)
    <3>1. pc = "html" /\ Go("directory", file)
      BY <1>3, <2>2 DEF TryHtml, LooksHtml
    <3> QED
      BY <1>1, <2>2, <3>1, SeekingKeeps
  <2> QED
    BY <2>1, <2>2
<1>4. CASE TryDirectory
  <2>1. CASE LooksDirectory(tree, file)
    <3>1. Finish(Reply(302)) /\ pc = "directory"
      BY <1>4, <2>1 DEF TryDirectory, LooksDirectory
    <3>2. PICK t2 \in trees : ~LooksHtml(t2, Sought)
      BY <3>1 DEF TimelyInv, LooksInv
    <3>3. PICK s \in Trees, b \in Trees, f \in Files : Apart(trees, s, b, f)
      BY <1>1, EchoSeeks
    <3>4. Asked(path) \in Seq(Bytes) /\ Asked(path) # <<>> /\ tree \in trees
      BY <1>1, EchoSeeks
    <3>5. \E u \in trees : EchoLooks(u, Sought) = Reply(302)
      BY <1>1, <2>1, <3>2, <3>3, <3>4, RedirectIsTimely DEF Sought
    <3>6. Timely(Reply(302))
      BY <1>1, <3>5, EchoSeeks, EchoTimely
    <3> QED
      BY <3>1, <3>6, FinishKeeps
  <2>2. CASE ~LooksDirectory(tree, file)
    <3>1. pc = "directory" /\ Go("index", file)
      BY <1>4, <2>2 DEF TryDirectory, LooksDirectory
    <3> QED
      BY <1>1, <2>2, <3>1, SeekingKeeps
  <2> QED
    BY <2>1, <2>2
<1>5. CASE TryIndex
  <2>1. CASE LooksIndex(tree, file)
    <3>1. Go("read", file \o Index)
      BY <1>5, <2>1 DEF TryIndex, LooksIndex
    <3> QED
      BY <1>1, <2>1, <3>1, SeekingKeeps
  <2>2. CASE ~LooksIndex(tree, file)
    <3>1. Finish(Reply(404)) /\ pc = "index"
      BY <1>5, <2>2 DEF TryIndex, LooksIndex
    <3>2. PICK t1 \in trees, t2 \in trees, t3 \in trees :
            ~LooksRegular(t1, Sought) /\ ~LooksHtml(t2, Sought) /\ ~LooksDirectory(t3, Sought)
      BY <3>1 DEF TimelyInv, LooksInv
    <3>3. PICK s \in Trees, b \in Trees, f \in Files : Apart(trees, s, b, f)
      BY <1>1, EchoSeeks
    <3>4. Asked(path) \in Seq(Bytes) /\ Asked(path) # <<>> /\ tree \in trees
      BY <1>1, EchoSeeks
    <3>5. \E u \in trees : EchoLooks(u, Sought) = Reply(404)
      BY <1>1, <2>2, <3>2, <3>3, <3>4, MissingIsTimely DEF Sought
    <3>6. Timely(Reply(404))
      BY <1>1, <3>5, EchoSeeks, EchoTimely
    <3> QED
      BY <3>1, <3>6, FinishKeeps
  <2> QED
    BY <2>1, <2>2
<1> QED
  BY <1>2, <1>3, <1>4, <1>5

(* What was found is read, or is gone.                                     *)
LEMMA FoundIsTimely ==
  ASSUME TimelyInv, pc = "read", IsRegular(tree, file)
  PROVE  \E u \in trees : Page(tree, file) = EchoLooks(u, Sought)
<1>1. FoundInv /\ tree \in trees
  BY EchoSeeks DEF TimelyInv, LooksInv
<1>2. CASE file = Sought
  <2>1. Page(tree, file) = EchoLooks(tree, Sought)
    BY <1>2 DEF EchoLooks, LooksRegular
  <2> QED
    BY <1>1, <2>1
<1>3. CASE /\ file = Sought \o Html
           /\ \E t \in trees : ~LooksRegular(t, Sought)
           /\ \E t \in trees : LooksHtml(t, Sought)
  <2>1. PICK t1 \in trees, t2 \in trees : ~LooksRegular(t1, Sought) /\ LooksHtml(t2, Sought)
    BY <1>3
  <2>2. PICK s \in Trees, b \in Trees, f \in Files : Apart(trees, s, b, f)
    BY EchoSeeks
  <2>3. Asked(path) \in Seq(Bytes) /\ Asked(path) # <<>>
    BY EchoSeeks
  <2> QED
    BY <1>1, <1>3, <2>1, <2>2, <2>3, HtmlIsTimely DEF Sought
<1>4. CASE file = Sought \o Index /\ \E t \in trees : LooksIndex(t, Sought)
  <2>1. EndsInSlash(Sought)
    BY <1>4 DEF LooksIndex
  <2>2. /\ ~LooksRegular(tree, Sought) /\ ~LooksHtml(tree, Sought) /\ ~LooksDirectory(tree, Sought)
        /\ LooksIndex(tree, Sought)
    BY <1>4, <2>1 DEF LooksRegular, LooksHtml, LooksDirectory, LooksIndex, IsRegular
  <2>3. Page(tree, file) = EchoLooks(tree, Sought)
    BY <1>4, <2>2 DEF EchoLooks
  <2> QED
    BY <1>1, <2>3
<1> QED
  BY <1>1, <1>2, <1>3, <1>4 DEF FoundInv

LEMMA ReadKeeps ==
  ASSUME TimelyInv, Read
  PROVE  TimelyInv'
<1>1. pc = "read"
  BY DEF Read
<1>2. /\ server = "HttpServer" /\ RequestInv /\ tree \in trees
      /\ method \in {"GET", "HEAD"} /\ VaildPath(path)
  BY <1>1, EchoSeeks
<1>3. CASE IsRegular(tree, file)
  <2>1. Finish(Page(tree, file))
    BY <1>3 DEF Read, ReadFile
  <2>2. Timely(Page(tree, file))
    BY <1>1, <1>2, <1>3, FoundIsTimely, EchoTimely
  <2> QED
    BY <2>1, <2>2, FinishKeeps
<1>4. CASE ~IsRegular(tree, file)
  <2>1. Finish(Reply(500))
    BY <1>4 DEF Read, ReadFile
  <2>2. \E t \in trees : IsRegular(t, file)
    BY <1>1 DEF TimelyInv, LooksInv, FoundInv, LooksRegular, LooksHtml, LooksIndex
  <2>3. Cardinality(trees) > 1
    BY <1>2, <1>4, <2>2, TreesSeen
  <2>4. Timely(Reply(500))
    BY <1>2, <2>3 DEF Timely
  <2> QED
    BY <2>1, <2>4, FinishKeeps
<1> QED
  BY <1>3, <1>4

(* Where no request is being handled there is nothing to keep.             *)
LEMMA IdleKeeps ==
  ASSUME TimelyInv, \/ \E piece \in Pieces : Extend(piece)
                    \/ Refuse \/ Again \/ UNCHANGED vars
  PROVE  TimelyInv'
<1>1. CASE \/ \E piece \in Pieces : Extend(piece)
           \/ Refuse \/ Again
  <2>1. server' = "none" /\ pc' \in {"target", "done"}
    BY <1>1 DEF TimelyInv, ServerInv, Extend, Refuse, Again
  <2> QED
    BY <2>1 DEF TimelyInv, ServerInv, RequestInv, LooksInv, AnswerIsTimely
<1>2. CASE UNCHANGED vars
  BY <1>2 DEF vars, TimelyInv, ServerInv, RequestInv, LooksInv, FoundInv, Sought, AnswerIsTimely
<1> QED
  BY <1>1, <1>2

(* Http_Server looks twice and HttpServer up to five times, and a file may *)
(* come or go in between: the answer is one that a single look would have  *)
(* given before or after that, or a failed read of a file that had been    *)
(* there.                                                                  *)
THEOREM AnswersAreTimely == Spec => []AnswerIsTimely
<1>1. Init => TimelyInv
  <2> SUFFICES ASSUME Init PROVE TimelyInv
    OBVIOUS
  <2>1. server = "none" /\ pc = "target"
    BY DEF Init
  <2> QED
    BY <2>1 DEF TimelyInv, ServerInv, RequestInv, LooksInv, AnswerIsTimely
<1>2. TextInv /\ TimelyInv /\ [Next]_vars => TimelyInv'
  <2> SUFFICES ASSUME TextInv, TimelyInv, [Next]_vars PROVE TimelyInv'
    OBVIOUS
  <2>1. CASE \/ \E piece \in Pieces : Extend(piece)
             \/ Refuse \/ Again \/ UNCHANGED vars
    BY <2>1, IdleKeeps
  <2>2. CASE \E s \in {"Http_Server", "HttpServer"}, m \in {"GET", "HEAD", "POST"}, t \in Trees :
               Request(s, m, t)
    BY <2>2, RequestKeeps
  <2>3. CASE \E t \in Trees : Change(t)
    BY <2>3, ChangeKeeps
  <2>4. CASE Route \/ FileHandler
    BY <2>4, HttpKeeps
  <2>5. CASE HandleRequest
    BY <2>5, HandleKeeps
  <2>6. CASE TryRegular \/ TryHtml \/ TryDirectory \/ TryIndex
    BY <2>6, SeekKeeps
  <2>7. CASE Read
    BY <2>7, ReadKeeps
  <2> QED
    BY <2>1, <2>2, <2>3, <2>4, <2>5, <2>6, <2>7 DEF Next
<1>3. TimelyInv => AnswerIsTimely
  BY DEF TimelyInv
<1> QED
  BY <1>1, <1>2, <1>3, TextCorrect, PTL DEF Spec
=============================================================================
