---------------------------- MODULE BufferProofs ----------------------------
(***************************************************************************)
(* Theorems about Buffer for every size of the first vector and every      *)
(* length of writes.                                                       *)
(***************************************************************************)
EXTENDS Buffer, Integers, SequenceTheorems, TLAPS

(* A new buffer is a valid one that holds nothing. *)
LEMMA NewIsBuffer ==
  IsBuffer(NewBuffer) /\ Contents(NewBuffer) = <<>>
  <1>1. IsBuffer(NewBuffer)
    BY BufferAssumption DEF BufferAssumption, IsBuffer, NewBuffer
  <1>2. Contents(NewBuffer) = <<>>
    BY DEF Contents, NewBuffer, CurrentEnableReadSpaceSize
  <1>. QED  BY <1>1, <1>2

(* The readable bytes of a valid buffer are a sequence of bytes. *)
LEMMA ContentsType ==
  ASSUME NEW b, IsBuffer(b)
  PROVE  /\ Contents(b) \in Seq(Bytes)
         /\ Len(Contents(b)) = CurrentEnableReadSpaceSize(b)
         /\ CurrentEnableReadSpaceSize(b) \in Nat
         /\ \A i \in 1 .. Len(Contents(b)) : Contents(b)[i] = b.cells[b.read_index + i - 1]
  <1>. DEFINE n == CurrentEnableReadSpaceSize(b)
  <1>1. n \in Nat /\ n = b.write_index - b.read_index
    BY DEF IsBuffer, CurrentEnableReadSpaceSize
  <1>2. ASSUME NEW i \in 1 .. n  PROVE b.cells[b.read_index + i - 1] \in Bytes
    <2>1. b.read_index + i - 1 \in 0 .. b.size - 1
      BY <1>1, <1>2 DEF IsBuffer
    <2>. QED  BY <2>1 DEF IsBuffer
  <1>3. Contents(b) = [i \in 1 .. n |-> b.cells[b.read_index + i - 1]]
    BY DEF Contents
  <1>. HIDE DEF n
  <1>. QED  BY <1>1, <1>2, <1>3 DEF n

(* EnsureWriteSpaceSize keeps the contents and makes the room it is asked  *)
(* for; it grows the vector only when there is too little free space on    *)
(* both sides together.                                                    *)
LEMMA RoomIsMade ==
  ASSUME NEW b, IsBuffer(b), NEW len \in Nat,
         NEW e, e = EnsureWriteSpaceSize(b, len)
  PROVE  /\ IsBuffer(e)
         /\ Contents(e) = Contents(b)
         /\ CurrentEnableReadSpaceSize(e) = CurrentEnableReadSpaceSize(b)
         /\ len <= GetTailIdleSpaceSize(e)
         /\ \/ e.size = b.size
            \/ e.size = b.write_index + len /\ b.read_index < len
  <1>. USE DEF GetTailIdleSpaceSize, GetHeadIdleSpaceSize, CurrentEnableReadSpaceSize
  <1>1. CASE len <= GetTailIdleSpaceSize(b)
    BY <1>1 DEF EnsureWriteSpaceSize
  <1>2. CASE ~(len <= GetTailIdleSpaceSize(b)) /\ len <= GetTailIdleSpaceSize(b) + GetHeadIdleSpaceSize(b)
    <2>1. e = Compacted(b)
      BY <1>2 DEF EnsureWriteSpaceSize
    <2>2. e.size = b.size /\ e.read_index = 0 /\ e.write_index = b.write_index - b.read_index
      BY <2>1 DEF Compacted
    <2>3. ASSUME NEW i \in 0 .. b.size - 1
          PROVE  /\ e.cells[i] = IF i < b.write_index - b.read_index
                                 THEN b.cells[b.read_index + i] ELSE b.cells[i]
                 /\ e.cells[i] \in Bytes
      <3>1. e.cells[i] = IF i < b.write_index - b.read_index
                         THEN b.cells[b.read_index + i] ELSE b.cells[i]
        BY <2>1 DEF Compacted
      <3>2. i < b.write_index - b.read_index => b.read_index + i \in 0 .. b.size - 1
        BY DEF IsBuffer
      <3>. QED  BY <3>1, <3>2 DEF IsBuffer
    <2>4. IsBuffer(e)
      <3>1. e.cells \in [0 .. e.size - 1 -> Bytes]
        <4>1. e.cells = [i \in 0 .. b.size - 1 |-> e.cells[i]]
          BY <2>1 DEF Compacted
        <4>. QED  BY <4>1, <2>2, <2>3
      <3>2. e = [cells |-> e.cells, size |-> e.size, read_index |-> e.read_index,
                 write_index |-> e.write_index]
        BY <2>1 DEF Compacted
      <3>3. e.size \in Nat /\ e.read_index \in Nat /\ e.write_index \in Nat
        BY <2>2 DEF IsBuffer
      <3>4. e.read_index <= e.write_index /\ e.write_index <= e.size
        BY <2>2 DEF IsBuffer
      <3>5. e \in [cells : [0 .. e.size - 1 -> Bytes], size : Nat,
                   read_index : Nat, write_index : Nat]
        BY <3>1, <3>2, <3>3, Zenon
      <3>. QED  BY <3>3, <3>4, <3>5 DEF IsBuffer
    <2>5. Contents(e) = Contents(b)
      <3>1. ASSUME NEW i \in 1 .. b.write_index - b.read_index
            PROVE  e.cells[e.read_index + i - 1] = b.cells[b.read_index + i - 1]
        <4>1. i - 1 \in 0 .. b.size - 1 /\ i - 1 < b.write_index - b.read_index
          BY <3>1 DEF IsBuffer
        <4>2. e.cells[i - 1] = b.cells[b.read_index + (i - 1)]
          BY <4>1, <2>3
        <4>3. e.read_index + i - 1 = i - 1 /\ b.read_index + (i - 1) = b.read_index + i - 1
          BY <2>2 DEF IsBuffer
        <4>. QED  BY <4>2, <4>3
      <3>2. CurrentEnableReadSpaceSize(e) = b.write_index - b.read_index
        BY <2>2 DEF IsBuffer
      <3>. QED  BY <3>1, <3>2 DEF Contents
    <2>. QED  BY <1>2, <2>2, <2>4, <2>5 DEF IsBuffer
  <1>3. CASE ~(len <= GetTailIdleSpaceSize(b) + GetHeadIdleSpaceSize(b))
    <2>1. e = Resized(b, b.write_index + len)
      BY <1>3 DEF EnsureWriteSpaceSize, IsBuffer
    <2>2. /\ e.size = b.write_index + len /\ e.read_index = b.read_index
          /\ e.write_index = b.write_index
      BY <2>1 DEF Resized
    <2>3. b.size <= e.size /\ e.size \in Nat /\ b.read_index < len
      BY <1>3, <2>2 DEF IsBuffer
    <2>4. ASSUME NEW i \in 0 .. e.size - 1
          PROVE  /\ i < b.size => e.cells[i] = b.cells[i]
                 /\ e.cells[i] \in Bytes
      <3>1. e.cells[i] = IF i < b.size THEN b.cells[i] ELSE Zero
        BY <2>1, <2>2 DEF Resized
      <3>. QED  BY <3>1, BufferAssumption DEF BufferAssumption, IsBuffer
    <2>5. IsBuffer(e)
      <3>1. e.cells \in [0 .. e.size - 1 -> Bytes]
        <4>1. e.cells = [i \in 0 .. e.size - 1 |-> e.cells[i]]
          BY <2>1, <2>2 DEF Resized
        <4>. QED  BY <4>1, <2>4
      <3>2. e = [cells |-> e.cells, size |-> e.size, read_index |-> e.read_index,
                 write_index |-> e.write_index]
        BY <2>1 DEF Resized
      <3>3. e.read_index \in Nat /\ e.write_index \in Nat
        BY <2>2 DEF IsBuffer
      <3>4. e.read_index <= e.write_index /\ e.write_index <= e.size
        BY <2>2, <2>3 DEF IsBuffer
      <3>5. e \in [cells : [0 .. e.size - 1 -> Bytes], size : Nat,
                   read_index : Nat, write_index : Nat]
        BY <2>3, <3>1, <3>2, <3>3, Zenon
      <3>. QED  BY <2>3, <3>4, <3>5 DEF IsBuffer
    <2>6. Contents(e) = Contents(b)
      <3>1. ASSUME NEW i \in 1 .. b.write_index - b.read_index
            PROVE  e.cells[e.read_index + i - 1] = b.cells[b.read_index + i - 1]
        <4>1. b.read_index + i - 1 \in 0 .. b.size - 1
          BY <3>1 DEF IsBuffer
        <4>2. b.read_index + i - 1 \in 0 .. e.size - 1 /\ b.read_index + i - 1 < b.size
          BY <4>1, <2>3 DEF IsBuffer
        <4>3. e.cells[b.read_index + i - 1] = b.cells[b.read_index + i - 1]
          BY <4>2, <2>4
        <4>. QED  BY <4>3, <2>2
      <3>. QED  BY <2>2, <3>1 DEF Contents
    <2>. QED  BY <2>2, <2>3, <2>5, <2>6 DEF IsBuffer
  <1>. QED  BY <1>1, <1>2, <1>3 DEF IsBuffer

(* Appending s to a valid buffer succeeds, whatever room it has, and puts  *)
(* s behind the contents.                                                  *)
LEMMA AppendAppends ==
  ASSUME NEW b, IsBuffer(b), NEW s \in Seq(Bytes),
         NEW a, a = Appended(b, s)
  PROVE  /\ IsBuffer(a)
         /\ Fits(b, s)
         /\ Contents(a) = Contents(b) \o s
         /\ CurrentEnableReadSpaceSize(a) = CurrentEnableReadSpaceSize(b) + Len(s)
         /\ \/ a.size = b.size
            \/ a.size < 2 * CurrentEnableReadSpaceSize(a)
  <1>. DEFINE n == Len(s)
              e == EnsureWriteSpaceSize(b, n)
              w == Write(b, s)
  <1>1. n \in Nat
    OBVIOUS
  <1>2. /\ IsBuffer(e) /\ Contents(e) = Contents(b)
        /\ CurrentEnableReadSpaceSize(e) = CurrentEnableReadSpaceSize(b)
        /\ n <= GetTailIdleSpaceSize(e)
        /\ e.size = b.size \/ (e.size = b.write_index + n /\ b.read_index < n)
    BY <1>1, RoomIsMade
  <1>3. w = [e EXCEPT !.cells = [i \in 0 .. e.size - 1 |->
              IF e.write_index <= i /\ i < e.write_index + n
              THEN s[i - e.write_index + 1] ELSE e.cells[i]]]
    BY DEF Write
  <1>4. a = [w EXCEPT !.write_index = @ + n]
    BY DEF Appended, MoveWritePosition
  <1>. HIDE DEF e, w, n
  <1>5. /\ w.size = e.size /\ w.read_index = e.read_index /\ w.write_index = e.write_index
        /\ a.size = e.size /\ a.read_index = e.read_index /\ a.write_index = e.write_index + n
        /\ a.cells = w.cells
        /\ w.cells = [i \in 0 .. e.size - 1 |->
              IF e.write_index <= i /\ i < e.write_index + n
              THEN s[i - e.write_index + 1] ELSE e.cells[i]]
    BY <1>2, <1>3, <1>4 DEF IsBuffer
  <1>6. Fits(b, s)
    BY <1>2, <1>5 DEF Fits, GetTailIdleSpaceSize, w, n
  <1>7. ASSUME NEW i \in 0 .. e.size - 1
        PROVE  /\ i < e.write_index => a.cells[i] = e.cells[i]
               /\ \A k \in 1 .. n : i = e.write_index + k - 1 => a.cells[i] = s[k]
               /\ a.cells[i] \in Bytes
    <2>1. a.cells[i] = IF e.write_index <= i /\ i < e.write_index + n
                       THEN s[i - e.write_index + 1] ELSE e.cells[i]
      BY <1>5
    <2>2. e.cells[i] \in Bytes /\ e.write_index \in Nat
      BY <1>2 DEF IsBuffer
    <2>3. ASSUME e.write_index <= i /\ i < e.write_index + n
          PROVE  i - e.write_index + 1 \in 1 .. n /\ s[i - e.write_index + 1] \in Bytes
      <3>1. i - e.write_index + 1 \in 1 .. n
        BY <1>1, <2>2, <2>3
      <3>. QED  BY <3>1 DEF n
    <2>4. ASSUME NEW k \in 1 .. n, i = e.write_index + k - 1
          PROVE  a.cells[i] = s[k]
      BY <1>1, <2>1, <2>2, <2>4
    <2>. QED  BY <1>1, <2>1, <2>2, <2>3, <2>4
  <1>8. IsBuffer(a)
    <2>1. a.cells \in [0 .. a.size - 1 -> Bytes]
      <3>1. a.cells = [i \in 0 .. e.size - 1 |-> a.cells[i]]
        BY <1>5
      <3>. QED  BY <3>1, <1>5, <1>7
    <2>2. a = [cells |-> a.cells, size |-> a.size, read_index |-> a.read_index,
               write_index |-> a.write_index]
      BY <1>2, <1>3, <1>4 DEF IsBuffer
    <2>3. a.size \in Nat /\ a.read_index \in Nat /\ a.write_index \in Nat
      BY <1>1, <1>2, <1>5 DEF IsBuffer
    <2>4. a.read_index <= a.write_index /\ a.write_index <= a.size
      BY <1>1, <1>2, <1>5 DEF IsBuffer, GetTailIdleSpaceSize
    <2>5. a \in [cells : [0 .. a.size - 1 -> Bytes], size : Nat,
                 read_index : Nat, write_index : Nat]
      BY <2>1, <2>2, <2>3, Zenon
    <2>. QED  BY <2>3, <2>4, <2>5 DEF IsBuffer
  <1>9. CurrentEnableReadSpaceSize(a) = CurrentEnableReadSpaceSize(b) + n
    BY <1>1, <1>2, <1>5 DEF CurrentEnableReadSpaceSize, IsBuffer
  <1>10. Contents(a) = Contents(b) \o s
    <2>. DEFINE m == CurrentEnableReadSpaceSize(b)
    <2>1. /\ Len(Contents(a)) = m + n /\ Len(Contents(e)) = m /\ m \in Nat
          /\ Contents(a) \in Seq(Bytes) /\ Contents(e) \in Seq(Bytes)
      BY <1>2, <1>8, <1>9, ContentsType
    <2>2. m = e.write_index - e.read_index
      BY <1>2 DEF CurrentEnableReadSpaceSize
    <2>. HIDE DEF m
    <2>5. /\ e.read_index \in Nat /\ e.write_index \in Nat /\ e.size \in Nat
          /\ e.write_index = e.read_index + m /\ e.write_index + n <= e.size
      <3>1. e.read_index \in Nat /\ e.write_index \in Nat /\ e.size \in Nat
        BY <1>2 DEF IsBuffer
      <3>2. n <= e.size - e.write_index
        BY <1>2 DEF GetTailIdleSpaceSize
      <3>3. m \in Nat
        BY <2>1
      <3>. QED  BY <1>1, <2>2, <3>1, <3>2, <3>3
    <2>3. ASSUME NEW i \in 1 .. m + n
          PROVE  Contents(a)[i] = (Contents(e) \o s)[i]
      <3>1. Contents(a)[i] = a.cells[e.read_index + i - 1]
        <4>1. i \in 1 .. Len(Contents(a)) /\ a.read_index = e.read_index
          BY <1>5, <2>1
        <4>. QED  BY <1>8, <4>1, ContentsType
      <3>2. e.read_index + i - 1 \in 0 .. e.size - 1
        <4>1. m \in Nat /\ i \in Int /\ 1 <= i /\ i <= m + n
          BY <1>1, <2>1
        <4>2. 0 <= e.read_index + i - 1 /\ e.read_index + i - 1 < e.size
          BY <1>1, <2>5, <4>1
        <4>. QED  BY <2>5, <4>1, <4>2
      <3>3. CASE i <= m
        <4>1. e.read_index + i - 1 < e.write_index
          BY <1>1, <2>1, <2>5, <3>3
        <4>2. Contents(e)[i] = e.cells[e.read_index + i - 1]
          BY <1>2, <2>1, <3>3, ContentsType
        <4>3. (Contents(e) \o s)[i] = Contents(e)[i]
          BY <2>1, <3>3
        <4>. QED  BY <1>7, <3>1, <3>2, <4>1, <4>2, <4>3
      <3>4. CASE i > m
        <4>1. i - m \in 1 .. n /\ e.read_index + i - 1 = e.write_index + (i - m) - 1
          BY <1>1, <2>1, <2>5, <3>4
        <4>2. (Contents(e) \o s)[i] = s[i - m]
          BY <2>1, <3>4 DEF n
        <4>. QED  BY <1>7, <3>1, <3>2, <4>1, <4>2
      <3>5. i <= m \/ i > m
        <4>1. i \in Int /\ m \in Int
          BY <1>1, <2>1
        <4>. QED  BY <4>1
      <3>. QED  BY <3>3, <3>4, <3>5, Zenon
    <2>4. Contents(e) \o s \in Seq(Bytes) /\ Len(Contents(e) \o s) = m + n
      BY <2>1 DEF n
    <2>6. Contents(a) \in Seq(Bytes) /\ Len(Contents(a)) = m + n
      BY <2>1
    <2>7. Contents(a) = Contents(e) \o s
      BY <2>3, <2>4, <2>6, SeqEqual
    <2>. QED  BY <1>2, <2>7
  <1>11. a.size = b.size \/ a.size < 2 * CurrentEnableReadSpaceSize(a)
    <2>1. CASE e.size = b.size
      BY <1>5, <2>1
    <2>2. CASE e.size = b.write_index + n /\ b.read_index < n
      <3>1. b.read_index \in Nat /\ b.write_index \in Nat
        BY DEF IsBuffer
      <3>2. CurrentEnableReadSpaceSize(a) = b.write_index - b.read_index + n
        BY <1>9 DEF CurrentEnableReadSpaceSize
      <3>3. b.read_index <= b.write_index /\ a.size = b.write_index + n
        BY <1>5, <2>2 DEF IsBuffer
      <3>. QED  BY <1>1, <2>2, <3>1, <3>2, <3>3
    <2>. QED  BY <1>2, <2>1, <2>2
  <1>. QED  BY <1>6, <1>8, <1>9, <1>10, <1>11 DEF n

(* Reading len bytes takes the first len of the contents. *)
LEMMA ReadTakes ==
  ASSUME NEW b, IsBuffer(b), NEW len \in 0 .. CurrentEnableReadSpaceSize(b),
         NEW a, a = MoveReadPosition(b, len)
  PROVE  /\ IsBuffer(a) /\ a.size = b.size
         /\ Contents(a) = SubSeq(Contents(b), len + 1, Len(Contents(b)))
         /\ SubSeq(Contents(b), 1, len) \in Seq(Bytes)
  <1>. DEFINE m == CurrentEnableReadSpaceSize(b)
  <1>1. /\ Contents(b) \in Seq(Bytes) /\ Len(Contents(b)) = m /\ m \in Nat
        /\ \A i \in 1 .. Len(Contents(b)) : Contents(b)[i] = b.cells[b.read_index + i - 1]
    BY ContentsType
  <1>2. m = b.write_index - b.read_index
    BY DEF CurrentEnableReadSpaceSize
  <1>. HIDE DEF m
  <1>3. len \in Nat /\ len <= m
    BY <1>1 DEF m
  <1>4. /\ a.cells = b.cells /\ a.size = b.size /\ a.write_index = b.write_index
        /\ a.read_index = b.read_index + len
        /\ b.read_index \in Nat /\ b.write_index \in Nat
    BY DEF MoveReadPosition, IsBuffer
  <1>5. IsBuffer(a)
    <2>1. a \in [cells : [0 .. b.size - 1 -> Bytes], size : Nat,
                 read_index : Nat, write_index : Nat]
      BY <1>3 DEF MoveReadPosition, IsBuffer
    <2>2. a.read_index <= a.write_index
      BY <1>1, <1>2, <1>3, <1>4
    <2>. QED  BY <1>4, <2>1, <2>2 DEF IsBuffer
  <1>6. Contents(a) \in Seq(Bytes) /\ Len(Contents(a)) = m - len
    <2>1. CurrentEnableReadSpaceSize(a) = m - len
      BY <1>1, <1>2, <1>3, <1>4 DEF CurrentEnableReadSpaceSize
    <2>. QED  BY <1>5, <2>1, ContentsType
  <1>7. ASSUME NEW i \in 1 .. m - len
        PROVE  Contents(a)[i] = Contents(b)[len + i]
    <2>1. i \in 1 .. Len(Contents(a)) /\ len + i \in 1 .. Len(Contents(b))
      BY <1>1, <1>3, <1>6
    <2>2. Contents(a)[i] = a.cells[a.read_index + i - 1]
      BY <1>5, <2>1, ContentsType
    <2>3. Contents(b)[len + i] = b.cells[b.read_index + (len + i) - 1]
      BY <1>1, <2>1
    <2>4. a.read_index + i - 1 = b.read_index + (len + i) - 1
      BY <1>1, <1>3, <1>4
    <2>. QED  BY <1>4, <2>2, <2>3, <2>4
  <1>8. LET r == SubSeq(Contents(b), len + 1, m)
        IN  r \in Seq(Bytes) /\ Len(r) = m - len
            /\ \A i \in 1 .. m - len : r[i] = Contents(b)[len + i]
    BY <1>1, <1>3
  <1>9. Contents(a) = SubSeq(Contents(b), len + 1, m)
    BY <1>6, <1>7, <1>8, SeqEqual
  <1>10. SubSeq(Contents(b), 1, len) \in Seq(Bytes)
    BY <1>1, <1>3
  <1>. QED  BY <1>1, <1>4, <1>5, <1>9, <1>10

-----------------------------------------------------------------------------
BufferInv == TypeOK /\ NoOverrun /\ MemoryBounded

(* A string of a bounded length is a sequence. *)
LEMMA StringsAreSeqs == \A s \in Strings : s \in Seq(Bytes)
  BY DEF Strings

(* A call that appends s, in one buffer or through another, keeps the      *)
(* invariant.                                                              *)
LEMMA AppendKeepsInv ==
  ASSUME BufferInv, NEW s \in Seq(Bytes),
         buffer' = Appended(buffer, s), ret' = <<>>,
         overrun' = (overrun \/ ~Fits(buffer, s)),
         peak' = Higher(CurrentEnableReadSpaceSize(buffer'))
  PROVE  BufferInv'
  <1>1. /\ IsBuffer(buffer') /\ Fits(buffer, s)
        /\ buffer'.size = buffer.size \/ buffer'.size < 2 * CurrentEnableReadSpaceSize(buffer')
    BY AppendAppends DEF BufferInv, TypeOK
  <1>2. CurrentEnableReadSpaceSize(buffer') \in Nat
    BY <1>1, ContentsType
  <1>3. peak' \in Nat /\ peak <= peak' /\ CurrentEnableReadSpaceSize(buffer') <= peak'
    BY <1>2 DEF BufferInv, TypeOK, Higher
  <1>4. overrun' = FALSE
    BY <1>1 DEF BufferInv, NoOverrun
  <1>5. TypeOK'
    BY <1>1, <1>3, <1>4 DEF TypeOK
  <1>6. MemoryBounded'
    <2>1. buffer.size \in Nat /\ buffer'.size \in Nat /\ BUFFERSIZE \in Nat /\ peak \in Nat
      BY <1>1, BufferAssumption DEF BufferInv, TypeOK, IsBuffer, BufferAssumption
    <2>2. CASE buffer'.size = buffer.size
      <3>1. buffer.size <= BUFFERSIZE \/ buffer.size < 2 * peak
        BY DEF BufferInv, MemoryBounded
      <3>. QED  BY <1>3, <2>1, <2>2, <3>1 DEF MemoryBounded
    <2>3. CASE buffer'.size < 2 * CurrentEnableReadSpaceSize(buffer')
      BY <1>2, <1>3, <2>1, <2>3 DEF MemoryBounded
    <2>. QED  BY <1>1, <2>2, <2>3
  <1>. QED  BY <1>4, <1>5, <1>6 DEF BufferInv, NoOverrun

(* Send's detour over a buffer of its own appends the same bytes. *)
LEMMA DetourIsExact ==
  ASSUME NEW s \in Seq(Bytes)
  PROVE  Contents(Appended(NewBuffer, s)) = s /\ Fits(NewBuffer, s)
  BY NewIsBuffer, AppendAppends

(* A read keeps the invariant. *)
LEMMA ReadKeepsInv ==
  ASSUME BufferInv, NEW len \in 0 .. CurrentEnableReadSpaceSize(buffer), ReadAndPop(len)
  PROVE  BufferInv'
  <1>1. IsBuffer(buffer') /\ buffer'.size = buffer.size /\ ret' \in Seq(Bytes)
    BY ReadTakes DEF BufferInv, TypeOK, ReadAndPop
  <1>. QED  BY <1>1 DEF BufferInv, TypeOK, NoOverrun, MemoryBounded, ReadAndPop

(* A line feed found by memchr lies among the readable bytes. *)
LEMMA LineInside ==
  ASSUME NEW b, IsBuffer(b), NEW p \in LineFeeds(b)
  PROVE  p - b.read_index + 1 \in 1 .. CurrentEnableReadSpaceSize(b)
  BY DEF LineFeeds, IsBuffer, CurrentEnableReadSpaceSize

(* The strengthened invariant is the conjunction of the three. *)
THEOREM BufferCorrect == Spec => []BufferInv
  <1>1. Init => BufferInv
    <2>. SUFFICES ASSUME Init PROVE BufferInv
      OBVIOUS
    <2>1. IsBuffer(buffer) /\ buffer.size = BUFFERSIZE
      BY NewIsBuffer DEF Init, NewBuffer
    <2>2. TypeOK
      <3>1. <<>> \in Seq(Bytes)
        OBVIOUS
      <3>2. ret \in Seq(Bytes) /\ overrun = FALSE /\ peak = 0
        BY <3>1, Zenon DEF Init
      <3>. QED  BY <2>1, <3>2 DEF TypeOK
    <2>3. MemoryBounded
      BY <2>1, BufferAssumption DEF MemoryBounded, BufferAssumption
    <2>4. NoOverrun
      BY DEF Init, NoOverrun
    <2>. QED  BY <2>2, <2>3, <2>4 DEF BufferInv
  <1>2. BufferInv /\ [Next]_vars => BufferInv'
    <2>. SUFFICES ASSUME BufferInv, [Next]_vars PROVE BufferInv'
      OBVIOUS
    <2>1. ASSUME NEW s \in Strings, WriteAndAdd(s) PROVE BufferInv'
      BY <2>1, StringsAreSeqs, AppendKeepsInv DEF WriteAndAdd
    <2>2. ASSUME NEW s \in Strings, WriteAsBufferAndAdd(s) PROVE BufferInv'
      <3>1. s \in Seq(Bytes)
        BY StringsAreSeqs
      <3>. QED  BY <2>2, <3>1, DetourIsExact, AppendKeepsInv DEF WriteAsBufferAndAdd
    <2>3. ASSUME NEW len \in 0 .. CurrentEnableReadSpaceSize(buffer), ReadAndPop(len)
          PROVE  BufferInv'
      BY <2>3, ReadKeepsInv
    <2>4. CASE GetLineAndAdd
      <3>1. CASE LineFeeds(buffer) = {} /\ ret' = <<>> /\ UNCHANGED <<buffer, overrun, peak>>
        BY <3>1 DEF BufferInv, TypeOK, NoOverrun, MemoryBounded
      <3>2. ASSUME NEW p \in LineFeeds(buffer), ReadAndPop(p - buffer.read_index + 1)
            PROVE  BufferInv'
        <4>1. p - buffer.read_index + 1 \in 0 .. CurrentEnableReadSpaceSize(buffer)
          BY LineInside DEF BufferInv, TypeOK
        <4>. QED  BY <3>2, <4>1, ReadKeepsInv
      <3>. QED  BY <2>4, <3>1, <3>2 DEF GetLineAndAdd
    <2>5. CASE Clear
      <3>1. IsBuffer(buffer') /\ buffer'.size = buffer.size
        <4>1. IsBuffer(buffer)
          BY DEF BufferInv, TypeOK
        <4>2. /\ buffer' \in [cells : [0 .. buffer.size - 1 -> Bytes], size : Nat,
                              read_index : Nat, write_index : Nat]
              /\ buffer'.size = buffer.size
              /\ buffer'.read_index = 0 /\ buffer'.write_index = 0
          BY <2>5, <4>1 DEF Clear, IsBuffer
        <4>. QED  BY <4>1, <4>2 DEF IsBuffer
      <3>. QED  BY <2>5, <3>1 DEF Clear, BufferInv, TypeOK, NoOverrun, MemoryBounded
    <2>6. CASE UNCHANGED vars
      BY <2>6 DEF vars, BufferInv, TypeOK, NoOverrun, MemoryBounded
    <2>. QED  BY <2>1, <2>2, <2>3, <2>4, <2>5, <2>6 DEF Next
  <1>. QED  BY <1>1, <1>2, PTL DEF Spec

(* The positions never cross and never leave the vector. *)
THEOREM TypeCorrect == Spec => []TypeOK
  BY BufferCorrect, PTL DEF BufferInv

(* No write passes the vector's end and no assertion fails. *)
THEOREM WritesFit == Spec => []NoOverrun
  BY BufferCorrect, PTL DEF BufferInv

(* The vector stays smaller than twice the most it ever held. *)
THEOREM MemoryStaysBounded == Spec => []MemoryBounded
  BY BufferCorrect, PTL DEF BufferInv

-----------------------------------------------------------------------------
(* Every initial state maps to an empty queue and every call to one of the *)
(* queue's operations, so that the buffer implements ByteQueue.            *)
THEOREM QueueImplemented == Spec => ImplementsByteQueue
  <1>1. Init => Promise!Init
    BY NewIsBuffer DEF Init, Promise!Init
  <1>2. BufferInv /\ [Next]_vars => [Promise!Next]_<<Contents(buffer), ret>>
    <2>. SUFFICES ASSUME BufferInv, [Next]_vars
                  PROVE  [Promise!Next]_<<Contents(buffer), ret>>
      OBVIOUS
    <2>0. IsBuffer(buffer)
      BY DEF BufferInv, TypeOK
    <2>. DEFINE q == Contents(buffer)
    <2>1. ASSUME NEW s \in Strings, buffer' = Appended(buffer, s), ret' = <<>>
          PROVE  Promise!Next
      <3>1. Contents(buffer') = q \o s
        BY <2>0, <2>1, StringsAreSeqs, AppendAppends
      <3>2. Promise!Put(s)
        BY <2>1, <3>1 DEF Promise!Put, Contents, CurrentEnableReadSpaceSize
      <3>. QED  BY <3>2 DEF Promise!Next, Promise!Strings, Strings
    <2>2. ASSUME NEW s \in Strings, WriteAsBufferAndAdd(s)
          PROVE  buffer' = Appended(buffer, s) /\ ret' = <<>>
      BY <2>2, StringsAreSeqs, DetourIsExact DEF WriteAsBufferAndAdd
    <2>3. ASSUME NEW len \in 0 .. CurrentEnableReadSpaceSize(buffer), ReadAndPop(len)
          PROVE  Promise!Take(len) /\ len \in 0 .. Len(q)
      <3>1. Contents(buffer') = SubSeq(q, len + 1, Len(q)) /\ Len(q) = CurrentEnableReadSpaceSize(buffer)
        BY <2>0, <2>3, ReadTakes, ContentsType DEF ReadAndPop
      <3>. QED  BY <2>3, <3>1 DEF ReadAndPop, Promise!Take, Contents, CurrentEnableReadSpaceSize
    <2>4. CASE GetLineAndAdd
      <3>. Promise!TakeLine
        <4>1. /\ Len(q) = CurrentEnableReadSpaceSize(buffer) /\ Len(q) \in Nat
              /\ \A i \in 1 .. Len(q) : q[i] = buffer.cells[buffer.read_index + i - 1]
          BY <2>0, ContentsType
        <4>2. CASE LineFeeds(buffer) = {} /\ ret' = <<>> /\ UNCHANGED <<buffer, overrun, peak>>
          <5>1. ASSUME NEW i \in 1 .. Len(q) PROVE q[i] # LF
            <6>1. buffer.read_index + i - 1 \in buffer.read_index .. buffer.write_index - 1
              BY <2>0, <4>1 DEF IsBuffer, CurrentEnableReadSpaceSize
            <6>. QED  BY <4>1, <4>2, <6>1 DEF LineFeeds
          <5>. QED  BY <4>2, <5>1 DEF Promise!TakeLine, Contents, CurrentEnableReadSpaceSize
        <4>3. ASSUME NEW p \in LineFeeds(buffer), \A r \in LineFeeds(buffer) : p <= r,
                     ReadAndPop(p - buffer.read_index + 1)
              PROVE  Promise!TakeLine
          <5>. DEFINE n == p - buffer.read_index + 1
          <5>1. n \in 1 .. Len(q) /\ n \in 0 .. CurrentEnableReadSpaceSize(buffer)
            BY <2>0, <4>1, LineInside
          <5>2. Promise!Take(n)
            BY <2>3, <4>3, <5>1
          <5>3. buffer.read_index \in Nat /\ p \in Nat /\ buffer.write_index \in Nat
            BY <2>0 DEF LineFeeds, IsBuffer
          <5>4. q[n] = LF
            <6>1. buffer.read_index + n - 1 = p
              BY <5>3
            <6>. QED  BY <4>1, <5>1, <6>1 DEF LineFeeds
          <5>5. ASSUME NEW i \in 1 .. n - 1 PROVE q[i] # LF
            <6>1. i \in 1 .. Len(q) /\ buffer.read_index + i - 1 < p
              BY <4>1, <5>1, <5>3
            <6>2. buffer.read_index + i - 1 \in buffer.read_index .. buffer.write_index - 1
              BY <5>3, <6>1 DEF LineFeeds
            <6>3. ~(p <= buffer.read_index + i - 1)
              BY <5>3, <6>1, <6>2
            <6>. QED  BY <4>1, <4>3, <6>1, <6>2, <6>3 DEF LineFeeds
          <5>. HIDE DEF n, q
          <5>. QED  BY <5>1, <5>2, <5>4, <5>5 DEF Promise!TakeLine, q
        <4>. QED  BY <2>4, <4>2, <4>3 DEF GetLineAndAdd
      <3>. QED  BY DEF Promise!Next
    <2>5. CASE Clear
      <3>1. Contents(buffer') = <<>>
        BY <2>0, <2>5 DEF Clear, Contents, CurrentEnableReadSpaceSize, IsBuffer
      <3>. QED  BY <2>5, <3>1 DEF Clear, Promise!Next, Promise!Drop, Contents, CurrentEnableReadSpaceSize
    <2>6. CASE UNCHANGED vars
      BY <2>6 DEF vars, Contents, CurrentEnableReadSpaceSize
    <2>7. ASSUME NEW s \in Strings, WriteAndAdd(s)
          PROVE  buffer' = Appended(buffer, s) /\ ret' = <<>>
      BY <2>7 DEF WriteAndAdd
    <2>8. \A len \in 0 .. Len(q) : Promise!Take(len) => Promise!Next
      BY DEF Promise!Next
    <2>. QED  BY <2>1, <2>2, <2>3, <2>4, <2>5, <2>6, <2>7, <2>8 DEF Next
  <1>. QED  BY <1>1, <1>2, BufferCorrect, PTL DEF Spec, ImplementsByteQueue, Promise!Spec
=============================================================================
