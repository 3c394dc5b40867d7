------------------------------- MODULE Buffer -------------------------------
(***************************************************************************)
(* The Buffer of a connection: a vector of bytes with a read and a write   *)
(* position.  Room for a write is found behind the data, or made by moving *)
(* the data to the front, or by growing the vector.                        *)
(*                                                                         *)
(* A value of the class is a record; its methods are operators on it.  The *)
(* actions are the calls that Connection and the message callbacks make.   *)
(***************************************************************************)
EXTENDS Naturals, Sequences

CONSTANTS
  Bytes,       (* values of a byte                                         *)
  LF,          (* line feed                                                *)
  Zero,        (* what a vector's new elements are                         *)
  BUFFERSIZE,  (* size of the vector of a new buffer                       *)
  MaxLen,      (* most bytes of one write                                  *)
  MaxHeld      (* most bytes the users let a buffer hold                   *)

ASSUME BufferAssumption ==
  /\ LF \in Bytes /\ Zero \in Bytes
  /\ BUFFERSIZE \in Nat /\ MaxLen \in Nat /\ MaxHeld \in Nat

VARIABLES
  buffer,      (* the object                                               *)
  ret,         (* what the last call returned                              *)
  overrun,     (* has a copy passed the vector's end or an assert failed?  *)
  peak         (* most bytes that the buffer held so far                   *)

vars == <<buffer, ret, overrun, peak>>

Strings == UNION {[1 .. n -> Bytes] : n \in 0 .. MaxLen}

NewBuffer ==
  [cells |-> [i \in 0 .. BUFFERSIZE - 1 |-> Zero],
   size |-> BUFFERSIZE, read_index |-> 0, write_index |-> 0]

GetTailIdleSpaceSize(b) == b.size - b.write_index
GetHeadIdleSpaceSize(b) == b.read_index
CurrentEnableReadSpaceSize(b) == b.write_index - b.read_index

(* The readable bytes as a sequence. *)
Contents(b) ==
  [i \in 1 .. CurrentEnableReadSpaceSize(b) |-> b.cells[b.read_index + i - 1]]

-----------------------------------------------------------------------------
(* Mistake: the last of the bytes is not moved. *)
CompactedOneShort(b) ==
  [cells |-> [i \in 0 .. b.size - 1 |->
                IF i + 1 < CurrentEnableReadSpaceSize(b) THEN b.cells[b.read_index + i]
                                                         ELSE b.cells[i]],
   size |-> b.size, read_index |-> 0,
   write_index |-> CurrentEnableReadSpaceSize(b)]

(* std::copy of the readable bytes to the front; what was behind stays. *)
Compacted(b) ==
  [cells |-> [i \in 0 .. b.size - 1 |->
                IF i < CurrentEnableReadSpaceSize(b) THEN b.cells[b.read_index + i]
                                                     ELSE b.cells[i]],
   size |-> b.size, read_index |-> 0,
   write_index |-> CurrentEnableReadSpaceSize(b)]

(* resize() keeps the data where it is, the free space before it included. *)
Resized(b, n) ==
  [cells |-> [i \in 0 .. n - 1 |-> IF i < b.size THEN b.cells[i] ELSE Zero],
   size |-> n, read_index |-> b.read_index, write_index |-> b.write_index]

(* Mistake: only the missing bytes are added, without those in front. *)
EnsureWriteSpaceSizeGrowsShort(b, len) ==
  IF len <= GetTailIdleSpaceSize(b) THEN b
  ELSE IF len <= GetTailIdleSpaceSize(b) + GetHeadIdleSpaceSize(b) THEN Compacted(b)
  ELSE Resized(b, CurrentEnableReadSpaceSize(b) + len)

(* Mistake: the space in front of the data is never used again. *)
EnsureWriteSpaceSizeNeverMoves(b, len) ==
  IF len <= GetTailIdleSpaceSize(b) THEN b ELSE Resized(b, b.write_index + len)

EnsureWriteSpaceSize(b, len) ==
  IF len <= GetTailIdleSpaceSize(b) THEN b
  ELSE IF len <= GetTailIdleSpaceSize(b) + GetHeadIdleSpaceSize(b) THEN Compacted(b)
  ELSE Resized(b, b.write_index + len)

(* Copies s behind the data; the position is moved by a call of its own. *)
Write(b, s) ==
  LET e == EnsureWriteSpaceSize(b, Len(s))
  IN  [e EXCEPT !.cells = [i \in 0 .. e.size - 1 |->
         IF e.write_index <= i /\ i < e.write_index + Len(s)
         THEN s[i - e.write_index + 1] ELSE e.cells[i]]]

MoveWritePosition(b, len) == [b EXCEPT !.write_index = @ + len]
MoveReadPosition(b, len) == [b EXCEPT !.read_index = @ + len]

Appended(b, s) == MoveWritePosition(Write(b, s), Len(s))

(* MoveWritePosition's assertion.  Write moves no position, so it also says *)
(* whether the copy stayed inside the vector.                              *)
Fits(b, s) == Len(s) <= GetTailIdleSpaceSize(Write(b, s))

-----------------------------------------------------------------------------
Init ==
  /\ buffer = NewBuffer
  /\ ret = <<>>
  /\ overrun = FALSE
  /\ peak = 0

Higher(n) == IF n > peak THEN n ELSE peak

(* HanderRead stores what it received; the callbacks build their answers.  *)
WriteAndAdd(s) ==
  /\ CurrentEnableReadSpaceSize(buffer) + Len(s) <= MaxHeld
  /\ buffer' = Appended(buffer, s)
  /\ overrun' = (overrun \/ ~Fits(buffer, s))
  /\ peak' = Higher(CurrentEnableReadSpaceSize(buffer'))
  /\ ret' = <<>>

(* Send fills a buffer of its own, which SendInLoop appends to the output. *)
WriteAsBufferAndAdd(s) ==
  LET c == Appended(NewBuffer, s) IN
  /\ CurrentEnableReadSpaceSize(buffer) + Len(s) <= MaxHeld
  /\ buffer' = Appended(buffer, Contents(c))
  /\ overrun' = (overrun \/ ~Fits(NewBuffer, s) \/ ~Fits(buffer, Contents(c)))
  /\ peak' = Higher(CurrentEnableReadSpaceSize(buffer'))
  /\ ret' = <<>>

(* Read copies len bytes out; every caller moves the read position by the  *)
(* same amount (HanderWrite by what send() took).                          *)
ReadAndPop(len) ==
  /\ ret' = SubSeq(Contents(buffer), 1, len)
  /\ buffer' = MoveReadPosition(buffer, len)
  /\ UNCHANGED <<overrun, peak>>

(* Where the readable bytes hold a line feed; memchr finds the first. *)
LineFeeds(b) == {p \in b.read_index .. b.write_index - 1 : b.cells[p] = LF}

GetLineAndAdd ==
  \/ /\ LineFeeds(buffer) = {}
     /\ ret' = <<>>
     /\ UNCHANGED <<buffer, overrun, peak>>
  \/ \E p \in LineFeeds(buffer) :
       /\ \A q \in LineFeeds(buffer) : p <= q
       /\ ReadAndPop(p - buffer.read_index + 1)

(* Mistake: only the write position is reset. *)
ClearKeepsRead ==
  /\ buffer' = [buffer EXCEPT !.write_index = 0]
  /\ ret' = <<>>
  /\ UNCHANGED <<overrun, peak>>

Clear ==
  /\ buffer' = [buffer EXCEPT !.read_index = 0, !.write_index = 0]
  /\ ret' = <<>>
  /\ UNCHANGED <<overrun, peak>>

Next ==
  \/ \E s \in Strings : WriteAndAdd(s) \/ WriteAsBufferAndAdd(s)
  \/ \E len \in 0 .. CurrentEnableReadSpaceSize(buffer) : ReadAndPop(len)
  \/ GetLineAndAdd
  \/ Clear

Spec == Init /\ [][Next]_vars

-----------------------------------------------------------------------------
IsBuffer(b) ==
  /\ b.size \in Nat
  /\ b \in [cells : [0 .. b.size - 1 -> Bytes], size : Nat,
            read_index : Nat, write_index : Nat]
  /\ b.read_index <= b.write_index
  /\ b.write_index <= b.size

(* The types of the variables; the positions never cross and never leave   *)
(* the vector.                                                             *)
TypeOK ==
  /\ IsBuffer(buffer)
  /\ ret \in Seq(Bytes)
  /\ overrun \in BOOLEAN
  /\ peak \in Nat

(* Room is always made before the copy: no write passes the vector's end   *)
(* and the assertion of MoveWritePosition never fails, whichever of the    *)
(* three ways EnsureWriteSpaceSize takes.                                  *)
NoOverrun == ~overrun

(* The free space before the data is used before the vector grows, so that *)
(* a connection's memory is less than twice the most it ever held          *)
(* (EnsureWriteSpaceSize), however long it lives.                          *)
MemoryBounded == buffer.size <= BUFFERSIZE \/ buffer.size < 2 * peak

(* The buffer is a queue of bytes: compaction and growth never lose, repeat *)
(* or reorder a byte, and GetLine finds the first line.                     *)
Promise == INSTANCE ByteQueue WITH queue <- Contents(buffer), taken <- ret

ImplementsByteQueue == Promise!Spec
=============================================================================
