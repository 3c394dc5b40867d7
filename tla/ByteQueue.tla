----------------------------- MODULE ByteQueue ------------------------------
(***************************************************************************)
(* What a buffer promises to the connection that fills it and to the       *)
(* callbacks that empty it: bytes come out once, unchanged and in the      *)
(* order in which they went in, and a line is everything up to the first   *)
(* line feed.                                                              *)
(*                                                                         *)
(* Buffer is shown to implement this module.                               *)
(***************************************************************************)
EXTENDS Naturals, Sequences

CONSTANTS
  Bytes,       (* values of a byte                                         *)
  LF,          (* the one that ends a line                                 *)
  MaxLen       (* most bytes of one write                                  *)

VARIABLES
  queue,       (* bytes written and not read yet, oldest first             *)
  taken        (* what the last call returned                              *)

Strings == UNION {[1 .. n -> Bytes] : n \in 0 .. MaxLen}

Init == queue = <<>> /\ taken = <<>>

Put(s) ==
  /\ queue' = queue \o s
  /\ taken' = <<>>

Take(n) ==
  /\ taken' = SubSeq(queue, 1, n)
  /\ queue' = SubSeq(queue, n + 1, Len(queue))

TakeLine ==
  \/ /\ \A i \in 1 .. Len(queue) : queue[i] # LF
     /\ taken' = <<>>
     /\ UNCHANGED queue
  \/ \E n \in 1 .. Len(queue) :
       /\ queue[n] = LF
       /\ \A i \in 1 .. n - 1 : queue[i] # LF
       /\ Take(n)

Drop == queue' = <<>> /\ taken' = <<>>

Next ==
  \/ \E s \in Strings : Put(s)
  \/ \E n \in 0 .. Len(queue) : Take(n)
  \/ TakeLine
  \/ Drop

Spec == Init /\ [][Next]_<<queue, taken>>
=============================================================================
