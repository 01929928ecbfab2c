----------------------------- MODULE BufferDeque -----------------------------
(***************************************************************************)
(* What a Buffer promises (src/utils/buffer.h): a sequence of bytes that   *)
(* grows at its end and shrinks at both.                                   *)
(***************************************************************************)
EXTENDS Integers, Sequences

CONSTANTS
  Bytes,    \* the values pushed
  MaxSize   \* bound: bytes a buffer ever holds

VARIABLE content

Init == \E n \in 0..MaxSize : content \in [1..n -> Bytes]

PushBack == \E k \in 1..(MaxSize - Len(content)) : \E bs \in [1..k -> Bytes] : content' = content \o bs
PopFront == \E n \in 0..Len(content) : content' = SubSeq(content, n + 1, Len(content))
PopBack  == \E n \in 0..Len(content) : content' = SubSeq(content, 1, Len(content) - n)

(* resize() to more: what the new bytes are is not said. *)
Grow ==
  \E k \in 1..(MaxSize - Len(content)) :
    /\ Len(content') = Len(content) + k
    /\ SubSeq(content', 1, Len(content)) = content

Next == PushBack \/ PopFront \/ PopBack \/ Grow
Spec == Init /\ [][Next]_content
=============================================================================
