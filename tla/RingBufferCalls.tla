--------------------------- MODULE RingBufferCalls ---------------------------
(***************************************************************************)
(* A RingBuffer in the hands of any callers: what each call of Write and   *)
(* Read answers, and that it is what BoundedFifo promises.                 *)
(***************************************************************************)
EXTENDS RingBuffer

VARIABLE told   \* what the last call returned

callVars == <<ring, told>>

CallsInit == RingInit /\ told = [call |-> "none"]

CallWrite(data) ==
  /\ Write(data)
  /\ told' = [call |-> "Write", len |-> Least(Len(data), Writable)]

CallRead(len) ==
  /\ Read(len)
  /\ told' = [call |-> "Read", outData |-> ReadOut(len)]

Offers == UNION {[1..n -> Bytes] : n \in 0..MaxLen}

CallsNext == (\E data \in Offers : CallWrite(data)) \/ (\E len \in 0..MaxLen : CallRead(len))

CallsSpec == CallsInit /\ [][CallsNext]_callVars

-----------------------------------------------------------------------------
(* Properties                                                              *)

(* RingBuffer keeps what BoundedFifo promises.  The circular array behaves as
   a bounded first-in first-out queue of one byte less than its capacity:
   wrapping around never overwrites an unread byte, repeats one or changes their
   order, and a caller learns how many of its bytes were taken. *)
Fifo == INSTANCE BoundedFifo WITH fifo <- Contents, answer <- told, Bound <- Capacity - 1
ImplementsFifo == Fifo!Spec
=============================================================================
