------------------------------- MODULE Buffer --------------------------------
(***************************************************************************)
(* Buffer (src/utils/buffer.cpp): memory of _capacity bytes whose content  *)
(* is the _count bytes from _pos on.  Removing from the front moves _pos;  *)
(* reserve() moves the content to the front of the memory, or to a larger  *)
(* memory, when there is no room behind it.                                *)
(***************************************************************************)
EXTENDS Integers, Sequences

CONSTANTS
  Bytes,    \* the values pushed
  MaxSize   \* bound: bytes a buffer holds

VARIABLES
  mem,    \* what _buf points to: _capacity bytes, Junk outside the content
  pos,    \* _pos
  count   \* _count

vars == <<mem, pos, count>>

Junk == "junk"
Junks(n) == [k \in 1..n |-> Junk]
Raised(s) == (s + 4) - (s % 4)                \* the capacity for s bytes
Allocated == Len(mem)
Content == SubSeq(mem, pos + 1, pos + count)

(* Memory m with bytes bs laid over it behind its first n. *)
Laid(m, n, bs) == [k \in 1..Len(m) |-> IF k \in (n + 1)..(n + Len(bs)) THEN bs[k - n] ELSE m[k]]

(* Buffer(), Buffer(s) and Buffer(dat, len) *)
Init ==
  /\ \/ mem = Junks(16) /\ count = 0
     \/ \E s \in 0..MaxSize : mem = Junks(Raised(s)) /\ count = 0
     \/ \E len \in 0..MaxSize : \E dat \in [1..len -> Bytes] :
          mem = Laid(Junks(Raised(len)), 0, dat) /\ count = len
  /\ pos = 0

-----------------------------------------------------------------------------
(* Memory.  Each operator gives [mem, pos, count] as the member function     *)
(* leaves them.                                                              *)

Now == [mem |-> mem, pos |-> pos, count |-> count]

(* recapacity(s): the first s bytes of the content go to a memory for s. *)
Recapacitated(s) ==
  IF s <= 1 THEN Now
  ELSE LET cnt == IF s > count THEN count ELSE s
       IN [mem |-> Laid(Junks(Raised(s)), 0, SubSeq(mem, pos + 1, pos + cnt)), pos |-> 0, count |-> cnt]

(* Mutant of Reserved: the content is not moved to the front of the memory. *)
ReservedUnmoved(cnt) ==
  LET behind == Allocated - pos - count
  IN CASE behind >= cnt -> Now
       [] behind < cnt /\ pos + behind >= cnt -> [Now EXCEPT !.pos = 0]
       [] OTHER -> Recapacitated(cnt + count * 2)

(* reserve(cnt): room for cnt bytes behind the content. *)
Reserved(cnt) ==
  LET behind == Allocated - pos - count
  IN CASE behind >= cnt -> Now
       [] behind < cnt /\ pos + behind >= cnt ->
            IF count = 0 THEN [Now EXCEPT !.pos = 0]
            ELSE IF pos >= count THEN [Now EXCEPT !.mem = Laid(mem, 0, Content), !.pos = 0]
            ELSE Recapacitated(cnt + count * 2)
       [] OTHER -> Recapacitated(cnt + count * 2)

(* Bytes outside the content are as good as never written. *)
Become(b) ==
  /\ mem' = [k \in 1..Len(b.mem) |-> IF k \in (b.pos + 1)..(b.pos + b.count) THEN b.mem[k] ELSE Junk]
  /\ pos' = b.pos /\ count' = b.count

-----------------------------------------------------------------------------
Recapacity == \E s \in 0..(MaxSize + 1) : Become(Recapacitated(s))
Reserve    == \E cnt \in 0..MaxSize : Become(Reserved(cnt))

(* resize(s): what the bytes behind the old content are is left to the memory. *)
Resize ==
  \E s \in 0..MaxSize : Become([(IF count < s THEN Reserved(s - count) ELSE Now) EXCEPT !.count = s])

Clear == Become([Now EXCEPT !.pos = 0, !.count = 0])

(* Both push_back()s *)
PushBack ==
  \E k \in 1..(MaxSize - count) : \E bs \in [1..k -> Bytes] :
    LET b == Reserved(k)
    IN Become([b EXCEPT !.mem = Laid(b.mem, b.pos + b.count, bs), !.count = b.count + k])

(* pop_front() and pop_front(n): the last byte clears the buffer. *)
PopFront ==
  \E n \in 0..count :
    Become(IF n = count THEN [Now EXCEPT !.pos = 0, !.count = 0]
           ELSE [Now EXCEPT !.pos = pos + n, !.count = count - n])

(* pop_back(): the last byte clears the buffer. *)
PopBackOne ==
  /\ count > 0
  /\ Become(IF count = 1 THEN [Now EXCEPT !.pos = 0, !.count = 0] ELSE [Now EXCEPT !.count = count - 1])

(* pop_back(n): even if nothing is left _pos stays. *)
PopBack == \E n \in 0..count : Become([Now EXCEPT !.count = count - n])

Next == Recapacity \/ Reserve \/ Resize \/ Clear \/ PushBack \/ PopFront \/ PopBackOne \/ PopBack

Spec == Init /\ [][Next]_vars

-----------------------------------------------------------------------------
(* Properties                                                              *)

(* The memory is of one of the sizes the code allocates, and the content lies
   in it, whatever was moved, popped and pushed before. *)
TypeOK ==
  /\ Allocated > 1 /\ Allocated % 4 = 0
  /\ pos \in Nat /\ count \in 0..MaxSize
  /\ pos + count <= Allocated

(* The memory does not grow with the number of bytes that pass through. *)
MemoryIsBounded == Allocated <= Raised(3 * MaxSize) \/ Allocated = 16

(* Buffer implements a deque of bytes. *)
Deque == INSTANCE BufferDeque WITH content <- Content, Bytes <- Bytes \cup {Junk}
ImplementsDeque == Deque!Spec
=============================================================================
