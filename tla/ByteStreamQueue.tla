--------------------------- MODULE ByteStreamQueue ---------------------------
(***************************************************************************)
(* The ring buffer of the DNS proxy's TCP relay                            *)
(* (src/src/util/bytestream_queue.cc), as operators on a record            *)
(*   buffer             the bytes, positions 0 .. size - 1                 *)
(*   next_byte_to_push, next_byte_to_pop                                   *)
(* One position stays free, so that full and empty differ.                 *)
(***************************************************************************)
EXTENDS Integers, Sequences

CONSTANT RingSize    \* BUFFER_SIZE, 1048576 in the code

ASSUME RingAssumption == RingSize \in Nat /\ RingSize > 1

Free == <<"free">>

EmptyRing == [buffer |-> [i \in 0 .. RingSize - 1 |-> Free],
              next_byte_to_push |-> 0, next_byte_to_pop |-> 0]

available_to_pop(q) ==
  q.next_byte_to_push - q.next_byte_to_pop
    + (IF q.next_byte_to_pop > q.next_byte_to_push THEN RingSize ELSE 0)

\* mutant: forgets that full and empty would look the same
PushIntoLast(q) ==
  q.next_byte_to_pop - q.next_byte_to_push
    + (IF q.next_byte_to_pop > q.next_byte_to_push THEN 0 ELSE RingSize)

available_to_push(q) ==
  q.next_byte_to_pop - q.next_byte_to_push - 1
    + (IF q.next_byte_to_pop > q.next_byte_to_push THEN 0 ELSE RingSize)

space_available(q) == available_to_push(q) > 0
non_empty(q) == available_to_pop(q) > 0

\* The bytes from position `at' to the end of the buffer, at most n.
Contiguous(at, n) == IF at + n >= RingSize THEN RingSize - at ELSE n

\* What one push may read and one pop may write.
PushLimit(q) == Contiguous(q.next_byte_to_push, available_to_push(q))
PopLimit(q) == Contiguous(q.next_byte_to_pop, available_to_pop(q))

Wrap(at) == IF at = RingSize THEN 0 ELSE at

\* push and pop, once the descriptor has read `chunk' or taken n bytes.
pushed(q, chunk) ==
  LET at == q.next_byte_to_push
  IN [q EXCEPT !.buffer = [i \in 0 .. RingSize - 1 |->
                             IF i \in at .. at + Len(chunk) - 1
                             THEN chunk[i - at + 1] ELSE @[i]],
               !.next_byte_to_push = Wrap(at + Len(chunk))]

ToPop(q, n) == [i \in 1 .. n |-> q.buffer[q.next_byte_to_pop + i - 1]]

\* mutant: pops one byte, however many have been written
PoppedOne(q, n) == [q EXCEPT !.next_byte_to_pop = Wrap(@ + 1)]

popped(q, n) == [q EXCEPT !.next_byte_to_pop = Wrap(@ + n)]
=============================================================================
