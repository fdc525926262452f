----------------------------- MODULE RingBuffer -----------------------------
(***************************************************************************)
(* The ring in which command fragments wait for their predecessors         *)
(* (protocol/ringbuffer.h).  A ring is a record of the object's fields:    *)
(* ring_index is the index of the front slot, ring_base_index its place in *)
(* the array of slots.                                                     *)
(***************************************************************************)
EXTENDS Integers

CONSTANTS Capacity,     \* capacity_t: number of slots (32 in the code)
          IndexSpace,   \* number of values of size_type (2^32 in the code)
          Unset         \* content of a slot whose flag_set is false

ASSUME RingAssumption == /\ Capacity \in Nat \ {0}
                         /\ IndexSpace \in Nat
                         /\ IndexSpace > Capacity

\* An empty ring whose front slot has the given index
\* (constructor, reset, set_full_index_to).
EmptyRing(index) == [ring_index |-> index,
                     ring_base_index |-> 0,
                     slots |-> [i \in 0..(Capacity - 1) |-> Unset]]

\* index(relative_index): the array position of a slot
SlotAt(ring, relative) ==
  LET i == ring.ring_base_index + relative
  IN  IF i >= Capacity THEN i - Capacity ELSE i

slot_value(ring, relative) == ring.slots[SlotAt(ring, relative)]
slot_set(ring, relative) == slot_value(ring, relative) # Unset
front_set(ring) == slot_set(ring, 0)

\* calculate_index: the relative index, in the arithmetic of size_type
RelativeIndex(ring, index) ==
  IF ring.ring_index > index
  THEN index + (IndexSpace - 1 - ring.ring_index + 1)
  ELSE index - ring.ring_index

\* Mutant: the last slot is out of bounds.
InBoundsButLast(ring, index) ==
  /\ ring.ring_index > index =>
       index < (ring.ring_index + Capacity) % IndexSpace
  /\ RelativeIndex(ring, index) < Capacity - 1

\* calculate_index's result; an index below ring_index must also be smaller
\* than the wrapped end of the ring.
InBounds(ring, index) ==
  /\ ring.ring_index > index =>
       index < (ring.ring_index + Capacity) % IndexSpace
  /\ RelativeIndex(ring, index) < Capacity

\* insert_index2's return value
InsertResult(ring, index) ==
  CASE ~InBounds(ring, index) /\ index < ring.ring_index -> "underflow"
    [] ~InBounds(ring, index) /\ ~(index < ring.ring_index) -> "overflow"
    [] InBounds(ring, index)
       /\ slot_set(ring, RelativeIndex(ring, index)) -> "duplicate"
    [] OTHER -> "success"

\* insert_index2's effect on success
Insert(ring, index, entry) ==
  [ring EXCEPT !.slots[SlotAt(ring, RelativeIndex(ring, index))] = entry]

\* Mutants of PopFront: the base runs out of the array; the base stays; the
\* index stays.
PopFrontUnwrapped(ring, count) ==
  [ring EXCEPT !.ring_index = (@ + count) % IndexSpace,
               !.ring_base_index = @ + count]
PopFrontBaseKept(ring, count) ==
  [ring EXCEPT !.ring_index = (@ + count) % IndexSpace,
               !.slots[ring.ring_base_index] = Unset]
PopFrontIndexKept(ring, count) ==
  [ring EXCEPT !.ring_base_index = SlotAt(ring, count),
               !.slots = [i \in 0..(Capacity - 1) |->
                            IF \E r \in 0..(count - 1) : SlotAt(ring, r) = i
                            THEN Unset ELSE @[i]]]

\* `count` calls of pop_front
PopFront(ring, count) ==
  [ring_index |-> (ring.ring_index + count) % IndexSpace,
   ring_base_index |-> SlotAt(ring, count),
   slots |-> [i \in 0..(Capacity - 1) |->
                IF \E r \in 0..(count - 1) : SlotAt(ring, r) = i
                THEN Unset ELSE ring.slots[i]]]
=============================================================================
