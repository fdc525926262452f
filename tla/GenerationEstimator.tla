------------------------ MODULE GenerationEstimator ------------------------
(***************************************************************************)
(* Packet ids on the wire have 16 bits; the generation counts how often    *)
(* they wrapped.  visit_packet guesses the generation of an arriving id    *)
(* from the newest id seen (protocol/generation.{h,cpp}).                  *)
(* An estimator is a record of the object's two fields.                    *)
(***************************************************************************)
EXTENDS Integers

CONSTANTS IdSpace,          \* number of packet ids     (2^16 in the code)
          GenerationSpace,  \* number of generations    (2^16 in the code)
          OverflowWindow    \* overflow_window          (8192 in the code)

ASSUME EstimatorAssumption ==
  /\ IdSpace \in Nat \ {0} /\ GenerationSpace \in Nat \ {0}
  /\ OverflowWindow \in Nat
  /\ IdSpace > 3 * OverflowWindow + 1

overflow_area_begin == IdSpace - 1 - OverflowWindow
overflow_area_end == OverflowWindow

Estimators == [last_generation : 0..(GenerationSpace - 1),
               last_packet_id : 0..(IdSpace - 1)]

\* The newest packet id is replaced by a newer one only.
Newer(e, id) ==
  [e EXCEPT !.last_packet_id = IF id > @ THEN id ELSE @]

\* last_generation changed by step, in 16-bit arithmetic.
Generation(e, step) == (e.last_generation + step) % GenerationSpace

\* visit_packet: the estimator afterwards and the generation returned.
Visited(e, g) == [estimator |-> e, generation |-> g]

\* Mutant: the old side of the overflow area forgotten.
VisitWithoutOldPackets(e, id) ==
  IF e.last_packet_id >= overflow_area_begin /\ id < overflow_area_end
  THEN Visited([last_generation |-> Generation(e, 1), last_packet_id |-> id],
               Generation(e, 1))
  ELSE Visited(Newer(e, id), Generation(e, 0))

\* GenerationEstimator::visit_packet
visit_packet(e, id) ==
  CASE /\ e.last_packet_id >= overflow_area_begin
       /\ id <= e.last_packet_id
       /\ id < overflow_area_end ->        \* within a new generation
         Visited([last_generation |-> Generation(e, 1), last_packet_id |-> id],
                 Generation(e, 1))
    [] /\ e.last_packet_id < overflow_area_begin
       /\ e.last_packet_id <= overflow_area_end
       /\ id >= overflow_area_begin ->     \* old packet
         Visited(e, Generation(e, -1))
    [] OTHER ->                            \* normal behaviour, or old packet
         Visited(Newer(e, id), Generation(e, 0))
=============================================================================
