--------------------------- MODULE MCPacketDecoder ---------------------------
(* A stream of commands for the model checking of PacketDecoder. *)
EXTENDS PacketDecoder

Command(first, last, flaw) == [first |-> first, last |-> last, flaw |-> flaw]

\* Packet 8 has id 0 again.  The third command cannot be decompressed, the
\* fourth is too large, and the last has more packets than the ring has slots.
RoughStream == <<Command(6, 7, "none"), Command(8, 8, "none"),
                 Command(9, 9, "decompress"), Command(10, 10, "large"),
                 Command(11, 13, "none")>>
=============================================================================
