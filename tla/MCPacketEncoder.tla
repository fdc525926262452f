--------------------------- MODULE MCPacketEncoder ---------------------------
(* Messages for the model checking of PacketEncoder. *)
EXTENDS PacketEncoder

CONSTANTS c1, c2, v1

OneCommand == {<<c1>>}
LongCommand == {<<c1, c2>>}
OnePlain == {<<v1>>}
None == {}
=============================================================================
