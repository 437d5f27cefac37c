--------------------------- MODULE MCPacketTransfer ---------------------------
(* The instance of PacketTransfer for TLC: two messages of more than one   *)
(* packet and one that fits a packet.                                      *)
EXTENDS PacketTransfer, TLC

CONSTANTS a, b, c

ShortLength == a :> 2 @@ b :> 2 @@ c :> 1
=============================================================================
