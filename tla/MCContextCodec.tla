--------------------------- MODULE MCContextCodec ---------------------------
(* The codec scaled down for TLC: 3-valued bytes, 2-byte fields (so that   *)
(* the uint32 limit is 9), and two peer IDs whose encodings differ in      *)
(* their last byte, as multihashes of one code and length do.               *)
EXTENDS ContextCodec

CONSTANTS p1, p2

MCPeerCode == [p \in Peers |-> IF p = p1 THEN <<1, 0>> ELSE <<1, 2>>]
=============================================================================
