--------------------------- MODULE MCAudioRing ----------------------------
(***************************************************************************)
(* A ring of five fields emptied two bytes at a time, offered packets of   *)
(* up to three bytes.                                                      *)
(***************************************************************************)
EXTENDS AudioRingLoops

MCPacket == UNION {[1 .. n -> Byte] : n \in 1 .. 3}
===========================================================================
