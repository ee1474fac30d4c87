---------------------------- MODULE MCWebSocket ----------------------------
(***************************************************************************)
(* Web sockets for TLC: texts with each form of a header, pings that are   *)
(* just short enough and one that is too long, a part of a message, a      *)
(* binary message, a frame nobody waits for, one that is not masked, and   *)
(* the close frame.                                                        *)
(***************************************************************************)
EXTENDS WebSocketInvariant

CONSTANT Lengths   \* of the texts

Frame(op, fin, masked, payload) ==
  [op |-> op, fin |-> fin, masked |-> masked, payload |-> payload]
Pattern(n) == [i \in 1..n |-> IF i % 3 = 1 THEN 1 ELSE 0]

MCFrames ==
  {Frame(OPCODE_TEXT, TRUE, TRUE, Pattern(n)) : n \in Lengths}
  \cup {Frame(OPCODE_PING, TRUE, TRUE, Pattern(n)) : n \in {0, LEN7 - 1, LEN7}}
  \cup {Frame(OPCODE_TEXT, TRUE, FALSE, Pattern(1)),
        Frame(OPCODE_CONTINUE, FALSE, TRUE, Pattern(1)),
        Frame(OPCODE_BINARY, TRUE, TRUE, Pattern(1)),
        Frame(OPCODE_PONG, TRUE, TRUE, Pattern(1)),
        Frame(OPCODE_CLOSE, TRUE, TRUE, Pattern(2))}
=============================================================================
