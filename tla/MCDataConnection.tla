--------------------------- MODULE MCDataConnection ---------------------------
(* DataConnection with every text of up to MaxLen characters.              *)
EXTENDS DataConnection

CONSTANT MaxLen

AllTexts == UNION {[1 .. n -> Chars] : n \in 0 .. MaxLen}
================================================================================
