----------------------------- MODULE MCProtocol -----------------------------
(* Values for model checking Protocol: all messages up to MaxLength over   *)
(* two letters, a digit, the question mark and a line end.                 *)
EXTENDS Protocol, TLC

CONSTANT MaxLength

Bytes == {"A", "B", "1", "?", "\n"}

MCMessages == UNION {[1 .. n -> Bytes] : n \in 1 .. MaxLength}
=============================================================================
