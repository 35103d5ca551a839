----------------------------- MODULE MCSerialTx -----------------------------
(* Values for model checking SerialTx. *)
EXTENDS SerialTx, TLC

MCWriters == {"main", "shell"}
=============================================================================
