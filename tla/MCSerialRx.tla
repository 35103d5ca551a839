----------------------------- MODULE MCSerialRx -----------------------------
(* Values for model checking SerialRx. *)
EXTENDS SerialRx, TLC

MCReaders == {"shell", "other"}
=============================================================================
