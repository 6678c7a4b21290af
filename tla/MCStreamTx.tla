---------------------------- MODULE MCStreamTx -----------------------------
(* Model values for StreamTx. *)
EXTENDS StreamTx

CONSTANTS xxxxxxxx, empty, none

=============================================================================
