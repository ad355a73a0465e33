---------------------------- MODULE MCHandshake -----------------------------
(* Handshake for TLC.                                                       *)
EXTENDS Handshake

CONSTANTS c1, c2
=============================================================================
