----------------------------- MODULE MCOutbound -----------------------------
(* Two servers, two child slots, and reply pools up to one with as many    *)
(* slots as the word, here of three bits, has bits.  Four capabilities are *)
(* as many as with_capabilities accepts and one more than the buffer takes. *)
EXTENDS Outbound

CONSTANTS v1, v2

=============================================================================
