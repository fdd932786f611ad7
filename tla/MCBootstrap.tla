---------------------------- MODULE MCBootstrap ----------------------------
(* A small instance of Bootstrap. *)
EXTENDS Bootstrap

=============================================================================
