---------------------------- MODULE MCModelClient ----------------------------
(* A small instance of ModelClient for TLC.                                *)
EXTENDS ModelClient
=============================================================================
