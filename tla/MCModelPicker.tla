---------------------------- MODULE MCModelPicker ----------------------------
(* A small instance of ModelPicker for TLC. *)
EXTENDS ModelPicker
=============================================================================
