---------------------------- MODULE MCSessionFlow ----------------------------
(* A small instance of SessionFlow with its history: two threads, enough to *)
(* interfere.                                                               *)
EXTENDS SessionFlowHistory
=============================================================================
