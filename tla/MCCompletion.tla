---------------------------- MODULE MCCompletion ----------------------------
(* A small instance of Completion for TLC: the stop word is "<|>", and a   *)
(* token may hold an ordinary byte with the beginning of the stop word,    *)
(* its middle, its end, or half of a two-byte character.                   *)
EXTENDS Completion

MCPieces == {<<97, 60>>, <<124>>, <<62>>, <<195>>, <<169>>}
MCStopWords == << <<60, 124, 62>> >>
MCDisallowed == {<<60>>, <<60, 124>>}
=============================================================================
