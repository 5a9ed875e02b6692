----------------------------- MODULE MCGuestStdin -----------------------------
(* A small instance of GuestStdin: one id used for two different writes, another   *)
(* for a close or an observation.                                                 *)
EXTENDS GuestStdin

Write(i, text, eof) == [id |-> i, text |-> text, eof |-> eof]
Mixed == {Write("a", TRUE, FALSE), Write("a", TRUE, TRUE), Write("b", FALSE, TRUE), Write("b", FALSE, FALSE)}
=============================================================================
