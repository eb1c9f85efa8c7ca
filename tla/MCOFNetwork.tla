---------------------------- MODULE MCOFNetwork ----------------------------
(* Small networks for TLC. *)
EXTENDS OFNetwork

OneEach == [c \in Conns |-> c]          \* every connection a switch of its own
SameSwitch == [c \in Conns |-> 1]       \* one switch that connects again
\* One with a name, one that reads the end of the literal, two past it.
MCErrors == {<<3, 0>>, <<5, 0>>, <<0, 14>>, <<12, 0>>}
=============================================================================
