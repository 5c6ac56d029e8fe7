--------------------------- MODULE MCEventStream ---------------------------
(* A small instance of EventStream for TLC: an agent that may listen twice. *)
EXTENDS EventStream

CONSTANTS a1, c1, c2, s1, s2

BothOfOne == [c \in {c1, c2} |-> a1]
=============================================================================
