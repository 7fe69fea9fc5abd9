------------------------------- MODULE MCAsks -------------------------------
(* Asks for TLC: the questions are interchangeable, and so are the turns. *)
EXTENDS Asks, TLC

Symmetric == Permutations(Ask) \cup Permutations(Turn)
=============================================================================
