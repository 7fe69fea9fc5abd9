---------------------------- MODULE MCTaskTurns ----------------------------
(* TaskTurns on small sets of messages, git requests and /clear requests. *)
EXTENDS TaskTurns, TLC

Symmetric == Permutations(Msg) \cup Permutations(GitOp) \cup Permutations(Clear)
=============================================================================
