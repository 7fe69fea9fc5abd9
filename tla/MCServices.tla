----------------------------- MODULE MCServices -----------------------------
(* Services on small sets of requests and pids. *)
EXTENDS Services, TLC
=============================================================================
