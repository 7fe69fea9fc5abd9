------------------------- MODULE MCWorkstreamOutbox -------------------------
(* WorkstreamOutbox with the worker and one more actor, which is a tool call *)
(* or a request as it likes, one after the other.                            *)
EXTENDS WorkstreamOutbox
=============================================================================
