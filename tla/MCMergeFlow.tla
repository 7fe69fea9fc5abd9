---------------------------- MODULE MCMergeFlow ----------------------------
(* MergeFlow with one edit from elsewhere that conflicts with one of the agent's. *)
EXTENDS MergeFlow, TLC
CONSTANTS w1, w2, b1
MCClash == {{w1, b1}}
=============================================================================
