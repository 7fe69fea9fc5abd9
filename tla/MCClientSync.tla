---------------------------- MODULE MCClientSync ----------------------------
(* Two tabs of one browser, one of which watches the transcript.  While one is *)
(* open, two things may be under way and two steps begun; with both, one.      *)
EXTENDS ClientSync
CONSTANTS t1, t2
MCBusy == <<2, 1>>
MCStep == <<2, 1>>
=============================================================================
