---------------------------- MODULE DeliveryQueue ----------------------------
(*****************************************************************************)
(* What whoever queues an event for a linked card is promised: the event is  *)
(* never dropped.  It is sent, as often as it takes, until the tracker takes *)
(* it or refuses it, or until Budget sendings have failed or died; and that  *)
(* is the end of it.  A sending that is called off costs nothing.            *)
(*****************************************************************************)
EXTENDS Naturals

CONSTANTS
  Event,
  Budget    \* sendings that may fail

VARIABLES
  fate,     \* what has become of each event
  missed    \* its failed sendings; they stop counting at Budget

vars == <<fate, missed>>

Fate == {"absent", "queued", "out", "delivered", "refused", "spent"}

Init == fate = [e \in Event |-> "absent"] /\ missed = [e \in Event |-> 0]

Counted(n) == IF n < Budget THEN n + 1 ELSE n

Queue(e) ==
  fate[e] = "absent" /\ fate'[e] = "queued" /\ missed'[e] = missed[e]

(* An event may be sent by the call that brings it. *)
Send(e) ==
  fate[e] \in {"absent", "queued"} /\ fate'[e] = "out" /\ missed'[e] = missed[e]

CallOff(e) ==
  fate[e] = "out" /\ fate'[e] = "queued" /\ missed'[e] = missed[e]

(* The sending failed, or died and somebody else sends the event again. *)
Miss(e) ==
  /\ fate[e] = "out" /\ fate'[e] \in {"queued", "out"}
  /\ missed'[e] = Counted(missed[e])

GiveUp(e) ==
  /\ fate[e] = "out" /\ fate'[e] = "spent"
  /\ missed'[e] = Counted(missed[e]) /\ missed'[e] >= Budget

(* What is over for good needs no count. *)
Answer(e) ==
  fate[e] = "out" /\ fate'[e] \in {"delivered", "refused"} /\ missed'[e] = 0

Same(e) == fate'[e] = fate[e] /\ missed'[e] = missed[e]

Move(e) ==
  \/ Queue(e) \/ Send(e) \/ CallOff(e) \/ Miss(e) \/ GiveUp(e) \/ Answer(e)
  \/ Same(e)

(* Events move together: a pass takes all that are due. *)
Next ==
  /\ fate' \in [Event -> Fate] /\ missed' \in [Event -> 0 .. Budget]
  /\ \A e \in Event : Move(e)

Spec == Init /\ [][Next]_vars
=============================================================================
