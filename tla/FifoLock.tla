------------------------------ MODULE FifoLock ------------------------------
(*****************************************************************************)
(* What the callers of withTaskLock and withRepoLock are promised for one    *)
(* key: a call is inside alone, and it gets in only when every call that was *)
(* already in line when it arrived has left, whatever became of that call.   *)
(*****************************************************************************)
CONSTANT Call

VARIABLES
  line,    \* the calls that wait or are inside
  ahead,   \* who was in line when a call arrived
  inside   \* the calls whose critical section runs

vars == <<line, ahead, inside>>

Init == line = {} /\ ahead = [c \in Call |-> {}] /\ inside = {}

Arrive(c) ==
  /\ c \notin line
  /\ ahead' = [ahead EXCEPT ![c] = line]
  /\ line' = line \cup {c}
  /\ UNCHANGED inside

Enter(c) ==
  /\ c \in line \ inside
  /\ ahead[c] \cap line = {} /\ inside = {}
  /\ inside' = {c}
  /\ UNCHANGED <<line, ahead>>

Leave(c) ==
  /\ inside = {c}
  /\ inside' = {}
  /\ line' = line \ {c}
  /\ UNCHANGED ahead

Next == \E c \in Call : Arrive(c) \/ Enter(c) \/ Leave(c)

Spec == Init /\ [][Next]_vars
=============================================================================
