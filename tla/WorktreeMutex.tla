--------------------------- MODULE WorktreeMutex ---------------------------
(*****************************************************************************)
(* What the turn slot and the task lock promise together about one task's    *)
(* worktree: it has at most one user at a time, be it a turn that may still  *)
(* act on the user's behalf (launching or streaming, not stopped) or a git   *)
(* operation, and the next user comes only after the last one left.          *)
(*****************************************************************************)
CONSTANT User

VARIABLE users   \* who may write to the worktree

Init == users = {}

Enter(u) == users = {} /\ users' = {u}
Leave == users # {} /\ users' = {}

Next == (\E u \in User : Enter(u)) \/ Leave

Spec == Init /\ [][Next]_users
=============================================================================
