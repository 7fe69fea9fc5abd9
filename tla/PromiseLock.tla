---------------------------- MODULE PromiseLock ----------------------------
(*****************************************************************************)
(* The two keyed locks of the server, for one key.  Both are a chain of      *)
(* promises whose last link, the tail, is kept in a global map:              *)
(*                                                                           *)
(*   lib/taskLock.ts  withTaskLock: a gate the holder opens in a finally;    *)
(*                    the holder drops the map entry, if still its own, when *)
(*                    it leaves                                              *)
(*   lib/repoLock.ts  withRepoLock: prev.then(fn, fn); the entry is dropped, *)
(*                    if still its own, when the tail settles                *)
(*                                                                           *)
(* A step is one microtask.  There is no state called "locked" in the code:  *)
(* exclusion and order are what the chain is hoped to give.                  *)
(*****************************************************************************)
CONSTANTS
  Call,   \* calls of the lock, each with its own promises
  None    \* no entry in the map; nobody to wait for (Promise.resolve())

ASSUME NoneAssumption == None \notin Call

VARIABLES
  kind,     \* which of the two locks this is; never changes
  tail,     \* the map entry: whose tail it is
  prev,     \* whose tail each call waits for
  pc,       \* where each call is
  settled,  \* the calls whose tail is settled
  ahead     \* history: who was in line when a call arrived

vars == <<kind, tail, prev, pc, settled, ahead>>

Kind == {"taskLock", "repoLock"}
Gone == {"returned", "threw"}
Line == {c \in Call : pc[c] \in {"waiting", "inside"}}
Inside == {c \in Call : pc[c] = "inside"}

TypeOK ==
  /\ kind \in Kind
  /\ tail \in Call \cup {None}
  /\ prev \in [Call -> Call \cup {None}]
  /\ \A c \in Call : prev[c] # c   \* a call waits for another call or for nobody
  /\ pc \in [Call -> {"idle", "waiting", "inside"} \cup Gone]
  /\ settled \in SUBSET Call
  /\ ahead \in [Call -> SUBSET Call]

Init ==
  /\ kind \in Kind
  /\ tail = None
  /\ prev = [c \in Call |-> None]
  /\ pc = [c \in Call |-> "idle"]
  /\ settled = {}
  /\ ahead = [c \in Call |-> {}]

Resolved_OfRemovedEntry(p) ==            \* mutant: a dropped entry passes for settled
  p = None \/ p \in settled \/ p # tail
Resolved(p) == p = None \/ p \in settled

DropEntry_AnyOwner(c) == tail' = None    \* mutant: no identity check
DropEntry(c) == tail' = IF tail = c THEN None ELSE tail

(* The burst up to `await prev`, or the chaining of fn. *)
Arrive(c) ==
  /\ pc[c] = "idle"
  /\ prev' = [prev EXCEPT ![c] = tail]
  /\ tail' = c
  /\ pc' = [pc EXCEPT ![c] = "waiting"]
  /\ ahead' = [ahead EXCEPT ![c] = Line]
  /\ UNCHANGED <<kind, settled>>

Enter(c) ==
  /\ pc[c] = "waiting" /\ Resolved(prev[c])
  /\ pc' = [pc EXCEPT ![c] = "inside"]
  /\ UNCHANGED <<kind, tail, prev, settled, ahead>>

(* fn fulfils or throws; a task lock's finally opens the gate either way. *)
Leave(c) ==
  /\ pc[c] = "inside"
  /\ \E how \in Gone : pc' = [pc EXCEPT ![c] = how]
  /\ IF kind = "taskLock" THEN DropEntry(c) ELSE UNCHANGED tail
  /\ UNCHANGED <<kind, prev, settled, ahead>>

(* The tail settles, whether fn fulfilled or threw.  The repo lock's dropping *)
(* reaction was attached first, so it runs before the next call's.            *)
SettleTail_OnlyIfReturned(c) ==          \* mutant: a throw poisons the chain
  /\ pc[c] = "returned" /\ c \notin settled /\ Resolved(prev[c])
  /\ settled' = settled \cup {c}
  /\ IF kind = "repoLock" THEN DropEntry(c) ELSE UNCHANGED tail
  /\ UNCHANGED <<kind, prev, pc, ahead>>
SettleTail(c) ==
  /\ pc[c] \in Gone /\ c \notin settled /\ Resolved(prev[c])
  /\ settled' = settled \cup {c}
  /\ IF kind = "repoLock" THEN DropEntry(c) ELSE UNCHANGED tail
  /\ UNCHANGED <<kind, prev, pc, ahead>>

Next == \E c \in Call : Arrive(c) \/ Enter(c) \/ Leave(c) \/ SettleTail(c)

(* Microtasks run, and every critical section ends: it runs git commands, which *)
(* end by themselves (lib/git.ts sets no timeout), and waits neither for the    *)
(* user nor for an agent's turn.                                                *)
Fairness == \A c \in Call : WF_vars(Enter(c)) /\ WF_vars(Leave(c)) /\ WF_vars(SettleTail(c))

Spec == Init /\ [][Next]_vars
FairSpec == Spec /\ Fairness

----------------------------------------------------------------------------
(* Properties *)

(* Only one critical section of a key runs at a time: a call that arrives as *)
(* the entry is dropped must not slip past one that is still in the chain.   *)
Exclusion == \A c, d \in Inside : c = d

(* The chain implements the lock its callers count on: exclusive, first come   *)
(* first served (taskLock.ts: "Waiters queue FIFO behind the current holder"). *)
Fifo == INSTANCE FifoLock WITH line <- Line, inside <- Inside
FifoSpec == Fifo!Spec

(* isTaskLocked reads the map: for a task lock there is an entry exactly while *)
(* some call holds the lock or waits for it.                                   *)
EntryIffLocked == kind = "taskLock" => (tail # None <=> Line # {})

(* "Last one out drops the entry": once everything settled, the map is empty *)
(* again, so idle keys cost nothing.                                         *)
IdleHasNoEntry == (\A c \in Call : pc[c] = "idle" \/ c \in settled) => tail = None

(* A call that waits is served, also behind calls that threw.                  *)
EveryCallServed == \A c \in Call : pc[c] = "waiting" ~> pc[c] \in Gone
=============================================================================
