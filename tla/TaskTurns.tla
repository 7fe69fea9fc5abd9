----------------------------- MODULE TaskTurns -----------------------------
(*****************************************************************************)
(* The life of the turns of ONE task (tasks share nothing here: the slot,    *)
(* the deletion mark, the lock and the pending queue are all keyed by task   *)
(* id).  A step is one burst of JavaScript between two awaits; everything    *)
(* the code does inside such a burst is one action.                          *)
(*                                                                           *)
(*   lib/abort.ts      the turn slot (one AbortController per task) and the  *)
(*                     set of tasks being deleted                            *)
(*   lib/runner.ts     startResumeTurn, run() and its finally                *)
(*   app/api/tasks/[id]/{messages,abort,clear,pending,merge,sync}/route.ts   *)
(*   app/api/tasks/[id]/route.ts   PATCH status=cancelled and DELETE         *)
(*   lib/taskLock.ts   used here by its contract, a FIFO lock; PromiseLock   *)
(*                     models how the code builds it                         *)
(*                                                                           *)
(* A user message is carried by at most one launch, and every launch makes   *)
(* its own AbortController, so a message stands for its controller too.      *)
(* awaiting_input, status and the transcript are not part of this module.    *)
(*****************************************************************************)
EXTENDS Naturals, Sequences

CONSTANTS
  Msg,      \* user messages, each with the controller of the turn that runs it
  GitOp,    \* requests to merge, merge/prepare, merge/complete, merge/abort, sync
  Clear,    \* requests to /clear
  Ops,      \* what the environment does, see EnvOps
  None      \* no turn occupies the slot

(*****************************************************************************)
(* "refuse": a POST answers 4xx (empty or oversized text, launch             *)
(* configuration, unusable directory).  "fault": a launch throws (SQLite     *)
(* error) or an agent's process tree cannot be settled.  "limit": a turn     *)
(* dies on a dead login or a spent quota.                                    *)
(*****************************************************************************)
EnvOps == {"stop", "cancel", "unqueue", "clear", "delete", "git",
           "refuse", "fault", "limit", "restart"}

ASSUME NoneAssumption == None \notin Msg
ASSUME ProcAssumption == Msg \cap GitOp = {}
ASSUME OpsAssumption == Ops \subseteq EnvOps

VARIABLES
  row,       \* the task row: [exists, generation, session, started, running]
  pending,   \* pending_messages, oldest first
  slot,      \* __orchAbort: whose controller is registered
  deletion,  \* the DELETE request; the task is marked deleting unless "idle"
  lock,      \* the per-task lock: holder first, then waiters
  phase,     \* where each message (and its turn) is
  aborted,   \* AbortController.signal.aborted of each turn
  gen,       \* the generation captured by each turn
  sess,      \* run()'s local sessionId (0: none), named by the epoch it was opened in
  git,       \* where each git request is
  clear,     \* where each /clear is
  cgen,      \* the generation it captured
  epoch,     \* history: one more than the /clear requests that nulled the session
  read       \* history: the epoch in which each turn read its row

turnVars == <<phase, aborted, gen, sess, read>>
clearVars == <<clear, cgen, epoch>>
vars == <<row, pending, slot, deletion, lock, turnVars, git, clearVars>>

(* "unsent" -> "arrived" (task read, body awaited) -> "queued" (a pending    *)
(* row) or "claimed" (POST owns the slot, waits for the lock) -> "preparing" *)
(* (POST holds the lock, awaits git).  A queued message popped by a handoff  *)
(* is "handed" (waits for the lock), then "resuming" (holds it, awaits git). *)
(* Either becomes "streaming"; "done" also covers dropped messages.          *)
Phase == {"unsent", "arrived", "queued", "claimed", "preparing",
          "handed", "resuming", "streaming", "done"}
Launching == {"preparing", "resuming"}
LivePhase == {"claimed", "handed", "streaming"} \cup Launching

(* "unsent" -> "arrived" (task and generation read, body awaited) ->         *)
(* "summing" (the turn is aborted, the summary awaited) -> "done".           *)
ClearPhase == {"unsent", "arrived", "summing", "done"}

Row == [exists : BOOLEAN, generation : Nat, session : Nat,
        started : BOOLEAN, running : BOOLEAN]

Types ==
  /\ row \in Row
  /\ pending \in Seq(Msg)
  /\ slot \in Msg \cup {None}
  /\ deletion \in {"idle", "settling", "removing"}
  /\ lock \in Seq(Msg \cup GitOp)
  /\ phase \in [Msg -> Phase]
  /\ aborted \in [Msg -> BOOLEAN]
  /\ gen \in [Msg -> Nat]
  /\ sess \in [Msg -> Nat]
  /\ git \in [GitOp -> {"idle", "waiting", "working"}]
  /\ clear \in [Clear -> ClearPhase]
  /\ cgen \in [Clear -> Nat]
  /\ epoch \in Nat
  /\ read \in [Msg -> Nat]

(* A message is in the queue once, and as long as nothing launched it: what    *)
(* runner.ts pops it does not find there again, or it would run it twice.      *)
QueuedOnce ==
  /\ \A i \in 1 .. Len(pending) : phase[pending[i]] = "queued"
  /\ \A i, j \in 1 .. Len(pending) : pending[i] = pending[j] => i = j

(* Every variable has its type, and the queue and the phases agree.            *)
TypeOK == Types /\ QueuedOnce

Init ==
  /\ row = [exists |-> TRUE, generation |-> 1, session |-> 0,
            started |-> FALSE, running |-> FALSE]
  /\ pending = <<>>
  /\ slot = None
  /\ deletion = "idle"
  /\ lock = <<>>
  /\ phase = [m \in Msg |-> "unsent"]
  /\ aborted = [m \in Msg |-> FALSE]
  /\ gen = [m \in Msg |-> 0]
  /\ sess = [m \in Msg |-> 0]
  /\ git = [g \in GitOp |-> "idle"]
  /\ clear = [c \in Clear |-> "unsent"]
  /\ cgen = [c \in Clear |-> 0]
  /\ epoch = 1
  /\ read = [m \in Msg |-> 0]

----------------------------------------------------------------------------
(* The slot registry, lib/abort.ts *)

Deleting == deletion # "idle"
HasTurn == slot # None

ClaimTurn(m) == ~Deleting /\ ~HasTurn /\ slot' = m

Unregister_AnyOwner(m) == slot' = None           \* mutant: no identity check
Unregister(m) == slot' = IF slot = m THEN None ELSE slot

(* Both trip the owner's signal; only abortTurn gives the slot up. *)
TripOwner == aborted' = [m \in Msg |-> aborted[m] \/ m = slot]

AbortTurn_KeepsSignal == slot' = None /\ UNCHANGED aborted   \* mutant
AbortTurn == slot' = None /\ TripOwner

(* The task lock, lib/taskLock.ts *)

AwaitLock(p) == lock' = Append(lock, p)
Holds_NoWait(p) == TRUE                           \* mutant: nobody waits
Holds(p) == lock # <<>> /\ Head(lock) = p
ReleaseLock == lock' = Tail(lock)

(* The pending queue, lib/store.ts *)

DropQueued(ph) == [m \in Msg |-> IF ph[m] = "queued" THEN "done" ELSE ph[m]]
ClearPending(ph) == pending' = <<>> /\ phase' = DropQueued(ph)

Goto(m, p) == phase' = [phase EXCEPT ![m] = p]

----------------------------------------------------------------------------
(* POST /messages *)

PostArrive(m) ==
  /\ phase[m] = "unsent" /\ row.exists /\ ~Deleting
  /\ Goto(m, "arrived")
  /\ UNCHANGED <<row, pending, slot, deletion, lock, aborted, gen, sess, read, git, clearVars>>

PostClaim(m) ==
  /\ phase[m] = "arrived"
  /\ ClaimTurn(m)
  /\ Goto(m, "claimed")
  /\ AwaitLock(m)
  /\ UNCHANGED <<row, pending, deletion, aborted, gen, sess, read, git, clearVars>>

PostQueue(m) ==
  /\ phase[m] = "arrived" /\ HasTurn /\ ~Deleting /\ row.exists
  /\ pending' = Append(pending, m)
  /\ Goto(m, "queued")
  /\ UNCHANGED <<row, slot, deletion, lock, aborted, gen, sess, read, git, clearVars>>

(* 409 for a task being deleted, 400/413 before anything is queued, a claim  *)
(* released at once because mkdir failed, or an insert for a deleted task.   *)
PostReject(m) ==
  /\ phase[m] = "arrived"
  /\ Deleting \/ "refuse" \in Ops \/ (HasTurn /\ ~row.exists)
  /\ Goto(m, "done")
  /\ UNCHANGED <<row, pending, slot, deletion, lock, aborted, gen, sess, read, git, clearVars>>

(* The re-reads under the lock that answer 404, 409, 400 or 413.  The lock is *)
(* released and the handler's finally frees the claim before the next waiter  *)
(* resumes: the finally is fewer microtasks away than the chained tail.       *)
PostRefuse(m) ==
  /\ phase[m] = "claimed" /\ Holds(m)
  /\ ~row.exists \/ Deleting \/ "refuse" \in Ops
  /\ Unregister(m)
  /\ Goto(m, "done")
  /\ ReleaseLock
  /\ UNCHANGED <<row, pending, deletion, aborted, gen, sess, read, git, clearVars>>

ReadRow(m) ==
  /\ sess' = [sess EXCEPT ![m] = row.session]
  /\ read' = [read EXCEPT ![m] = epoch]

(* `fresh` is read; ensureWorktree, worktreeSyncStatus and the fast-forward  *)
(* are awaited under the lock.                                               *)
PostPrepare(m) ==
  /\ phase[m] = "claimed" /\ Holds(m)
  /\ row.exists /\ ~Deleting
  /\ gen' = [gen EXCEPT ![m] = row.generation]
  /\ ReadRow(m)
  /\ Goto(m, "preparing")
  /\ UNCHANGED <<row, pending, slot, deletion, lock, aborted, git, clearVars>>

(* Echo the message, running = 1, startTurn.  The captured generation, the   *)
(* signal and the slot are not looked at again.                              *)
Launch(m) ==
  /\ phase[m] \in Launching
  /\ row.exists
  /\ row' = [row EXCEPT !.running = TRUE]
  /\ Goto(m, "streaming")
  /\ ReleaseLock
  /\ UNCHANGED <<pending, slot, deletion, aborted, gen, sess, read, git, clearVars>>

PostFail(m) ==
  /\ phase[m] = "preparing"
  /\ ~row.exists \/ "fault" \in Ops
  /\ Unregister(m)
  /\ Goto(m, "done")
  /\ ReleaseLock
  /\ UNCHANGED <<row, pending, deletion, aborted, gen, sess, read, git, clearVars>>

----------------------------------------------------------------------------
(* run(): the driver's session event and the finally *)

RunSession(m) ==
  /\ phase[m] = "streaming" /\ row.exists
  /\ sess' = [sess EXCEPT ![m] = read[m]]
  /\ row' = [row EXCEPT !.started = TRUE]
  /\ UNCHANGED <<pending, slot, deletion, lock, phase, aborted, gen, read, git, clearVars>>

Superseded(m) == HasTurn /\ slot # m

GenerationAdvanced_RowOnly(m) == ~row.exists      \* mutant: /clear not noticed
GenerationAdvanced(m) == ~row.exists \/ row.generation # gen[m]

SettleRow_KeepsRunning(m) ==                      \* mutant: a missing reset
  row' = IF GenerationAdvanced(m) THEN row ELSE [row EXCEPT !.session = sess[m]]
SettleRow(m) ==
  row' = IF GenerationAdvanced(m) THEN row
         ELSE [row EXCEPT !.running = FALSE, !.session = sess[m]]

RunSuperseded(m) ==
  /\ phase[m] = "streaming" /\ Superseded(m)
  /\ Goto(m, "done")
  /\ UNCHANGED <<row, pending, slot, deletion, lock, aborted, gen, sess, read, git, clearVars>>

RunDiscards(m) ==
  /\ phase[m] = "streaming" /\ ~Superseded(m)
  /\ aborted[m] \/ GenerationAdvanced(m)
  /\ SettleRow(m)
  /\ ClearPending([phase EXCEPT ![m] = "done"])
  /\ Unregister(m)
  /\ UNCHANGED <<deletion, lock, aborted, gen, sess, read, git, clearVars>>

(* Dead login or spent quota: the follow-ups stay queued. *)
RunParks(m) ==
  /\ phase[m] = "streaming" /\ ~Superseded(m)
  /\ ~aborted[m] /\ ~GenerationAdvanced(m)
  /\ "limit" \in Ops
  /\ SettleRow(m)
  /\ Goto(m, "done")
  /\ Unregister(m)
  /\ UNCHANGED <<pending, deletion, lock, aborted, gen, sess, read, git, clearVars>>

CanHandOff_OffByOne(m) == ~Deleting /\ slot = m /\ Len(pending) > 1   \* mutant
CanHandOff(m) == ~Deleting /\ slot = m /\ pending # <<>>

RunEnds(m) ==
  /\ phase[m] = "streaming" /\ ~Superseded(m)
  /\ ~aborted[m] /\ ~GenerationAdvanced(m)
  /\ ~CanHandOff(m)
  /\ SettleRow(m)
  /\ Goto(m, "done")
  /\ Unregister(m)
  /\ UNCHANGED <<pending, deletion, lock, aborted, gen, sess, read, git, clearVars>>

PopPending_Peeks == UNCHANGED pending             \* mutant: the row is not deleted
PopPending == pending' = Tail(pending)

(* The slot passes to a fresh controller in the burst that settles the row;  *)
(* the follow-up then queues for the lock.                                   *)
RunHandsOff(m) ==
  /\ phase[m] = "streaming"
  /\ ~aborted[m] /\ ~GenerationAdvanced(m)
  /\ CanHandOff(m)
  /\ SettleRow(m)
  /\ LET next == Head(pending) IN
       /\ slot' = next
       /\ phase' = [phase EXCEPT ![m] = "done", ![next] = "handed"]
       /\ gen' = [gen EXCEPT ![next] = gen[m]]
       /\ AwaitLock(next)
  /\ PopPending
  /\ UNCHANGED <<deletion, aborted, sess, read, git, clearVars>>

RunFinish(m) ==
  \/ RunSuperseded(m) \/ RunDiscards(m) \/ RunParks(m)
  \/ RunEnds(m) \/ RunHandsOff(m)

----------------------------------------------------------------------------
(* The drain of a follow-up, under the lock *)

DrainStale(m) == ~row.exists \/ row.generation # gen[m] \/ slot # m

DrainDrop(m) ==
  /\ phase[m] = "handed" /\ Holds(m)
  /\ DrainStale(m)
  /\ Unregister(m)
  /\ Goto(m, "done")
  /\ ReleaseLock
  /\ UNCHANGED <<row, pending, deletion, aborted, gen, sess, read, git, clearVars>>

DrainResume(m) ==
  /\ phase[m] = "handed" /\ Holds(m)
  /\ ~DrainStale(m)
  /\ ReadRow(m)
  /\ Goto(m, "resuming")
  /\ UNCHANGED <<row, pending, slot, deletion, lock, aborted, gen, git, clearVars>>

(* startResumeTurn throws; the .catch failsafe runs before the next waiter.  *)
(* Its running = 0 looks at neither the generation nor the slot.             *)
DrainFail(m) ==
  /\ phase[m] = "resuming"
  /\ ~row.exists \/ "fault" \in Ops
  /\ Unregister(m)
  /\ row' = IF row.exists THEN [row EXCEPT !.running = FALSE] ELSE row
  /\ Goto(m, "done")
  /\ ReleaseLock
  /\ UNCHANGED <<pending, deletion, aborted, gen, sess, read, git, clearVars>>

----------------------------------------------------------------------------
(* Stop, PATCH status=cancelled, DELETE /pending, /clear *)

Stop_KeepsQueue ==                                \* mutant: left to the finally
  /\ "stop" \in Ops /\ HasTurn
  /\ AbortTurn
  /\ UNCHANGED <<row, pending, deletion, lock, phase, gen, sess, read, git, clearVars>>
Stop ==
  /\ "stop" \in Ops /\ HasTurn
  /\ AbortTurn
  /\ ClearPending(phase)
  /\ UNCHANGED <<row, deletion, lock, gen, sess, read, git, clearVars>>

Cancel ==
  /\ "cancel" \in Ops /\ row.exists /\ HasTurn
  /\ AbortTurn
  /\ UNCHANGED <<row, pending, deletion, lock, phase, gen, sess, read, git, clearVars>>

Without(q, i) == SubSeq(q, 1, i - 1) \o SubSeq(q, i + 1, Len(q))
Unqueue(m) ==
  /\ "unqueue" \in Ops /\ phase[m] = "queued"
  /\ \E i \in 1 .. Len(pending) : pending[i] = m /\ pending' = Without(pending, i)
  /\ Goto(m, "done")
  /\ UNCHANGED <<row, slot, deletion, lock, aborted, gen, sess, read, git, clearVars>>

(* The task is read, then the body is awaited ... *)
ClearArrive(c) ==
  /\ "clear" \in Ops /\ clear[c] = "unsent" /\ row.exists
  /\ clear' = [clear EXCEPT ![c] = "arrived"]
  /\ cgen' = [cgen EXCEPT ![c] = row.generation]
  /\ UNCHANGED <<row, pending, slot, deletion, lock, turnVars, git, epoch>>

(* 400: the body names an agent that the registry does not know. *)
ClearRefuse(c) ==
  /\ "refuse" \in Ops /\ clear[c] = "arrived"
  /\ clear' = [clear EXCEPT ![c] = "done"]
  /\ UNCHANGED <<row, pending, slot, deletion, lock, turnVars, git, cgen, epoch>>

(* ... whatever turn there is by then is stopped, the summary is awaited ... *)
ClearAbort(c) ==
  /\ clear[c] = "arrived"
  /\ clear' = [clear EXCEPT ![c] = "summing"]
  /\ AbortTurn
  /\ UNCHANGED <<row, pending, deletion, lock, phase, gen, sess, read, git, cgen, epoch>>

FreshGeneration(g) ==
  [exists |-> row.exists, generation |-> g + 1, session |-> 0,
   started |-> FALSE, running |-> FALSE]

(* ... and the row is written.  addSummary throws when the task is gone.     *)
ClearEnd(c) ==
  /\ clear[c] = "summing"
  /\ clear' = [clear EXCEPT ![c] = "done"]
  /\ IF row.exists
       THEN row' = FreshGeneration(cgen[c]) /\ ClearPending(phase) /\ epoch' = epoch + 1
       ELSE UNCHANGED <<row, pending, phase, epoch>>
  /\ UNCHANGED <<slot, deletion, lock, aborted, gen, sess, read, git, cgen>>

----------------------------------------------------------------------------
(* DELETE of the task *)

DeleteBegin ==
  /\ "delete" \in Ops /\ row.exists /\ ~Deleting
  /\ deletion' = "settling"
  /\ TripOwner
  /\ UNCHANGED <<row, pending, slot, lock, phase, gen, sess, read, git, clearVars>>

(* waitForTurnSettlement has seen the slot free; removeWorktree is awaited. *)
DeleteSettled ==
  /\ deletion = "settling" /\ ~HasTurn
  /\ deletion' = "removing"
  /\ UNCHANGED <<row, pending, slot, lock, turnVars, git, clearVars>>

(* 15 s without settlement, or a process tree that survives: rolled back. *)
DeleteTimeout ==
  /\ deletion = "settling" /\ (HasTurn \/ "fault" \in Ops)
  /\ deletion' = "idle"
  /\ UNCHANGED <<row, pending, slot, lock, turnVars, git, clearVars>>

DeleteFinish_KeepsMark ==                         \* mutant: no endTaskDeletion
  /\ deletion = "removing"
  /\ row' = [row EXCEPT !.exists = FALSE]
  /\ ClearPending(phase)
  /\ UNCHANGED <<deletion, slot, lock, aborted, gen, sess, read, git, clearVars>>
DeleteFinish ==
  /\ deletion = "removing"
  /\ deletion' = "idle"
  /\ row' = [row EXCEPT !.exists = FALSE]
  /\ ClearPending(phase)
  /\ UNCHANGED <<slot, lock, aborted, gen, sess, read, git, clearVars>>

----------------------------------------------------------------------------
(* Git requests, and a restart of the server *)

GitBegin(g) ==
  /\ "git" \in Ops /\ git[g] = "idle"
  /\ git' = [git EXCEPT ![g] = "waiting"]
  /\ AwaitLock(g)
  /\ UNCHANGED <<row, pending, slot, deletion, turnVars, clearVars>>

GitBusy == row.running \/ HasTurn

GitWork(g) ==
  /\ git[g] = "waiting" /\ Holds(g)
  /\ row.exists /\ ~GitBusy
  /\ git' = [git EXCEPT ![g] = "working"]
  /\ UNCHANGED <<row, pending, slot, deletion, lock, turnVars, clearVars>>

GitRefuse_KeepsLock(g) ==                         \* mutant: an early return leaks
  /\ git[g] = "waiting" /\ Holds(g)
  /\ ~row.exists \/ GitBusy
  /\ git' = [git EXCEPT ![g] = "idle"]
  /\ UNCHANGED <<row, pending, slot, deletion, lock, turnVars, clearVars>>
GitRefuse(g) ==
  /\ git[g] = "waiting" /\ Holds(g)
  /\ ~row.exists \/ GitBusy
  /\ git' = [git EXCEPT ![g] = "idle"]
  /\ ReleaseLock
  /\ UNCHANGED <<row, pending, slot, deletion, turnVars, clearVars>>

GitEnd(g) ==
  /\ git[g] = "working"
  /\ git' = [git EXCEPT ![g] = "idle"]
  /\ ReleaseLock
  /\ UNCHANGED <<row, pending, slot, deletion, turnVars, clearVars>>

(* The registries and every request die with the process; opening the        *)
(* database resets running and drops the queue.                              *)
Restart ==
  /\ "restart" \in Ops
  /\ row' = [row EXCEPT !.running = FALSE]
  /\ pending' = <<>>
  /\ slot' = None /\ deletion' = "idle" /\ lock' = <<>>
  /\ phase' = [m \in Msg |-> IF phase[m] = "unsent" THEN "unsent" ELSE "done"]
  /\ git' = [g \in GitOp |-> "idle"]
  /\ clear' = [c \in Clear |-> IF clear[c] = "unsent" THEN "unsent" ELSE "done"]
  /\ UNCHANGED <<aborted, gen, sess, read, cgen, epoch>>

Post(m) ==
  \/ PostArrive(m) \/ PostClaim(m) \/ PostQueue(m) \/ PostReject(m)
  \/ PostRefuse(m) \/ PostPrepare(m) \/ Launch(m) \/ PostFail(m)
Run(m) == RunSession(m) \/ RunFinish(m)
Drain(m) == DrainDrop(m) \/ DrainResume(m) \/ DrainFail(m)
GitStep(g) == GitBegin(g) \/ GitWork(g) \/ GitRefuse(g) \/ GitEnd(g)
ClearStep(c) == ClearArrive(c) \/ ClearRefuse(c) \/ ClearAbort(c) \/ ClearEnd(c)
Delete == DeleteBegin \/ DeleteSettled \/ DeleteTimeout \/ DeleteFinish

Next ==
  \/ \E m \in Msg : Post(m) \/ Run(m) \/ Drain(m) \/ Unqueue(m)
  \/ \E g \in GitOp : GitStep(g)
  \/ \E c \in Clear : ClearStep(c)
  \/ Stop \/ Cancel \/ Delete \/ Restart

(*****************************************************************************)
(* Fairness: what is awaited under the lock (git) and outside it (the        *)
(* summary, a deletion's poll) ends, a waiter whose turn has come runs, and  *)
(* a driver whose signal is tripped unwinds.  Nothing says that an agent     *)
(* left alone ever ends its turn.                                            *)
(*****************************************************************************)
Fairness ==
  /\ \A m \in Msg :
       /\ WF_vars(PostRefuse(m) \/ PostPrepare(m))
       /\ WF_vars(Launch(m) \/ PostFail(m) \/ DrainFail(m))
       /\ WF_vars(DrainDrop(m) \/ DrainResume(m))
       /\ WF_vars(aborted[m] /\ RunFinish(m))
  /\ \A g \in GitOp : WF_vars(GitWork(g) \/ GitRefuse(g)) /\ WF_vars(GitEnd(g))
  /\ \A c \in Clear : WF_vars(ClearAbort(c) \/ ClearRefuse(c)) /\ WF_vars(ClearEnd(c))
  /\ WF_vars(DeleteSettled \/ DeleteTimeout) /\ WF_vars(DeleteFinish)

Spec == Init /\ [][Next]_vars
FairSpec == Spec /\ Fairness

----------------------------------------------------------------------------
(* Properties *)

Live(m) == phase[m] \in LivePhase
ActiveTurn(m) == phase[m] \in Launching \cup {"streaming"} /\ ~aborted[m]

(* Stop, DELETE and the merge guard find a turn through the slot, so every   *)
(* turn that has not been told to stop must be the slot's occupant.  (Two    *)
(* parallel turns, or a turn Stop cannot reach, break this: lib/abort.ts.)   *)
LiveTurnIsReachable == \A m \in Msg : Live(m) /\ ~aborted[m] => slot = m

(* A claim is never leaked: whoever is registered still has code to run that *)
(* will free or hand over the slot, or messages would queue into the void.   *)
SlotIsNeverOrphaned == HasTurn => Live(slot)

(* The worktree has one user: a turn that launches or streams and was not     *)
(* stopped, or a git operation (messages/route.ts, merge/route.ts: no turn    *)
(* starts writing while a merge is committing).                               *)
WorktreeUsers ==
  {m \in Msg : ActiveTurn(m)} \cup {g \in GitOp : git[g] = "working"}
WorktreeHasOneUser == \A x, y \in WorktreeUsers : x = y

(* The same as a refinement: a turn or a git operation enters an empty       *)
(* worktree only, and a handoff leaves before the follow-up enters.          *)
Worktree == INSTANCE WorktreeMutex WITH User <- Msg \cup GitOp, users <- WorktreeUsers
WorktreeSpec == Worktree!Spec

(* clear/route.ts 52-58: "whichever order the abort's finally and this write  *)
(* land in, the guard keeps session_id null": the row names no session that   *)
(* was opened before the last /clear.  Said of the clears that did not        *)
(* overlap, each of which found the generation that the one before it wrote:  *)
(* two that read the same generation write the same one, and a turn between   *)
(* them brings its session back (ClearedSessionNeverReturns).                 *)
ClearedStaysCleared == row.generation = epoch => row.session \in {0, epoch}

(* While a deletion removes the worktree, and once the row is gone, whatever *)
(* still runs has been told to stop, and nothing can start.                  *)
RemovedTaskIsQuiet ==
  deletion = "removing" \/ ~row.exists => \A m \in Msg : ~ActiveTurn(m)

(* tasks.running is what the merge routes and every list read: while the row  *)
(* has it set, and is not being deleted, some turn is there to reset it, and   *)
(* it is set while one streams.                                                *)
RunningIsLive ==
  /\ row.exists /\ row.running /\ ~Deleting => \E m \in Msg : Live(m)
  /\ \A m \in Msg : phase[m] = "streaming" /\ ~aborted[m] => row.running

(* A queued follow-up has a turn in front of it that will pop or drop it, or   *)
(* goes with its task.                                                         *)
QueuedHasTurn == pending # <<>> /\ ~Deleting => \E m \in Msg : Live(m)

(* A claimed or handed message gets its turn or is dropped: waiting for the    *)
(* lock behind git operations, other launches, a deletion never lasts forever. *)
ClaimsResolve ==
  \A m \in Msg : phase[m] \in {"claimed", "handed"} ~> phase[m] \in {"streaming", "done"}

(* A deletion ends, in a removed task or in a rollback.                        *)
DeletionEnds == Deleting ~> ~Deleting

(* If turns end by themselves, every queued follow-up leaves the queue.        *)
TurnsEnd == \A m \in Msg : []<>(phase[m] # "streaming")
QueueDrains == TurnsEnd => \A m \in Msg : phase[m] = "queued" ~> phase[m] # "queued"

(* What comments of the code claim and the code does not keep; no run checks it: *)
(* README, Known to fail.                                                        *)

(* clear/route.ts 52-58 of every /clear: false when two of them overlap.     *)
ClearedSessionNeverReturns == row.session \in {0, epoch}

(* clear/route.ts: a turn's work belongs to the old generation "and must not *)
(* bleed into the new one", so no unstopped turn outlives its generation.    *)
NoTurnOutlivesGeneration ==
  \A m \in Msg : phase[m] = "streaming" /\ ~aborted[m] => gen[m] = row.generation

(* tasks/[id]/route.ts DELETE stops the turn first "so the runner isn't      *)
(* mid-write when the directory disappears".                                 *)
RemovalWaitsForRunner == deletion = "removing" => \A m \in Msg : phase[m] # "streaming"
=============================================================================
