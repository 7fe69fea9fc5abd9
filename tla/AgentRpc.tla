------------------------------ MODULE AgentRpc ------------------------------
(*****************************************************************************)
(* One turn of an agent that is a child process spoken to over its standard  *)
(* streams: the driver's runTurn, the RPC client and the process tree.       *)
(*                                                                           *)
(*   lib/agents/prime/rpc.ts, dsh/rpc.ts         requests, exit, stop        *)
(*   lib/agents/prime/driver.ts, dsh/driver.ts   runTurn                     *)
(*   lib/agents/shared.ts                        makeQueue                   *)
(*                                                                           *)
(* Both agents run the same code but for the commented differences.  The     *)
(* agent is external: it answers a request, late or never, says what it      *)
(* likes once it has a prompt, forks, and dies when it pleases, so that a    *)
(* SIGTERM changes nothing here.  It may have died before its exit is seen,  *)
(* and what it wrote may be read after that.  Of the events only the queued  *)
(* errors matter; refusals before the launch and sessions are left out, and  *)
(* whether the stream told the usage is not remembered.  A request reaches   *)
(* the child's standard input: the error of a write to a pipe that is closed *)
(* already has no listener in the code (rpc.ts 161) and is left out, as is a *)
(* ps that fails, for which the tree is the root alone.                      *)
(*****************************************************************************)
EXTENDS Naturals

CONSTANTS
  Root,      \* the spawned process
  Grouped,   \* workers in the root's process group
  Detached   \* workers of the root that took a group of their own (setsid)

Worker == Grouped \cup Detached
Proc == {Root} \cup Worker

ASSUME ProcAssumption == Root \notin Worker /\ Grouped \cap Detached = {}

(* get_state or initialize; prompt; get_session_stats; abort *)
Request == {"probe", "prompt", "stats", "abort"}

VARIABLES
  kind,     \* which agent
  proc,     \* the processes; "doomed" ones have been sent a SIGKILL
  client,   \* [failure, exit]: PrimeRpcClient.failure and .exit are set
  req,      \* the turn's requests, each made at most once
  stop,     \* [at, tree]: performStop and the processes it knows of
  aborted,  \* the turn's AbortSignal
  queue,    \* [open, error]: the queue of events; an error waits in it
  turn      \* [at, ended, own, erred]: runTurn; the agent said it ended, and that
            \* it aborted by itself; an error was yielded

vars == <<kind, proc, client, req, stop, aborted, queue, turn>>

Init ==
  /\ kind \in {"prime", "dsh"}
  /\ proc = [p \in Proc |-> "unborn"]
  /\ client = [failure |-> FALSE, exit |-> FALSE]
  /\ req = [r \in Request |-> "unsent"]
  /\ stop = [at |-> "none", tree |-> {}]
  /\ aborted = FALSE
  /\ queue = [open |-> TRUE, error |-> FALSE]
  /\ turn = [at |-> "new", ended |-> FALSE, own |-> FALSE, erred |-> FALSE]

----------------------------------------------------------------------------
(* Processes *)

Alive(p) == proc[p] \in {"alive", "doomed"}
Forks(p) == proc[p] = "alive"

Fork(w) ==
  /\ proc[w] = "unborn"
  /\ IF w \in Detached THEN Forks(Root) ELSE \E p \in {Root} \cup Grouped : Forks(p)
  /\ proc' = [proc EXCEPT ![w] = "alive"]
  /\ UNCHANGED <<kind, client, req, stop, aborted, queue, turn>>

Dies(p) ==
  /\ Alive(p)
  /\ proc' = [proc EXCEPT ![p] = "dead"]
  /\ UNCHANGED <<kind, client, req, stop, aborted, queue, turn>>

ProcessTree_NoGroup ==                          \* mutant: ppid links only
  IF proc[Root] = "unborn" THEN {}
  ELSE {Root} \cup {w \in Worker : Alive(w) /\ Alive(Root)}
(* The root, its group, and its children while it lives: a detached worker of a dead *)
(* root has been reparented and is not found.                                        *)
ProcessTree ==
  IF proc[Root] = "unborn" THEN {}
  ELSE {Root} \cup {w \in Grouped : Alive(w)}
              \cup {w \in Detached : Alive(w) /\ Alive(Root)}

(* A signal goes to every known process and to its group. *)
SigKilled(ps) ==
  LET hit == ps \cup IF ps \cap ({Root} \cup Grouped) \cap {p \in Proc : Alive(p)} = {}
                     THEN {} ELSE {Root} \cup Grouped
  IN  [p \in Proc |-> IF p \in hit /\ Alive(p) THEN "doomed" ELSE proc[p]]

----------------------------------------------------------------------------
(* Requests *)

FailAll_ButPrompt(rs) ==                        \* mutant: one entry is forgotten
  [r \in Request |-> IF rs[r] = "pending" /\ r # "prompt" THEN "failed" ELSE rs[r]]
FailAll(rs) == [r \in Request |-> IF rs[r] = "pending" THEN "failed" ELSE rs[r]]

(* A request of a client that failed or has exited throws at once. *)
Sent(r, rs, failure) ==
  [rs EXCEPT ![r] = IF failure \/ client.exit THEN "failed" ELSE "pending"]

(* A failed prompt closes the queue. *)
ClosedBy(q, rs) == IF rs["prompt"] = "failed" THEN [q EXCEPT !.open = FALSE] ELSE q

Settles(r, result) ==
  /\ req[r] = "pending"
  /\ req' = [req EXCEPT ![r] = result]
  /\ queue' = ClosedBy(queue, req')
  /\ UNCHANGED <<kind, proc, client, stop, aborted, turn>>

Answer(r) == proc[Root] # "unborn" /\ \E result \in {"ok", "failed"} : Settles(r, result)
TimesOut(r) == Settles(r, "failed")

----------------------------------------------------------------------------
(* stop() *)

(* performStop up to its first wait.  Prime asks the agent to abort; dsh has no such *)
(* request and signals at once.  A process that exited by itself is not swept.       *)
Begun(rs, failure) ==
  CASE stop.at # "none" -> [st |-> stop, rs |-> rs]
    [] stop.at = "none" /\ client.exit -> [st |-> [at |-> "done", tree |-> {}], rs |-> rs]
    [] stop.at = "none" /\ ~client.exit /\ kind = "prime" ->
         [st |-> [at |-> "abort", tree |-> ProcessTree], rs |-> Sent("abort", rs, failure)]
    [] stop.at = "none" /\ ~client.exit /\ kind = "dsh" ->
         [st |-> [at |-> "term", tree |-> ProcessTree], rs |-> rs]

StopBegins(rs, failure) ==
  /\ stop' = Begun(rs, failure).st
  /\ req' = Begun(rs, failure).rs

AnyAlive(ps) == \E p \in ps : Alive(p)
Leftover(ps) == ~client.exit \/ AnyAlive(ps)

(* The wait for agent_end, the exit and the signal graces all have timeouts. *)
StopAsked ==
  /\ stop.at = "abort" /\ req["abort"] = "ok"
  /\ stop' = [stop EXCEPT !.at = "end"]
  /\ UNCHANGED <<kind, proc, client, req, aborted, queue, turn>>

StopTerms ==
  /\ stop.at = "end" \/ (stop.at = "abort" /\ req["abort"] = "failed")
  /\ LET tree == stop.tree \cup ProcessTree
     IN  stop' = [at |-> IF Leftover(tree) THEN "term" ELSE "sweep", tree |-> tree]
  /\ UNCHANGED <<kind, proc, client, req, aborted, queue, turn>>

StopKills ==
  /\ stop.at = "term"
  /\ IF Leftover(stop.tree)
     THEN /\ proc' = SigKilled(stop.tree \cup ProcessTree)
          /\ stop' = [stop EXCEPT !.at = "kill"]
     ELSE stop' = [stop EXCEPT !.at = "sweep"] /\ UNCHANGED proc
  /\ UNCHANGED <<kind, client, req, aborted, queue, turn>>

(* Assumed: a process that was sent a SIGKILL is gone before the grace is over.  The *)
(* code waits for the root's exit without a limit, for the rest of the tree for       *)
(* termGraceMs, and goes on with what still lives (waitForTreeExit).                  *)
StopKilled ==
  /\ stop.at = "kill" /\ client.exit /\ ~AnyAlive(stop.tree)
  /\ stop' = [stop EXCEPT !.at = "sweep"]
  /\ UNCHANGED <<kind, proc, client, req, aborted, queue, turn>>

Stragglers == {p \in ProcessTree \ {Root} : Alive(p)}

(* Twice at most, with a pause that is not a wait for the stragglers' death. *)
StopSweeps ==
  /\ stop.at \in {"sweep", "resweep"}
  /\ IF Stragglers = {} THEN stop' = [stop EXCEPT !.at = "done"] /\ UNCHANGED proc
     ELSE /\ proc' = SigKilled(Stragglers)
          /\ stop' = [stop EXCEPT !.at = IF @ = "sweep" THEN "resweep" ELSE "done"]
  /\ UNCHANGED <<kind, client, req, aborted, queue, turn>>

----------------------------------------------------------------------------
(* What the client hears *)

ExitSeen_OnlyExit ==                            \* mutant: a failed spawn settles nothing
  /\ ~client.exit /\ proc[Root] = "dead"
  /\ client' = [client EXCEPT !.exit = TRUE]
  /\ req' = FailAll(req)
  /\ queue' = [queue EXCEPT !.open = FALSE]
  /\ UNCHANGED <<kind, proc, stop, aborted, turn>>
(* The child's "exit", or its "error" when it could not be spawned. *)
ExitSeen ==
  /\ ~client.exit
  /\ proc[Root] = "dead" \/ (proc[Root] = "unborn" /\ turn.at # "new")
  /\ client' = [exit |-> TRUE, failure |-> client.failure \/ proc[Root] = "unborn"]
  /\ req' = FailAll(req)
  /\ queue' = [queue EXCEPT !.open = FALSE]
  /\ UNCHANGED <<kind, proc, stop, aborted, turn>>

(* After the turn is done its events reach nobody. *)
Speaks == proc[Root] # "unborn" /\ req["prompt"] # "unsent" /\ turn.at # "done"

ErrorEvent ==
  /\ Speaks
  /\ queue' = [queue EXCEPT !.error = @ \/ queue.open]
  /\ turn' = [turn EXCEPT !.own = IF kind = "prime" THEN FALSE ELSE @]
  /\ UNCHANGED <<kind, proc, client, req, stop, aborted>>

(* agent_end or turn/end, which may say that the agent aborted; Prime says so at the *)
(* end of a message, and its agent_end also answers an abort request.               *)
EndEvent ==
  /\ Speaks \/ (kind = "prime" /\ req["abort"] # "unsent" /\ proc[Root] # "unborn"
                                /\ turn.at # "done")
  /\ queue' = [queue EXCEPT !.open = FALSE]
  /\ \E own \in {turn.own, kind = "dsh"} :
        turn' = [turn EXCEPT !.ended = TRUE, !.own = own]
  /\ UNCHANGED <<kind, proc, client, req, stop, aborted>>

MessageEnd ==
  /\ Speaks /\ kind = "prime"
  /\ \E own \in BOOLEAN : turn' = [turn EXCEPT !.own = own]
  /\ UNCHANGED <<kind, proc, client, req, stop, aborted, queue>>

(* A line that is no JSON: the stream cannot be trusted any more. *)
ProtocolFailure ==
  /\ proc[Root] # "unborn" /\ turn.at # "done"
  /\ client' = [client EXCEPT !.failure = TRUE]
  /\ StopBegins(FailAll(req), TRUE)
  /\ queue' = ClosedBy(queue, req')
  /\ UNCHANGED <<kind, proc, aborted, turn>>

(* The turn's AbortSignal: the client listens to it from its construction on. *)
Abort ==
  /\ ~aborted /\ turn.at # "done"
  /\ aborted' = TRUE
  /\ IF turn.at = "new" THEN UNCHANGED <<stop, req>> ELSE StopBegins(req, client.failure)
  /\ UNCHANGED <<kind, proc, client, queue, turn>>

----------------------------------------------------------------------------
(* runTurn *)

Launch ==
  /\ turn.at = "new"
  /\ \E spawned \in BOOLEAN :
        /\ proc' = IF spawned THEN [proc EXCEPT ![Root] = "alive"] ELSE proc
        /\ LET first == [req EXCEPT !["probe"] = "pending"]
               tree == IF spawned THEN {Root} ELSE {}
           IN  IF aborted
               THEN /\ stop' = [at |-> IF kind = "prime" THEN "abort" ELSE "term", tree |-> tree]
                    /\ req' = IF kind = "prime" THEN [first EXCEPT !["abort"] = "pending"]
                              ELSE first
               ELSE req' = first /\ UNCHANGED stop
  /\ turn' = [turn EXCEPT !.at = IF kind = "prime" THEN "drain" ELSE "probe"]
  /\ UNCHANGED <<kind, client, aborted, queue>>

SendPrompt ==
  /\ req' = Sent("prompt", req, client.failure)
  /\ queue' = ClosedBy(queue, req')
  /\ UNCHANGED <<kind, proc, client, stop, aborted>>

(* Prime's probe runs beside the stream, and may fail: the prompt follows anyway. *)
PromptAfterProbe ==
  /\ kind = "prime" /\ req["probe"] \in {"ok", "failed"} /\ req["prompt"] = "unsent"
  /\ SendPrompt /\ UNCHANGED turn

(* dsh awaits its probe first; the error of a failed one goes to the catch clause. *)
Initialized ==
  /\ turn.at = "probe" /\ req["probe"] = "ok"
  /\ SendPrompt /\ turn' = [turn EXCEPT !.at = "drain"]

NotInitialized ==
  /\ turn.at = "probe" /\ req["probe"] = "failed"
  /\ turn' = [turn EXCEPT !.at = "settle", !.erred = @ \/ ~aborted]
  /\ StopBegins(req, client.failure)
  /\ UNCHANGED <<kind, proc, client, aborted, queue>>

YieldError ==
  /\ turn.at = "drain" /\ queue.error
  /\ queue' = [queue EXCEPT !.error = FALSE]
  /\ turn' = [turn EXCEPT !.erred = @ \/ ~(aborted \/ turn.own)]
  /\ UNCHANGED <<kind, proc, client, req, stop, aborted>>

Drained ==
  /\ turn.at = "drain" /\ ~queue.error /\ ~queue.open
  /\ turn' = [turn EXCEPT !.at = "prompt"]
  /\ UNCHANGED <<kind, proc, client, req, stop, aborted, queue>>

PromptDone_NotAwaited(rs) == TRUE               \* mutant: the error is looked for too early
(* await promptDone *)
PromptDone(rs) == rs["prompt"] \in {"ok", "failed"}

PromptSettled ==
  /\ turn.at = "prompt" /\ PromptDone(req)
  /\ turn' = [turn EXCEPT !.at = "after",
                          !.erred = @ \/ (req["prompt"] = "failed" /\ ~aborted)]
  /\ UNCHANGED <<kind, proc, client, req, stop, aborted, queue>>

(* Prime asks for the usage of a turn that ended, unless the stream told it. *)
WantsStats == kind = "prime" /\ turn.ended /\ ~aborted

AskStats ==
  /\ turn.at = "after" /\ WantsStats
  /\ req' = Sent("stats", req, client.failure)
  /\ turn' = [turn EXCEPT !.at = "stats"]
  /\ UNCHANGED <<kind, proc, client, stop, aborted, queue>>

(* finally: await client.stop() *)
Settle ==
  /\ turn.at = "after" \/ (turn.at = "stats" /\ req["stats"] \in {"ok", "failed"})
  /\ turn' = [turn EXCEPT !.at = "settle"]
  /\ StopBegins(req, client.failure)
  /\ UNCHANGED <<kind, proc, client, aborted, queue>>

Stopped == stop.at = "done"

Done ==
  /\ turn.at = "settle" /\ Stopped
  /\ turn' = [turn EXCEPT !.at = "done"]
  /\ UNCHANGED <<kind, proc, client, req, stop, aborted, queue>>

----------------------------------------------------------------------------
Drive ==
  \/ Launch \/ PromptAfterProbe \/ Initialized \/ NotInitialized
  \/ YieldError \/ Drained \/ PromptSettled \/ AskStats \/ Settle \/ Done
StopSteps == StopAsked \/ StopTerms \/ StopKills \/ StopKilled \/ StopSweeps
Hear == ErrorEvent \/ EndEvent \/ MessageEnd \/ ProtocolFailure

Next ==
  \/ Drive \/ StopSteps \/ Hear \/ ExitSeen \/ Abort
  \/ \E r \in Request : Answer(r) \/ TimesOut(r)
  \/ \E w \in Worker : Fork(w)
  \/ \E p \in Proc : Dies(p)

(* Promises that are settled resume, timers fire, a SIGKILL kills.  The agent need *)
(* not say or do anything.                                                         *)
Fairness ==
  /\ WF_vars(Drive) /\ WF_vars(PromptAfterProbe) /\ WF_vars(StopSteps) /\ WF_vars(ExitSeen)
  /\ \A r \in Request : WF_vars(TimesOut(r))
  /\ \A p \in Proc : WF_vars(proc[p] = "doomed" /\ Dies(p))

Spec == Init /\ [][Next]_vars
FairSpec == Spec /\ Fairness

----------------------------------------------------------------------------
(* Properties *)

(* The types; and no request waits for an answer once the child's exit was seen, *)
(* not even one sent while the exit or a stop was on its way: failAllPending.     *)
TypeOK ==
  /\ kind \in {"prime", "dsh"}
  /\ proc \in [Proc -> {"unborn", "alive", "doomed", "dead"}]
  /\ client \in [failure : BOOLEAN, exit : BOOLEAN]
  /\ req \in [Request -> {"unsent", "pending", "ok", "failed"}]
  /\ stop \in [at : {"none", "abort", "end", "term", "kill", "sweep", "resweep", "done"},
               tree : SUBSET Proc]
  /\ aborted \in BOOLEAN
  /\ queue \in [open : BOOLEAN, error : BOOLEAN]
  /\ turn \in [at : {"new", "probe", "drain", "prompt", "after", "stats", "settle", "done"},
               ended : BOOLEAN, own : BOOLEAN, erred : BOOLEAN]
  /\ client.exit => \A r \in Request : req[r] # "pending"

(* When a turn reports its outcome nothing is left of the tree its stop saw, and    *)
(* nothing of the root's group that has not been sent a SIGKILL, whatever was forked *)
(* or exited while it waited: performStop and the finally of runTurn.  A root that   *)
(* exited before the stop began is the exception: its workers are not looked for.    *)
TurnLeavesNoTree ==
  turn.at = "done" /\ stop.tree # {} =>
    /\ ~AnyAlive(stop.tree)
    /\ \A w \in Grouped : proc[w] # "alive"

(* A prompt the agent did not take, or a session it could not open, is reported,   *)
(* whichever of the queue's end and the rejection comes first, unless the turn was *)
(* aborted: runTurn's promptError and catch.                                       *)
FailureIsReported ==
  turn.at = "done" /\ ~aborted
    /\ (req["prompt"] = "failed" \/ (kind = "dsh" /\ req["probe"] = "failed"))
    => turn.erred

(* Also with an agent that ignores everything, forks and never answers, a turn ends   *)
(* once it was stopped, the child is gone, the stream is broken or the agent said so. *)
TurnEnds ==
  turn.at # "new" /\ (aborted \/ client.exit \/ client.failure \/ turn.ended)
    ~> turn.at = "done"

(* An agent that dies before it said it ended, in a turn nobody aborted, makes an *)
(* error, as the drivers' tests say: it does not once the prompt was answered.    *)
CrashIsReported ==
  turn.at = "done" /\ ~turn.ended /\ ~aborted => turn.erred
=============================================================================
