-------------------------------- MODULE Asks --------------------------------
(*******************************************************************************)
(* Questions an agent puts to the user in the middle of a turn, for one task:  *)
(* the registry of parked asks, the answer route with its durable receipt,     *)
(* the outcomes the ask_user bridge polls for and the task's awaiting_input.   *)
(*                                                                             *)
(*   lib/asks.ts, lib/agentTools.ts startAskUser                               *)
(*   app/api/tasks/[id]/answer/route.ts, app/api/internal/agent-tools/ask-user *)
(*   lib/runner.ts   the ask and ask_answered events and the finally           *)
(*                                                                             *)
(* How an ask reaches the registry depends on the turn's driver:               *)
(*   "hook"    Claude's PreToolUse hook awaits the answer in this process      *)
(*   "rpc"     Kimi Code's driver awaits it, then answers its agent by rpc     *)
(*   "bridge"  the agent's MCP process posts the ask, then polls for it        *)
(* An abort listener, a resolved promise's continuation and the runner's       *)
(* reading of a driver's queue are microtasks: they belong to the step that    *)
(* sets them off.  Generations and deletion are TaskTurns' business.           *)
(*******************************************************************************)
EXTENDS Naturals

CONSTANTS
  Ask,    \* questions, each with an id of its own
  Turn,   \* turns of the task
  None,
  Faults, \* "crash": an agent's process dies; "restart": the server is restarted
  MaxPost \* bound on how often the client sends one answer as a message

ASSUME NoneAssumption == None \notin Turn
ASSUME FaultsAssumption == Faults \subseteq {"crash", "restart"}
ASSUME MaxPostAssumption == MaxPost \in Nat

VARIABLES
  driver,    \* how each turn asks; never changes
  slot,      \* the live turn, as in TaskTurns
  turn,      \* where each turn is; "stopped": aborted, still unwinding
  asker,     \* whose agent asked
  owner,     \* whose abort signal the ask is tied to
  parked,    \* the registry
  waiter,    \* the promise waitForAnswer returned
  outcome,   \* outcomes waiting to be polled
  told,      \* what the agent got to hear; "error": its driver reports that it could not
  receipt,   \* asks with an ask_answer row
  posted,    \* how often the client sent the answer of an ask as an ordinary message
  awaiting   \* tasks.awaiting_input

turnVars == <<driver, slot, turn>>
askVars == <<asker, owner, parked, waiter, outcome, told>>
vars == <<turnVars, askVars, receipt, posted, awaiting>>

Word == {"none", "answer", "dismissal"}
Heard == Word \cup {"error"}

Bridged(a) == asker[a] # None /\ driver[asker[a]] = "bridge"

TypeOK ==
  /\ driver \in [Turn -> {"hook", "rpc", "bridge"}]
  /\ slot \in Turn \cup {None}
  /\ turn \in [Turn -> {"new", "running", "stopped", "over"}]
  /\ asker \in [Ask -> Turn \cup {None}]
  /\ owner \in [Ask -> Turn \cup {None}]
  /\ parked \in SUBSET Ask
  /\ waiter \in [Ask -> {"none", "waiting", "answered", "dismissed"}]
  /\ outcome \in [Ask -> Word]
  /\ \A a \in Ask : outcome[a] # "none" => Bridged(a)
  /\ told \in [Ask -> Heard]
  /\ receipt \in SUBSET Ask
  /\ posted \in [Ask -> 0 .. MaxPost]
  /\ awaiting \in BOOLEAN

Init ==
  /\ driver \in [Turn -> {"hook", "rpc", "bridge"}]
  /\ slot = None
  /\ turn = [t \in Turn |-> "new"]
  /\ asker = [a \in Ask |-> None] /\ owner = [a \in Ask |-> None]
  /\ parked = {}
  /\ waiter = [a \in Ask |-> "none"]
  /\ outcome = [a \in Ask |-> "none"] /\ told = [a \in Ask |-> "none"]
  /\ receipt = {} /\ posted = [a \in Ask |-> 0]
  /\ awaiting = FALSE

Alive(t) == t # None /\ turn[t] \in {"running", "stopped"}

(* The asks run() counts as open: raised in its turn, no ask_answered yet. *)
OpenAsks(t) == {a \in Ask : asker[a] = t /\ told[a] # "answer"}

----------------------------------------------------------------------------
(* Turns *)

StartTurn(t) ==
  /\ slot = None /\ turn[t] = "new"
  /\ slot' = t
  /\ turn' = [turn EXCEPT ![t] = "running"]
  /\ awaiting' = FALSE
  /\ UNCHANGED <<driver, askVars, receipt, posted>>

(* A turn with an open question ends because it was stopped, which kills its  *)
(* agent, or because the agent's process dies; of an "rpc" agent that is not   *)
(* read while its question is open.                                            *)
MayEnd(t) ==
  turn[t] = "running" /\ (driver[t] = "rpc" \/ "crash" \notin Faults) =>
    \A a \in Ask : asker[a] = t => waiter[a] # "waiting"

(* run()'s finally.  awaiting_input = whether a session was opened. *)
TurnEnds(t) ==
  /\ Alive(t) /\ MayEnd(t)
  /\ turn' = [turn EXCEPT ![t] = "over"]
  /\ slot' = IF slot = t THEN None ELSE slot
  /\ IF slot \in {t, None} THEN awaiting' \in BOOLEAN ELSE UNCHANGED awaiting
  /\ UNCHANGED <<driver, askVars, receipt, posted>>

(* The abort listeners of the asks tied to the slot's signal: each removes its *)
(* ask and rejects its waiter, and startAskUser's catch settles an outcome.    *)
Dismiss_Silent(S) ==                      \* mutant: the bridge is left polling
  /\ parked' = parked \ S
  /\ waiter' = [a \in Ask |-> IF a \in S THEN "dismissed" ELSE waiter[a]]
  /\ UNCHANGED <<outcome, told>>
Dismiss_OneOnly(S) ==                     \* mutant: one listener for all of them
  /\ IF S = {} THEN UNCHANGED <<parked, waiter>>
     ELSE \E a \in S : /\ parked' = parked \ {a}
                       /\ waiter' = [waiter EXCEPT ![a] = "dismissed"]
  /\ UNCHANGED <<outcome, told>>
Dismiss_AnyOutcome(S) ==                  \* mutant: outcomes nobody will poll for
  /\ parked' = parked \ S
  /\ waiter' = [a \in Ask |-> IF a \in S THEN "dismissed" ELSE waiter[a]]
  /\ outcome' = [a \in Ask |-> IF a \in S THEN "dismissal" ELSE outcome[a]]
  /\ UNCHANGED told
Dismiss(S) ==
  /\ parked' = parked \ S
  /\ waiter' = [a \in Ask |-> IF a \in S THEN "dismissed" ELSE waiter[a]]
  /\ outcome' = [a \in Ask |-> IF a \in S /\ Bridged(a) THEN "dismissal" ELSE outcome[a]]
  /\ told' = [a \in Ask |-> IF a \in S /\ ~Bridged(a) THEN "dismissal" ELSE told[a]]

Stop ==
  /\ slot # None
  /\ turn' = [turn EXCEPT ![slot] = "stopped"]
  /\ slot' = None
  /\ Dismiss({a \in parked : owner[a] = slot})
  /\ UNCHANGED <<driver, asker, owner, receipt, posted, awaiting>>

----------------------------------------------------------------------------
(* Asking *)

Park_OnePerTask(a) == parked' = {a}       \* mutant: a flat registry, one entry per task
Park(a) == parked' = parked \cup {a}

AskInTurn(t, a) ==
  /\ asker[a] = None
  /\ turn[t] = "running" /\ driver[t] \in {"hook", "rpc"}
  /\ asker' = [asker EXCEPT ![a] = t] /\ owner' = [owner EXCEPT ![a] = t]
  /\ Park(a)
  /\ waiter' = [waiter EXCEPT ![a] = "waiting"]
  /\ awaiting' = TRUE
  /\ UNCHANGED <<turnVars, outcome, told, receipt, posted>>

(* The hook of a turn that is already aborted: waitForAnswer rejects at once, *)
(* but the ask event was queued before it.                                    *)
AskTooLate(t, a) ==
  /\ asker[a] = None
  /\ turn[t] = "stopped" /\ driver[t] = "hook"
  /\ asker' = [asker EXCEPT ![a] = t] /\ owner' = [owner EXCEPT ![a] = t]
  /\ waiter' = [waiter EXCEPT ![a] = "dismissed"]
  /\ told' = [told EXCEPT ![a] = "dismissal"]
  /\ awaiting' = TRUE
  /\ UNCHANGED <<turnVars, parked, outcome, receipt, posted>>

(* The route wants a live turn, whosever it is; the ask is tied to its signal. *)
AskByBridge(t, a) ==
  /\ asker[a] = None
  /\ Alive(t) /\ driver[t] = "bridge" /\ slot # None
  /\ asker' = [asker EXCEPT ![a] = t] /\ owner' = [owner EXCEPT ![a] = slot]
  /\ Park(a)
  /\ waiter' = [waiter EXCEPT ![a] = "waiting"]
  /\ awaiting' = TRUE
  /\ UNCHANGED <<turnVars, outcome, told, receipt, posted>>

----------------------------------------------------------------------------
(* Answering *)

(* The ask_answered event of the driver `t`, read by run(). *)
ClearAwaiting(t, a) == awaiting' = IF OpenAsks(t) \subseteq {a} THEN FALSE ELSE awaiting

(* What follows submitAnswer's resolve() in the same burst.  The runner of a *)
(* turn that is over reads no more events; Kimi's agent is still to be told. *)
Continue(a) ==
  LET t == asker[a] IN
    \/ /\ driver[t] = "bridge"
       /\ outcome' = [outcome EXCEPT ![a] = "answer"]
       /\ awaiting' = FALSE
       /\ UNCHANGED told
    \/ /\ driver[t] = "hook" /\ Alive(t)
       /\ told' = [told EXCEPT ![a] = "answer"]
       /\ ClearAwaiting(t, a)
       /\ UNCHANGED outcome
    \/ /\ driver[t] = "rpc" \/ (driver[t] = "hook" /\ ~Alive(t))
       /\ UNCHANGED <<outcome, told, awaiting>>

AnswerParked(a) ==
  /\ a \notin receipt /\ a \in parked
  /\ receipt' = receipt \cup {a}
  /\ parked' = parked \ {a}
  /\ waiter' = [waiter EXCEPT ![a] = "answered"]
  /\ Continue(a)
  /\ UNCHANGED <<turnVars, asker, owner, posted>>

(* An answer may be submitted again at any time: by a second tab, or because a *)
(* response was lost.  A receipt turns it into a no-op; otherwise (resolved =  *)
(* false) the client posts the answer as an ordinary message.                  *)
NotWaiting_NoReceipt(a) == a \notin parked          \* mutant: the receipt is not read
NotWaiting(a) == a \notin receipt /\ a \notin parked
AnswerUnparked(a) ==
  /\ asker[a] # None /\ NotWaiting(a)
  /\ posted[a] < MaxPost
  /\ posted' = [posted EXCEPT ![a] = @ + 1]
  /\ UNCHANGED <<turnVars, askVars, receipt, awaiting>>

(* Kimi Code: respondQuestion is awaited ... *)
Responding(a) ==
  /\ asker[a] # None /\ driver[asker[a]] = "rpc" /\ Alive(asker[a])
  /\ waiter[a] = "answered" /\ told[a] = "none"

(* ... and came back, so ask_answered is yielded ... *)
Respond(a) ==
  /\ Responding(a)
  /\ told' = [told EXCEPT ![a] = "answer"]
  /\ ClearAwaiting(asker[a], a)
  /\ UNCHANGED <<turnVars, asker, owner, parked, waiter, outcome, receipt, posted>>

(* ... or threw: the agent died.  A turn that was not stopped yields an error, *)
(* and the question still counts as open.                                      *)
RespondFails(a) ==
  /\ Responding(a) /\ "crash" \in Faults /\ turn[asker[a]] = "running"
  /\ told' = [told EXCEPT ![a] = "error"]
  /\ UNCHANGED awaiting
  /\ UNCHANGED <<turnVars, asker, owner, parked, waiter, outcome, receipt, posted>>

(* ask-user/wait: the outcome is taken once. *)
Poll(a) ==
  /\ Bridged(a) /\ Alive(asker[a]) /\ outcome[a] # "none"
  /\ told' = [told EXCEPT ![a] = outcome[a]]
  /\ outcome' = [outcome EXCEPT ![a] = "none"]
  /\ UNCHANGED <<turnVars, asker, owner, parked, waiter, receipt, posted, awaiting>>

Restart ==
  /\ "restart" \in Faults
  /\ turn' = [t \in Turn |-> IF turn[t] = "new" THEN "new" ELSE "over"]
  /\ slot' = None
  /\ parked' = {}
  /\ outcome' = [a \in Ask |-> "none"]
  /\ waiter' = [a \in Ask |-> IF waiter[a] = "waiting" THEN "none" ELSE waiter[a]]
  /\ UNCHANGED <<driver, asker, owner, told, receipt, posted, awaiting>>

Next ==
  \/ \E t \in Turn : StartTurn(t) \/ TurnEnds(t)
  \/ \E t \in Turn, a \in Ask : AskInTurn(t, a) \/ AskTooLate(t, a) \/ AskByBridge(t, a)
  \/ \E a \in Ask : AnswerParked(a) \/ AnswerUnparked(a) \/ Respond(a) \/ RespondFails(a) \/ Poll(a)
  \/ Stop \/ Restart

(* A bridge polls every 1.5 s while its agent lives, and an rpc comes back or  *)
(* throws.                                                                     *)
Fairness ==
  \A a \in Ask : WF_vars(Poll(a)) /\ WF_vars(Respond(a) \/ RespondFails(a))

Spec == Init /\ [][Next]_vars
FairSpec == Spec /\ Fairness

----------------------------------------------------------------------------
(* Properties *)

(* Whatever still waits for an answer can be answered: no ask of a task hides  *)
(* another one raised beside it (asks.ts: a flat registry deadlocks the turn). *)
OpenQuestionIsAnswerable == \A a \in Ask : waiter[a] = "waiting" => a \in parked

(* A Stop leaves no question behind that only a dead turn could use: answering *)
(* it later must fall through to an ordinary message.                          *)
StopDismisses == \A a \in parked : turn[owner[a]] # "stopped"

(* answer/route.ts: without the receipt a retry "would send the same answer as *)
(* a new turn".  An answer reaches the agent as the result of its question, or *)
(* goes out as a message, never both, in whatever order answers, retries, a    *)
(* Stop and a restart come; and no agent is told of a question both that it    *)
(* was answered and that it was dismissed.  How often it goes out as a message *)
(* is another matter: AnswerPostedOnce.                                        *)
AnswerGoesOneWay ==
  \A a \in Ask :
    /\ posted[a] > 0 \/ "dismissal" \in {told[a], outcome[a]} =>
         a \notin receipt /\ told[a] # "answer" /\ outcome[a] # "answer"
    /\ told[a] \in {"answer", "error"} \/ outcome[a] = "answer" => a \in receipt

(* With Claude's hook, the task says that it needs the user as long as a live *)
(* turn has a question open (runner.ts: "until the last one is answered").    *)
AwaitingWhileHookAsks ==
  /\ \A t \in Turn : driver[t] = "hook"
  /\ \E a \in parked : turn[asker[a]] = "running"
  => awaiting

(* An answered or dismissed question is heard by the agent while it lives: the *)
(* bridge is not left polling for an outcome that never comes.  (Or its driver *)
(* says that it was not heard: Kimi Code's respondQuestion threw.)             *)
WaiterIsHeard ==
  \A a \in Ask :
    waiter[a] \in {"answered", "dismissed"} ~> told[a] # "none" \/ ~Alive(asker[a])

(* A question that nobody waits for any more is answered by one message.  The  *)
(* code does not keep it and no run checks it: after a Stop each of two tabs,  *)
(* or of two clicks, is told resolved:false and posts the answer.              *)
AnswerPostedOnce == \A a \in Ask : posted[a] <= 1

(* answer/route.ts: "`resolved: true` -> the live turn was waiting and will  *)
(* continue in its stream".  resolved is true exactly for the parked asks.   *)
(* The code does not keep it and no run checks it: README, Known to fail.    *)
ResolvedReachesLiveTurn == \A a \in parked : turn[owner[a]] = "running"
=============================================================================
