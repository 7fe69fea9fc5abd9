-------------------------- MODULE WorkstreamOutbox --------------------------
(*****************************************************************************)
(* The durable outbox of one linked tracker card: events are queued in       *)
(* SQLite and delivered to a remote tracker by a worker that passes over     *)
(* the queue every few seconds, and by agents' tool calls that try at once.  *)
(*                                                                           *)
(*   lib/workstreams/store.ts    link and outbox rows, claims and leases     *)
(*   lib/workstreams/worker.ts   reconciliation and one delivery pass        *)
(*   lib/agentTools.ts           deliverOutboxEvent and its two callers      *)
(*   app/api/tasks/[id]/workstream, app/open/route.ts   commands, activation *)
(*                                                                           *)
(* The tracker is external and may answer anything at any time, also what    *)
(* was true of it only when it was asked, and the server may restart, until  *)
(* both are "steady" for good.  Time only appears as a lease that has lapsed *)
(* and a retry that has fallen due.  The workstream a post goes to is not    *)
(* told apart; other cards only add awaits to a pass.                        *)
(*****************************************************************************)
EXTENDS Naturals

CONSTANTS
  Event,        \* outbox events, each with its idempotency key
  Worker,       \* the worker; startWorkstreamWorker runs one pass at a time
  Tool,         \* tool calls of agents
  Request,      \* HTTP requests on the workstream; one at a time is either
  None,
  MaxAttempts   \* MAX_WORKSTREAM_DELIVERY_ATTEMPTS

Claimant == {Worker} \cup Tool
Actor == Claimant \cup Request

ASSUME ActorAssumption ==
  /\ Worker \notin Tool \cup Request /\ None \notin Actor
ASSUME NoneAssumption == None \notin Event
ASSUME BoundAssumption == MaxAttempts \in Nat \ {0}

VARIABLES
  link,    \* workstream_links.state
  ev,      \* the outbox rows
  todo,    \* the claimed events the worker's pass has not come to yet
  job,     \* what each actor is doing, and what it remembers meanwhile
  steady   \* from now on the tracker has the card active and the server stays up

vars == <<link, ev, todo, job, steady>>

LinkState == {"active", "paused", "disconnected"}

(* A failed row is "later" until its retry time, or is never tried again:      *)
(* "spent" out of attempts, "refused" by the tracker.  `tries` is a history    *)
(* variable: claims that failed, or lapsed and were taken over.  Both counters *)
(* stop at MaxAttempts, beyond which the code does not tell numbers apart.     *)
EventRow ==
  [state : {"absent", "pending", "delivering", "delivered", "failed"},
   token : Claimant \cup {None}, lapsed : BOOLEAN,
   due : {"now", "later", "spent", "refused"},
   attempts : 0 .. MaxAttempts, tries : 0 .. MaxAttempts]

(* What the tracker says of a workstream it is asked about.  "paused" also       *)
(* stands for "activating": every caller writes paused then, and a command ends, *)
(* as it does here when it is lost.                                              *)
ReadReply == IF steady THEN {"active", "error"} ELSE LinkState \cup {"error"}

(* A post can come back ok, with the tracker's state, as a state conflict that *)
(* does not name it (409 is final, 423 is not), refused for good, or as a      *)
(* failure to retry: timeout, network, 5xx, an unreadable answer.              *)
PostReply ==
  {"ok", "refused", "retry"} \cup
  IF steady THEN {} ELSE {"paused", "disconnected", "conflict409", "conflict423"}

Job ==
  [at : {"idle", "reading", "eligible", "batch", "ready", "posting",
         "asking409", "asking423", "sending", "acking"},
   kind : {"none", "refresh", "pause", "resume", "disconnect"},
   seen : LinkState, on : Event \cup {None}]

TypeOK ==
  /\ link \in LinkState
  /\ ev \in [Event -> EventRow]
  /\ \A e \in Event : ev[e].token # None <=> ev[e].state = "delivering"
  /\ todo \in SUBSET Event
  /\ job \in [Actor -> Job]
  /\ steady \in BOOLEAN

Idle == [at |-> "idle", kind |-> "none", seen |-> "active", on |-> None]

NoRow == [state |-> "absent", token |-> None, lapsed |-> FALSE, due |-> "now",
          attempts |-> 0, tries |-> 0]
NewRow == [NoRow EXCEPT !.state = "pending"]

Init ==
  /\ link = "active"
  /\ ev = [e \in Event |-> NoRow]
  /\ todo = {}
  /\ job = [a \in Actor |-> Idle]
  /\ steady = FALSE

----------------------------------------------------------------------------
(* The store *)

UpTo(n) == IF n > MaxAttempts THEN MaxAttempts ELSE n

Claimable_NoLease(e) ==                     \* mutant: a live claim is taken over
  \/ ev[e].state \in {"pending", "failed"} /\ ev[e].due = "now"
  \/ ev[e].state = "delivering"
Claimable_NeverAgain(e) ==                  \* mutant: an expired claim is not found
  ev[e].state \in {"pending", "failed"} /\ ev[e].due = "now"
Claimable(e) ==
  \/ ev[e].state \in {"pending", "failed"} /\ ev[e].due = "now"
  \/ ev[e].state = "delivering" /\ ev[e].lapsed

Claimed(e, c) ==
  [ev[e] EXCEPT !.state = "delivering", !.token = c, !.lapsed = FALSE,
                !.attempts = UpTo(@ + 1),
                !.tries = IF ev[e].state = "delivering" THEN UpTo(@ + 1) ELSE @]

Mine_AnyToken(c, e) == TRUE                 \* mutant: WHERE id = ? alone
Mine(c, e) == ev[e].state = "delivering" /\ ev[e].token = c

Settled(e, s) == [ev[e] EXCEPT !.state = s, !.token = None, !.lapsed = FALSE]

(* Rows that nothing will claim again forget their counters: nothing reads them. *)
Delivered(e) == [NoRow EXCEPT !.state = "delivered"]

Released_KeepsToken(e) ==                   \* mutant: the claim is not cleared
  [ev[e] EXCEPT !.state = "pending", !.lapsed = FALSE, !.due = "now",
                !.attempts = IF @ = 0 THEN 0 ELSE @ - 1]
Released(e) ==
  [Settled(e, "pending") EXCEPT !.due = "now",
                                !.attempts = IF @ = 0 THEN 0 ELSE @ - 1]

Failed(e, due) ==
  IF due = "refused" THEN [NoRow EXCEPT !.state = "failed", !.due = due]
  ELSE [Settled(e, "failed") EXCEPT !.due = due, !.tries = UpTo(@ + 1)]

(* setWorkstreamState throws rather than let a disconnected link come back. *)
Refused(s) == link = "disconnected" /\ s # "disconnected"

Enqueue(e) ==
  /\ ev[e].state = "absent" /\ link # "disconnected"
  /\ ev' = [ev EXCEPT ![e] = NewRow]
  /\ UNCHANGED <<link, todo, job, steady>>

(* queueWorkstreamLifecycle, best effort; only Event bounds the rows. *)
QueueLifecycle ==
  LET free == {e \in Event : ev[e].state = "absent"} IN
    IF free = {} THEN UNCHANGED ev
    ELSE \E e \in free : ev' = [ev EXCEPT ![e] = NewRow]

(* What a read does to the link, in the worker and in the routes alike: it is *)
(* written only if the answer differs from the state remembered.              *)
Reconcile(seen, r) == link' = IF r = seen THEN link ELSE r
CannotReconcile(seen, r) == r = "error" \/ (r # seen /\ Refused(r))

----------------------------------------------------------------------------
(* One pass of the worker *)

W == job[Worker]
Work(j) == job' = [job EXCEPT ![Worker] = j]
BackToBatch == Work([Idle EXCEPT !.at = "batch"])

(* The pass ends, or something it calls throws: the claims it has left are   *)
(* forgotten, and stay "delivering" until they lapse.                        *)
Quit == Work(Idle) /\ todo' = {}

PassBegin ==
  /\ W.at = "idle" /\ link # "disconnected"
  /\ Work([Idle EXCEPT !.at = "reading", !.seen = link])
  /\ UNCHANGED <<link, ev, todo, steady>>

PassReconcile ==
  /\ W.at = "reading"
  /\ \E r \in ReadReply :
       \/ CannotReconcile(W.seen, r) /\ Quit /\ UNCHANGED link
       \/ /\ ~CannotReconcile(W.seen, r)
          /\ Reconcile(W.seen, r)
          /\ IF r = "active" THEN Work([Idle EXCEPT !.at = "eligible"]) ELSE Work(Idle)
          /\ UNCHANGED todo
  /\ UNCHANGED <<ev, steady>>

(* Other cards' reads were awaited in between. *)
PassClaim ==
  /\ W.at = "eligible"
  /\ todo' = IF link = "active" THEN {e \in Event : Claimable(e)} ELSE {}
  /\ ev' = [e \in Event |-> IF e \in todo' THEN Claimed(e, Worker) ELSE ev[e]]
  /\ BackToBatch
  /\ UNCHANGED <<link, steady>>

(* What follows up to the next delivery is one burst (see Next), of several  *)
(* commits.  The link is read again before every delivery.                   *)
MayPost_AsClaimed == TRUE                   \* mutant: the link is not read again
MayPost == link = "active"

PassPost(e) ==
  /\ W.at = "batch" /\ e \in todo /\ MayPost
  /\ todo' = todo \ {e}
  /\ Work([Idle EXCEPT !.at = "posting", !.on = e])
  /\ UNCHANGED <<link, ev, steady>>

PassRelease(e) ==
  /\ W.at = "batch" /\ e \in todo /\ ~MayPost
  /\ IF Mine(Worker, e)
       THEN ev' = [ev EXCEPT ![e] = Released(e)] /\ todo' = todo \ {e} /\ UNCHANGED job
       ELSE Quit /\ UNCHANGED ev
  /\ UNCHANGED <<link, steady>>

PassEnd ==
  /\ W.at = "batch" /\ todo = {}
  /\ Quit
  /\ UNCHANGED <<link, ev, steady>>

(* Writing the outcome of a delivery throws unless the claim is still held. *)
PassWrites(row) ==
  IF Mine(Worker, W.on)
    THEN ev' = [ev EXCEPT ![W.on] = row] /\ BackToBatch /\ UNCHANGED todo
    ELSE Quit /\ UNCHANGED ev

PassDelivered ==
  /\ W.at = "posting" /\ "ok" \in PostReply
  /\ PassWrites(Delivered(W.on))
  /\ UNCHANGED <<link, steady>>

(* A conflict that does not name the state makes the worker ask for it. *)
PassAsk ==
  /\ W.at = "posting"
  /\ \/ "conflict409" \in PostReply /\ Work([W EXCEPT !.at = "asking409"])
     \/ "conflict423" \in PostReply /\ Work([W EXCEPT !.at = "asking423"])
  /\ UNCHANGED <<link, ev, todo, steady>>

Asking == W.at \in {"asking409", "asking423"}

PassStateHeard ==
  /\ \E s \in {"paused", "disconnected"} :
       /\ (W.at = "posting" /\ s \in PostReply) \/ (Asking /\ s \in ReadReply)
       /\ IF Refused(s) THEN Quit /\ UNCHANGED <<link, ev>>
          ELSE link' = s /\ PassWrites(Released(W.on))
  /\ UNCHANGED steady

(* A conflict that turns out to be none is a failure like others. *)
PassFailed ==
  /\ \/ W.at = "posting" \/ Asking
  /\ \E final \in IF Asking THEN {W.at = "asking409"} ELSE BOOLEAN :
       PassWrites(Failed(W.on, IF final THEN "refused"
                               ELSE IF ev[W.on].attempts >= MaxAttempts THEN "spent"
                               ELSE "later"))
  /\ UNCHANGED <<link, steady>>

Batch == PassEnd \/ \E e \in Event : PassPost(e) \/ PassRelease(e)
Pass ==
  \/ PassReconcile \/ PassClaim
  \/ PassDelivered \/ PassAsk \/ PassStateHeard \/ PassFailed

----------------------------------------------------------------------------
(* A tool call *)

Done(a) == job' = [job EXCEPT ![a] = Idle]

(* The link is read; an update's attachments are awaited. *)
ToolBegin(t, e) ==
  /\ job[t].at = "idle" /\ link # "disconnected"
  /\ job' = [job EXCEPT ![t] = [Idle EXCEPT !.at = "ready", !.on = e, !.seen = link]]
  /\ UNCHANGED <<link, ev, todo, steady>>

(* Enqueued unless its key is there already, then claimed and posted in the  *)
(* same burst, unless the link was paused when it was read.                  *)
ToolSend(t) ==
  LET e == job[t].on
      absent == ev[e].state = "absent"
      posts == job[t].seen = "active" /\ link = "active" /\ (absent \/ Claimable(e))
  IN
    /\ job[t].at = "ready"
    /\ \/ /\ posts
          /\ ev' = [ev EXCEPT ![e] =
                      IF absent THEN [NewRow EXCEPT !.state = "delivering", !.token = t,
                                                    !.attempts = 1]
                      ELSE Claimed(e, t)]
          /\ job' = [job EXCEPT ![t] = [Idle EXCEPT !.at = "posting", !.on = e]]
       \/ /\ ~posts
          /\ ev' = IF absent /\ link # "disconnected" THEN [ev EXCEPT ![e] = NewRow] ELSE ev
          /\ Done(t)
    /\ UNCHANGED <<link, todo, steady>>

(* Whatever came back, the call ends; a claim that was lost makes it throw. *)
ToolSettle(t) ==
  LET e == job[t].on
      writes(row) == ev' = [ev EXCEPT ![e] = row]
  IN
    /\ job[t].at = "posting"
    /\ Done(t)
    /\ \E r \in PostReply :
         \/ ~Mine(t, e) /\ UNCHANGED <<link, ev>>
         \/ Mine(t, e) /\ r = "ok" /\ writes(Delivered(e)) /\ UNCHANGED link
         \/ /\ Mine(t, e) /\ r \in {"paused", "disconnected"}
            /\ writes(Released(e))
            /\ link' = IF Refused(r) THEN link ELSE r
         \/ /\ Mine(t, e) /\ r \in {"refused", "conflict409"}
            /\ writes(Failed(e, "refused")) /\ UNCHANGED link
         \/ /\ Mine(t, e) /\ r \in {"retry", "conflict423"}
            /\ writes(Failed(e, "later")) /\ UNCHANGED link
    /\ UNCHANGED <<todo, steady>>

----------------------------------------------------------------------------
(* Requests: GET of the workstream ("refresh"), its commands, an activation *)

Allowed(k, s) ==
  CASE k = "pause" -> s = "active"
    [] k = "resume" -> s = "paused"
    [] OTHER -> s \in {"active", "paused"}

Ask(r, k) ==
  /\ job[r].at = "idle" /\ Allowed(k, link)
  /\ job' = [job EXCEPT ![r] = [Idle EXCEPT !.at = "reading", !.kind = k, !.seen = link]]
  /\ UNCHANGED <<link, ev, todo, steady>>

Heard(q) ==
  /\ job[q].at = "reading"
  /\ \E r \in ReadReply :
       \/ CannotReconcile(job[q].seen, r) /\ Done(q) /\ UNCHANGED link
       \/ /\ ~CannotReconcile(job[q].seen, r)
          /\ Reconcile(job[q].seen, r)
          /\ IF job[q].kind # "refresh" /\ Allowed(job[q].kind, r)
               THEN job' = [job EXCEPT ![q] = [Idle EXCEPT !.at = "sending",
                                                           !.kind = job[q].kind]]
               ELSE Done(q)
  /\ UNCHANGED <<ev, todo, steady>>

(* The tracker's token was exchanged for a workstream of the same card. *)
Activate(r) ==
  /\ job[r].at = "idle"
  /\ link' = "paused"
  /\ job' = [job EXCEPT ![r] = [Idle EXCEPT !.at = "acking"]]
  /\ UNCHANGED <<ev, todo, steady>>

(* The tracker took the command or the acknowledgement: the link follows, unless *)
(* it was disconnected meanwhile (the route throws), and the card is told.       *)
Commanded(r) ==
  LET s == CASE job[r].at = "acking" \/ job[r].kind = "resume" -> "active"
             [] job[r].kind = "pause" -> "paused"
             [] OTHER -> "disconnected"
  IN
    /\ job[r].at \in {"sending", "acking"}
    /\ Done(r)
    /\ IF Refused(s) THEN UNCHANGED <<link, ev>>
       ELSE /\ link' = s
            /\ IF s = "disconnected" THEN UNCHANGED ev ELSE QueueLifecycle
    /\ UNCHANGED <<todo, steady>>

CommandLost(r) ==
  /\ job[r].at \in {"sending", "acking"}
  /\ Done(r)
  /\ UNCHANGED <<link, ev, todo, steady>>

----------------------------------------------------------------------------
(* The tracker, time and crashes *)

BecomeSteady == ~steady /\ steady' = TRUE /\ UNCHANGED <<link, ev, todo, job>>

Lapse(e) ==
  /\ ev[e].state = "delivering" /\ ~ev[e].lapsed
  /\ ev' = [ev EXCEPT ![e].lapsed = TRUE]
  /\ UNCHANGED <<link, todo, job, steady>>

FallDue(e) ==
  /\ ev[e].due = "later"
  /\ ev' = [ev EXCEPT ![e].due = "now"]
  /\ UNCHANGED <<link, todo, job, steady>>

Restart ==
  /\ ~steady
  /\ job' = [a \in Actor |-> Idle]
  /\ todo' = {}
  /\ UNCHANGED <<link, ev, steady>>

(* Whatever the other actors do waits for the end of the worker's burst; only a *)
(* crash does not.                                                              *)
Others ==
  \/ \E e \in Event : Enqueue(e) \/ Lapse(e) \/ FallDue(e)
  \/ \E t \in Tool : ToolSend(t) \/ ToolSettle(t) \/ \E e \in Event : ToolBegin(t, e)
  \/ \E r \in Request : Heard(r) \/ Activate(r) \/ Commanded(r) \/ CommandLost(r)
  \/ \E r \in Request, k \in {"refresh", "pause", "resume", "disconnect"} : Ask(r, k)
  \/ BecomeSteady

Next ==
  \/ PassBegin \/ Pass \/ Batch
  \/ W.at # "batch" /\ Others
  \/ Restart

(* The worker's timer fires, its requests time out, the clock runs. *)
Fairness ==
  /\ WF_vars(PassBegin) /\ WF_vars(Pass \/ Batch)
  /\ \A e \in Event : WF_vars(Lapse(e)) /\ WF_vars(FallDue(e))

Spec == Init /\ [][Next]_vars
FairSpec == Spec /\ Fairness

----------------------------------------------------------------------------
(* Properties *)

(* The retry budget is spent by attempts that really failed or died: a delivery *)
(* that found the card paused or disconnected gives its attempt back.           *)
GivenUpAfterBudget == \A e \in Event : ev[e].due = "spent" => ev[e].tries >= MaxAttempts

(* What a row tells of its event, claims and timers apart. *)
Fate(row) ==
  CASE row.state = "delivering" -> "out"
    [] row.due \in {"spent", "refused"} -> row.due
    [] row.state \in {"absent", "delivered"} -> row.state
    [] OTHER -> "queued"

Queue == INSTANCE DeliveryQueue WITH
  Budget <- MaxAttempts,
  fate <- [e \in Event |-> Fate(ev[e])],
  missed <- [e \in Event |-> ev[e].tries]

(* Whoever claims, overtakes, is late or dies, the outbox is the queue that those *)
(* who enqueue into it count on: a delivery that is over is never reopened, none  *)
(* is lost, and none is given up before MaxAttempts deliveries failed or died.    *)
DeliversAsAQueue == Queue!Spec

(* A delivered event stays delivered: a slow claimant whose lease lapsed cannot *)
(* reopen what another one delivered meanwhile.                                 *)
DeliveredIsFinal ==
  [][\A e \in Event : ev[e].state = "delivered" => ev'[e].state = "delivered"]_vars

(* Until its lease lapses, a claim is ended by its holder alone: nobody else's *)
(* step moves the event to another owner or another state.                     *)
LeaseIsRespected ==
  [][\A e \in Event : \A c \in Claimant :
       ev[e].token = c /\ ~ev[e].lapsed /\ ev'[e].token # c
         => job'[c] # job[c] \/ (c = Worker /\ W.at = "batch")]_vars

(* No delivery starts unless the card is active here: once a delivery, a command *)
(* or a read has found it paused or disconnected, the rest of a batch stays.     *)
NoPostUnlessActive ==
  [][\A c \in Claimant :
       job'[c].at = "posting" /\ job[c].at # "posting" => link = "active"]_vars

(* A disconnected card comes back only by an activation, whoever still holds an *)
(* older answer of the tracker.                                                 *)
DisconnectSticks ==
  [][link = "disconnected" /\ link' # "disconnected" => \E r \in Request : Activate(r)]_vars

(* Once the card is active on both sides, can be read now and then, tool calls    *)
(* stop and the server stays up, every event is delivered or given up: also those *)
(* whose claim died with a pass, a call or the server.                            *)
Calm ==
  /\ <>[](steady /\ link = "active" /\ \A t \in Tool : job[t].at = "idle")
  /\ []<>(W.at = "eligible")
Over(e) == ev[e].state = "delivered" \/ ev[e].due \in {"spent", "refused"}
EveryEventSettles == Calm => \A e \in Event : ev[e].state # "absent" ~> Over(e)
=============================================================================
