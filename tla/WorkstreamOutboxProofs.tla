----------------------- MODULE WorkstreamOutboxProofs -----------------------
(*****************************************************************************)
(* WorkstreamOutbox, for every set of events, tools and requests and every   *)
(* retry budget, whatever the tracker answers: a delivered event stays so, a *)
(* lease is respected, nothing is posted unless the card is active, a        *)
(* disconnected card stays so, and an event is given up only after its       *)
(* budget of attempts failed.  The invariant is a condition on one row, kept *)
(* by every change of a row, and on what one actor remembers.                *)
(*****************************************************************************)
EXTENDS WorkstreamOutbox, TLAPS

(* A claim that is still out is the one attempt that has not failed yet; a row is *)
(* given up when as many attempts failed as were made.                            *)
InBudget(row) ==
  /\ row.state = "delivering" => row.due = "now" /\ row.tries + 1 >= row.attempts
  /\ row.state # "delivering" => row.tries >= row.attempts
  /\ row.due = "spent" => row.tries >= MaxAttempts

RowInv(row) ==
  /\ row \in EventRow
  /\ row.token # None <=> row.state = "delivering"
  /\ row.due # "now" => row.state = "failed"
  /\ row.state = "absent" => row.tries = 0
  /\ InBudget(row)

JobInv(j) ==
  /\ j \in Job
  /\ j.at \in {"ready", "posting", "asking409", "asking423"} => j.on \in Event

RowsInv == ev \in [Event -> EventRow] /\ \A e \in Event : RowInv(ev[e])
JobsInv == job \in [Actor -> Job] /\ \A a \in Actor : JobInv(job[a])

IInv ==
  /\ link \in LinkState
  /\ RowsInv
  /\ todo \in SUBSET Event
  /\ JobsInv
  /\ steady \in BOOLEAN

USE ActorAssumption, NoneAssumption, BoundAssumption

----------------------------------------------------------------------------
(* Rows *)

LEMMA UpToBounds ==
  ASSUME NEW n \in Nat
  PROVE  /\ UpTo(n) \in 0 .. MaxAttempts
         /\ UpTo(n) <= n
         /\ UpTo(n) = n \/ UpTo(n) = MaxAttempts
  BY DEF UpTo

LEMMA ActorFacts ==
  /\ Worker \in Claimant /\ Worker \in Actor
  /\ \A c \in Claimant : c # None /\ c \in Actor
  /\ \A t \in Tool : t \in Claimant /\ t \in Actor /\ t # Worker
  /\ \A r \in Request : r \in Actor /\ r # Worker
  BY DEF Claimant, Actor

(* A row that nobody holds and that was never tried, whatever its state. *)
LEMMA FreshInv ==
  ASSUME NEW row \in EventRow, row.state # "delivering", row.token = None,
         row.due # "spent", row.attempts = 0, row.tries = 0,
         row.due = "now" \/ row.state = "failed"
  PROVE  RowInv(row)
  BY DEF RowInv, InBudget

LEMMA NoRowFacts ==
  /\ NoRow \in EventRow
  /\ NoRow.state = "absent" /\ NoRow.token = None /\ NoRow.due = "now"
  /\ NoRow.attempts = 0 /\ NoRow.tries = 0
  BY DEF NoRow, EventRow

LEMMA NewRowInv == RowInv(NoRow) /\ RowInv(NewRow)
  <1>1. NewRow \in EventRow
    BY NoRowFacts DEF NewRow, EventRow
  <1>2. RowInv(NoRow)
    BY NoRowFacts, FreshInv
  <1>3. RowInv(NewRow)
    BY <1>1, NoRowFacts, FreshInv DEF NewRow, EventRow
  <1> QED BY <1>2, <1>3

LEMMA ClaimedInv ==
  ASSUME NEW e \in Event, NEW c \in Claimant, RowInv(ev[e]),
         Claimable(e)
  PROVE  RowInv(Claimed(e, c))
  <1> DEFINE row == ev[e]
             out == row.state = "delivering"
             tried == IF out THEN UpTo(row.tries + 1) ELSE row.tries
             made == UpTo(row.attempts + 1)
  <1>1. row \in EventRow /\ row.tries \in 0 .. MaxAttempts /\ row.attempts \in 0 .. MaxAttempts
    BY DEF RowInv, EventRow
  <1>2. /\ made \in 0 .. MaxAttempts /\ made <= row.attempts + 1
        /\ tried \in 0 .. MaxAttempts
        /\ out => tried = row.tries + 1 \/ tried = MaxAttempts
    BY <1>1, UpToBounds
  <1>3. Claimed(e, c) = [row EXCEPT !.state = "delivering", !.token = c, !.lapsed = FALSE,
                                    !.attempts = made, !.tries = tried]
    BY <1>1 DEF Claimed, EventRow
  <1>4. row.due = "now"
    BY DEF Claimable, RowInv, InBudget
  <1>5. tried + 1 >= made
    <2>1. CASE out
      BY <1>1, <1>2, <2>1 DEF RowInv, InBudget
    <2>2. CASE ~out
      BY <1>1, <1>2, <2>2 DEF RowInv, InBudget
    <2> QED BY <2>1, <2>2
  <1> HIDE DEF made, tried, out
  <1>6. Claimed(e, c) \in EventRow
    BY <1>1, <1>2, <1>3 DEF EventRow
  <1>7. c # None
    BY ActorFacts
  <1>8. /\ Claimed(e, c).state = "delivering" /\ Claimed(e, c).token = c
        /\ Claimed(e, c).due = "now"
        /\ Claimed(e, c).tries = tried /\ Claimed(e, c).attempts = made
    BY <1>1, <1>3, <1>4 DEF EventRow
  <1> QED BY <1>5, <1>6, <1>7, <1>8 DEF RowInv, InBudget

LEMMA DeliveredInv ==
  ASSUME NEW e \in Event
  PROVE  RowInv(Delivered(e))
  <1>1. Delivered(e) \in EventRow
    BY NoRowFacts DEF Delivered, EventRow
  <1> QED BY <1>1, NoRowFacts, FreshInv DEF Delivered, EventRow

LEMMA ReleasedInv ==
  ASSUME NEW e \in Event, RowInv(ev[e]), ev[e].state = "delivering"
  PROVE  RowInv(Released(e))
  <1> DEFINE row == ev[e]
             left == IF row.attempts = 0 THEN 0 ELSE row.attempts - 1
  <1>1. row \in EventRow /\ row.tries \in 0 .. MaxAttempts /\ row.attempts \in 0 .. MaxAttempts
    BY DEF RowInv, EventRow
  <1>2. left \in 0 .. MaxAttempts /\ row.tries >= left
    BY <1>1 DEF RowInv, InBudget
  <1>3. Released(e) = [row EXCEPT !.state = "pending", !.token = None, !.lapsed = FALSE,
                                  !.due = "now", !.attempts = left]
    BY <1>1 DEF Released, Settled, EventRow
  <1> HIDE DEF left
  <1>4. Released(e) \in EventRow
    BY <1>1, <1>2, <1>3 DEF EventRow
  <1>5. /\ Released(e).state = "pending" /\ Released(e).token = None
        /\ Released(e).due = "now"
        /\ Released(e).tries = row.tries /\ Released(e).attempts = left
    BY <1>1, <1>3 DEF EventRow
  <1> QED BY <1>2, <1>4, <1>5 DEF RowInv, InBudget

LEMMA FailedInv ==
  ASSUME NEW e \in Event, RowInv(ev[e]), ev[e].state = "delivering",
         NEW due \in {"later", "spent", "refused"},
         due = "spent" => ev[e].attempts >= MaxAttempts
  PROVE  RowInv(Failed(e, due))
  <1>1. CASE due = "refused"
    <2>1. Failed(e, due) \in EventRow
      BY <1>1, NoRowFacts DEF Failed, EventRow
    <2> QED BY <1>1, <2>1, NoRowFacts, FreshInv DEF Failed, EventRow
  <1>2. CASE due # "refused"
    <2> DEFINE row == ev[e]
               tried == UpTo(row.tries + 1)
    <2>1. row \in EventRow /\ row.tries \in 0 .. MaxAttempts /\ row.attempts \in 0 .. MaxAttempts
      BY DEF RowInv, EventRow
    <2>2. tried \in 0 .. MaxAttempts /\ tried >= row.attempts
      BY <2>1, UpToBounds DEF RowInv, InBudget
    <2>3. Failed(e, due) = [row EXCEPT !.state = "failed", !.token = None, !.lapsed = FALSE,
                                       !.due = due, !.tries = tried]
      BY <1>2, <2>1 DEF Failed, Settled, EventRow
    <2> HIDE DEF tried
    <2>4. Failed(e, due) \in EventRow
      BY <2>1, <2>2, <2>3 DEF EventRow
    <2>5. /\ Failed(e, due).state = "failed" /\ Failed(e, due).token = None
          /\ Failed(e, due).due = due
          /\ Failed(e, due).tries = tried /\ Failed(e, due).attempts = row.attempts
      BY <2>1, <2>3 DEF EventRow
    <2> QED BY <2>1, <2>2, <2>4, <2>5 DEF RowInv, InBudget
  <1> QED BY <1>1, <1>2

----------------------------------------------------------------------------
(* Steps *)

LEMMA RowChange ==
  ASSUME RowsInv, NEW e \in Event, NEW row, RowInv(row), ev' = [ev EXCEPT ![e] = row]
  PROVE  RowsInv'
  BY DEF RowsInv, RowInv

LEMMA JobChange ==
  ASSUME JobsInv, NEW a \in Actor, NEW j, JobInv(j), job' = [job EXCEPT ![a] = j]
  PROVE  JobsInv'
  BY DEF JobsInv, JobInv

LEMMA SameRows == ASSUME RowsInv, ev' = ev PROVE RowsInv'
  BY DEF RowsInv

LEMMA SameJobs == ASSUME JobsInv, job' = job PROVE JobsInv'
  BY DEF JobsInv

LEMMA IdleInv ==
  /\ JobInv(Idle)
  /\ JobInv([Idle EXCEPT !.at = "batch"]) /\ JobInv([Idle EXCEPT !.at = "eligible"])
  /\ JobInv([Idle EXCEPT !.at = "acking"])
  /\ \A e \in Event : JobInv([Idle EXCEPT !.at = "posting", !.on = e])
  BY DEF JobInv, Job, Idle, LinkState

LEMMA InitHolds == Init => IInv
  <1> SUFFICES ASSUME Init PROVE IInv
    OBVIOUS
  <1>1. RowsInv
    BY NewRowInv, NoRowFacts DEF Init, RowsInv
  <1>2. JobsInv
    BY IdleInv DEF Init, JobsInv, JobInv
  <1> QED BY <1>1, <1>2 DEF IInv, Init, LinkState

(* An event that is queued by a command, among others or alone. *)
LEMMA QueueStep ==
  ASSUME RowsInv, QueueLifecycle \/ UNCHANGED ev
  PROVE  RowsInv'
  <1>1. CASE ev' = ev
    BY <1>1, SameRows
  <1>2. CASE \E e \in Event : ev' = [ev EXCEPT ![e] = NewRow]
    BY <1>2, NewRowInv, RowChange
  <1> QED BY <1>1, <1>2 DEF QueueLifecycle

(* The worker writes the outcome of the delivery it awaited. *)
LEMMA WriteStep ==
  ASSUME IInv, W.on \in Event, NEW row, PassWrites(row),
         Mine(Worker, W.on) => RowInv(row)
  PROVE  RowsInv' /\ JobsInv' /\ todo' \in SUBSET Event
  <1>1. CASE Mine(Worker, W.on)
    <2>1. RowsInv'
      BY <1>1, RowChange DEF PassWrites, IInv
    <2>2. JobsInv'
      BY <1>1, JobChange, IdleInv, ActorFacts DEF PassWrites, BackToBatch, Work, IInv
    <2> QED BY <1>1, <2>1, <2>2 DEF PassWrites, IInv
  <1>2. CASE ~Mine(Worker, W.on)
    <2>1. RowsInv'
      BY <1>2, SameRows DEF PassWrites, IInv
    <2>2. JobsInv'
      BY <1>2, JobChange, IdleInv, ActorFacts DEF PassWrites, Quit, Work, IInv
    <2> QED BY <1>2, <2>1, <2>2 DEF PassWrites, Quit
  <1> QED BY <1>1, <1>2

LEMMA ReplyStates ==
  /\ \A r \in ReadReply : r # "error" => r \in LinkState
  /\ \A r \in PostReply : r \in {"paused", "disconnected"} => r \in LinkState
  BY DEF ReadReply, PostReply, LinkState

LEMMA PassSteps ==
  ASSUME IInv, PassBegin \/ Pass
  PROVE  IInv'
  <1>1. JobInv(W) /\ W \in Job
    BY ActorFacts DEF W, IInv, JobsInv, JobInv
  <1>2. CASE PassBegin
    <2>1. JobInv([Idle EXCEPT !.at = "reading", !.seen = link])
      BY DEF JobInv, Job, Idle, LinkState, IInv
    <2> QED BY <1>2, <2>1, JobChange, SameRows, ActorFacts DEF PassBegin, Work, IInv
  <1>3. CASE PassReconcile
    <2>1. link' \in LinkState
      BY <1>3, ReplyStates DEF PassReconcile, Reconcile, CannotReconcile, IInv
    <2>2. JobsInv'
      BY <1>3, JobChange, IdleInv, ActorFacts DEF PassReconcile, Work, Quit, IInv
    <2>3. todo' \in SUBSET Event
      BY <1>3 DEF PassReconcile, Quit, IInv
    <2> QED BY <1>3, <2>1, <2>2, <2>3, SameRows DEF PassReconcile, IInv
  <1>4. CASE PassClaim
    <2>1. todo' \in SUBSET Event /\ \A e \in todo' : Claimable(e)
      BY <1>4 DEF PassClaim
    <2>2. \A e \in Event : RowInv(IF e \in todo' THEN Claimed(e, Worker) ELSE ev[e])
      BY <2>1, ClaimedInv, ActorFacts DEF IInv, RowsInv
    <2>3. RowsInv'
      BY <1>4, <2>2 DEF PassClaim, RowsInv, RowInv
    <2>4. JobsInv'
      BY <1>4, JobChange, IdleInv, ActorFacts DEF PassClaim, BackToBatch, Work, IInv
    <2> QED BY <1>4, <2>1, <2>3, <2>4 DEF PassClaim, IInv
  <1>5. CASE PassDelivered
    <2>1. W.on \in Event /\ RowInv(Delivered(W.on))
      BY <1>1, <1>5, DeliveredInv DEF PassDelivered, JobInv
    <2> QED BY <1>5, <2>1, WriteStep DEF PassDelivered, IInv
  <1>6. CASE PassAsk
    <2>1. /\ JobInv([W EXCEPT !.at = "asking409"])
          /\ JobInv([W EXCEPT !.at = "asking423"])
      BY <1>1, <1>6 DEF PassAsk, JobInv, Job
    <2> QED BY <1>6, <2>1, JobChange, SameRows, ActorFacts DEF PassAsk, Work, IInv
  <1>7. CASE PassStateHeard
    <2>1. W.on \in Event
      BY <1>1, <1>7 DEF PassStateHeard, Asking, JobInv
    <2>2. Mine(Worker, W.on) => RowInv(Released(W.on))
      BY <2>1, ReleasedInv DEF Mine, IInv, RowsInv
    <2>3. PICK s \in {"paused", "disconnected"} :
            IF Refused(s) THEN Quit /\ UNCHANGED <<link, ev>>
            ELSE link' = s /\ PassWrites(Released(W.on))
      BY <1>7 DEF PassStateHeard
    <2>4. CASE Refused(s)
      BY <1>7, <2>3, <2>4, JobChange, IdleInv, SameRows, ActorFacts
         DEF PassStateHeard, Quit, Work, IInv
    <2>5. CASE ~Refused(s)
      BY <1>7, <2>1, <2>2, <2>3, <2>5, WriteStep DEF PassStateHeard, LinkState, IInv
    <2> QED BY <2>4, <2>5
  <1>8. CASE PassFailed
    <2>1. W.on \in Event
      BY <1>1, <1>8 DEF PassFailed, Asking, JobInv
    <2>2. PICK final \in BOOLEAN :
            PassWrites(Failed(W.on, IF final THEN "refused"
                                    ELSE IF ev[W.on].attempts >= MaxAttempts THEN "spent"
                                    ELSE "later"))
      BY <1>8 DEF PassFailed
    <2> DEFINE due == IF final THEN "refused"
                      ELSE IF ev[W.on].attempts >= MaxAttempts THEN "spent" ELSE "later"
    <2>3. Mine(Worker, W.on) => RowInv(Failed(W.on, due))
      <3> SUFFICES ASSUME Mine(Worker, W.on) PROVE RowInv(Failed(W.on, due))
        OBVIOUS
      <3>1. due \in {"later", "spent", "refused"}
            /\ (due = "spent" => ev[W.on].attempts >= MaxAttempts)
        OBVIOUS
      <3> HIDE DEF due
      <3> QED BY <2>1, <3>1, FailedInv DEF Mine, IInv, RowsInv
    <2>4. PassWrites(Failed(W.on, due))
      BY <2>2
    <2> QED BY <1>8, <2>1, <2>3, <2>4, WriteStep DEF PassFailed, IInv
  <1> QED BY <1>2, <1>3, <1>4, <1>5, <1>6, <1>7, <1>8 DEF Pass

LEMMA BatchSteps ==
  ASSUME IInv, Batch
  PROVE  IInv'
  <1>1. CASE PassEnd
    BY <1>1, JobChange, IdleInv, SameRows, ActorFacts DEF PassEnd, Quit, Work, IInv
  <1>2. ASSUME NEW e \in Event, PassPost(e) PROVE IInv'
    BY <1>2, JobChange, IdleInv, SameRows, ActorFacts DEF PassPost, Work, IInv
  <1>3. ASSUME NEW e \in Event, PassRelease(e) PROVE IInv'
    <2>1. CASE Mine(Worker, e)
      <3>1. RowInv(Released(e))
        BY <2>1, ReleasedInv DEF Mine, IInv, RowsInv
      <3> QED BY <1>3, <2>1, <3>1, RowChange, SameJobs DEF PassRelease, IInv
    <2>2. CASE ~Mine(Worker, e)
      BY <1>3, <2>2, JobChange, IdleInv, SameRows, ActorFacts DEF PassRelease, Quit, Work, IInv
    <2> QED BY <2>1, <2>2
  <1> QED BY <1>1, <1>2, <1>3 DEF Batch

LEMMA ToolSteps ==
  ASSUME IInv, NEW t \in Tool,
         ToolSend(t) \/ ToolSettle(t) \/ \E e \in Event : ToolBegin(t, e)
  PROVE  IInv'
  <1>1. JobInv(job[t]) /\ t \in Actor /\ t \in Claimant
    BY ActorFacts DEF IInv, JobsInv
  <1>2. ASSUME NEW e \in Event, ToolBegin(t, e) PROVE IInv'
    <2>1. JobInv([Idle EXCEPT !.at = "ready", !.on = e, !.seen = link])
      BY DEF JobInv, Job, Idle, LinkState, IInv
    <2> QED BY <1>1, <1>2, <2>1, JobChange, SameRows DEF ToolBegin, IInv
  <1>3. CASE ToolSend(t)
    <2> DEFINE e == job[t].on
               absent == ev[e].state = "absent"
               fresh == [NewRow EXCEPT !.state = "delivering", !.token = t, !.attempts = 1]
    <2>1. e \in Event
      BY <1>1, <1>3 DEF ToolSend, JobInv
    <2>2. RowInv(ev[e])
      BY <2>1 DEF IInv, RowsInv
    <2>3. RowInv(fresh)
      <3>1. 1 \in 0 .. MaxAttempts
        OBVIOUS
      <3>2. NewRow \in EventRow /\ NewRow.due = "now" /\ NewRow.tries = 0
        BY NewRowInv, NoRowFacts DEF RowInv, NewRow, EventRow
      <3>3. fresh \in EventRow
        BY <1>1, <3>1, <3>2 DEF EventRow
      <3>4. /\ fresh.state = "delivering" /\ fresh.token = t /\ fresh.due = "now"
            /\ fresh.attempts = 1 /\ fresh.tries = 0
        BY <3>2 DEF EventRow
      <3> QED BY <1>1, <3>3, <3>4, ActorFacts DEF RowInv, InBudget
    <2>4. Claimable(e) => RowInv(Claimed(e, t))
      BY <1>1, <2>1, <2>2, ClaimedInv
    <2> HIDE DEF fresh
    <2>5. \/ /\ absent \/ Claimable(e)
             /\ ev' = [ev EXCEPT ![e] = IF absent THEN fresh ELSE Claimed(e, t)]
             /\ job' = [job EXCEPT ![t] = [Idle EXCEPT !.at = "posting", !.on = e]]
          \/ /\ ev' = [ev EXCEPT ![e] = NewRow] \/ ev' = ev
             /\ job' = [job EXCEPT ![t] = Idle]
      BY <1>3 DEF ToolSend, Done, fresh
    <2>6. RowsInv'
      <3>1. CASE absent /\ ev' = [ev EXCEPT ![e] = fresh]
        BY <2>1, <2>3, <3>1, RowChange DEF IInv
      <3>2. CASE Claimable(e) /\ ev' = [ev EXCEPT ![e] = Claimed(e, t)]
        BY <2>1, <2>4, <3>2, RowChange DEF IInv
      <3>3. CASE ev' = [ev EXCEPT ![e] = NewRow]
        BY <2>1, <3>3, NewRowInv, RowChange DEF IInv
      <3>4. CASE ev' = ev
        BY <3>4, SameRows DEF IInv
      <3> QED BY <2>5, <3>1, <3>2, <3>3, <3>4
    <2>7. JobsInv'
      BY <1>1, <2>1, <2>5, JobChange, IdleInv DEF IInv
    <2> QED BY <1>3, <2>6, <2>7 DEF ToolSend, IInv
  <1>4. CASE ToolSettle(t)
    <2> DEFINE e == job[t].on
    <2>1. e \in Event
      BY <1>1, <1>4 DEF ToolSettle, JobInv
    <2>2. RowInv(ev[e])
      BY <2>1 DEF IInv, RowsInv
    <2>3. Mine(t, e) =>
            /\ RowInv(Delivered(e)) /\ RowInv(Released(e))
            /\ RowInv(Failed(e, "refused")) /\ RowInv(Failed(e, "later"))
      BY <2>1, <2>2, DeliveredInv, ReleasedInv, FailedInv DEF Mine
    <2>4. RowsInv'
      <3>1. CASE ev' = ev
        BY <3>1, SameRows DEF IInv
      <3>2. ASSUME NEW row, RowInv(row), ev' = [ev EXCEPT ![e] = row] PROVE RowsInv'
        BY <2>1, <3>2, RowChange DEF IInv
      <3> QED BY <1>4, <2>3, <3>1, <3>2 DEF ToolSettle
    <2>5. JobsInv'
      BY <1>1, <1>4, JobChange, IdleInv DEF ToolSettle, Done, IInv
    <2>6. link' \in LinkState
      BY <1>4 DEF ToolSettle, LinkState, IInv
    <2> QED BY <1>4, <2>4, <2>5, <2>6 DEF ToolSettle, IInv
  <1> QED BY <1>2, <1>3, <1>4

LEMMA RequestSteps ==
  ASSUME IInv, NEW r \in Request,
         \/ Heard(r) \/ Activate(r) \/ Commanded(r) \/ CommandLost(r)
         \/ \E k \in {"refresh", "pause", "resume", "disconnect"} : Ask(r, k)
  PROVE  IInv'
  <1>1. job[r] \in Job /\ r \in Actor
    BY ActorFacts DEF IInv, JobsInv, JobInv
  <1>2. ASSUME NEW k \in {"refresh", "pause", "resume", "disconnect"}, Ask(r, k)
        PROVE  IInv'
    <2>1. JobInv([Idle EXCEPT !.at = "reading", !.kind = k, !.seen = link])
      BY DEF JobInv, Job, Idle, LinkState, IInv
    <2> QED BY <1>1, <1>2, <2>1, JobChange, SameRows DEF Ask, IInv
  <1>3. CASE Heard(r)
    <2>1. JobInv([Idle EXCEPT !.at = "sending", !.kind = job[r].kind])
      BY <1>1 DEF JobInv, Job, Idle, LinkState
    <2>2. JobsInv'
      BY <1>1, <1>3, <2>1, JobChange, IdleInv DEF Heard, Done, IInv
    <2>3. link' \in LinkState
      BY <1>3, ReplyStates DEF Heard, Reconcile, CannotReconcile, IInv
    <2> QED BY <1>3, <2>2, <2>3, SameRows DEF Heard, IInv
  <1>4. CASE Activate(r)
    BY <1>1, <1>4, JobChange, IdleInv, SameRows DEF Activate, LinkState, IInv
  <1>5. CASE Commanded(r)
    <2>1. RowsInv'
      BY <1>5, QueueStep, SameRows DEF Commanded, IInv
    <2>2. JobsInv'
      BY <1>1, <1>5, JobChange, IdleInv DEF Commanded, Done, IInv
    <2>3. link' \in LinkState
      BY <1>5 DEF Commanded, LinkState, IInv
    <2> QED BY <1>5, <2>1, <2>2, <2>3 DEF Commanded, IInv
  <1>6. CASE CommandLost(r)
    BY <1>1, <1>6, JobChange, IdleInv, SameRows DEF CommandLost, Done, IInv
  <1> QED BY <1>2, <1>3, <1>4, <1>5, <1>6

LEMMA EventSteps ==
  ASSUME IInv, NEW e \in Event, Enqueue(e) \/ Lapse(e) \/ FallDue(e)
  PROVE  IInv'
  <1>1. RowInv(ev[e])
    BY DEF IInv, RowsInv
  <1>2. CASE Enqueue(e)
    BY <1>2, NewRowInv, RowChange, SameJobs DEF Enqueue, IInv
  <1>3. CASE Lapse(e)
    <2>1. RowInv([ev[e] EXCEPT !.lapsed = TRUE])
      BY <1>1 DEF RowInv, InBudget, EventRow
    <2>2. ev' = [ev EXCEPT ![e] = [ev[e] EXCEPT !.lapsed = TRUE]]
      BY <1>3 DEF Lapse, IInv, RowsInv
    <2> QED BY <1>3, <2>1, <2>2, RowChange, SameJobs DEF Lapse, IInv
  <1>4. CASE FallDue(e)
    <2>1. RowInv([ev[e] EXCEPT !.due = "now"])
      BY <1>1 DEF RowInv, InBudget, EventRow
    <2>2. ev' = [ev EXCEPT ![e] = [ev[e] EXCEPT !.due = "now"]]
      BY <1>4 DEF FallDue, IInv, RowsInv
    <2> QED BY <1>4, <2>1, <2>2, RowChange, SameJobs DEF FallDue, IInv
  <1> QED BY <1>2, <1>3, <1>4

LEMMA StepHolds == IInv /\ [Next]_vars => IInv'
  <1> SUFFICES ASSUME IInv, [Next]_vars PROVE IInv'
    OBVIOUS
  <1>1. CASE PassBegin \/ Pass
    BY <1>1, PassSteps
  <1>2. CASE Batch
    BY <1>2, BatchSteps
  <1>3. CASE Others
    <2>1. CASE BecomeSteady
      BY <2>1, SameRows, SameJobs DEF BecomeSteady, IInv
    <2> QED BY <1>3, <2>1, EventSteps, ToolSteps, RequestSteps DEF Others
  <1>4. CASE Restart
    <2>1. JobsInv'
      BY <1>4, IdleInv DEF Restart, JobsInv, JobInv
    <2> QED BY <1>4, <2>1, SameRows DEF Restart, IInv
  <1>5. CASE UNCHANGED vars
    BY <1>5, SameRows, SameJobs DEF vars, IInv
  <1> QED BY <1>1, <1>2, <1>3, <1>4, <1>5 DEF Next

----------------------------------------------------------------------------
(* Theorems *)

(* The invariant holds, for any events, actors, budget and answers. *)
THEOREM Invariance == Spec => []IInv
  BY InitHolds, StepHolds, PTL DEF Spec

(* Every row and every remembered state has its type, and exactly the events that *)
(* are out for delivery carry a claim.                                            *)
THEOREM TypeCorrect == Spec => []TypeOK
  <1>1. IInv => TypeOK
    BY DEF IInv, RowsInv, JobsInv, RowInv, TypeOK
  <1> QED BY <1>1, Invariance, PTL

(* An event is given up only after as many attempts as the budget allows failed or *)
(* died: deliveries that found the card paused do not count.                       *)
THEOREM BudgetIsSpent == Spec => []GivenUpAfterBudget
  <1>1. IInv => GivenUpAfterBudget
    BY DEF IInv, RowsInv, RowInv, InBudget, GivenUpAfterBudget
  <1> QED BY <1>1, Invariance, PTL

(* All that a step does to a row. *)
Change(e) ==
  \/ ev'[e] = ev[e]
  \/ ev[e].state = "absent" /\ ev'[e] = NewRow
  \/ /\ ev[e].state = "absent"
     /\ \E t \in Tool :
          ev'[e] = [NewRow EXCEPT !.state = "delivering", !.token = t, !.attempts = 1]
  \/ Claimable(e) /\ \E c \in Claimant : ev'[e] = Claimed(e, c)
  \/ /\ ev[e].state = "delivering"
     /\ \/ ev'[e] \in {Delivered(e), Released(e), [ev[e] EXCEPT !.lapsed = TRUE]}
        \/ \E due \in {"later", "spent", "refused"} :
             /\ ev'[e] = Failed(e, due)
             /\ due = "spent" => ev[e].attempts >= MaxAttempts
  \/ ev[e].due = "later" /\ ev'[e] = [ev[e] EXCEPT !.due = "now"]

LEMMA StepChanges == IInv /\ Next => \A e \in Event : Change(e)
  <1> SUFFICES ASSUME IInv, Next, NEW e \in Event PROVE Change(e)
    OBVIOUS
  <1>1. RowInv(ev[e]) /\ ev \in [Event -> EventRow]
    BY DEF IInv, RowsInv
  <1>2. ASSUME NEW d \in Event, NEW row, ev' = [ev EXCEPT ![d] = row]
        PROVE  (d = e /\ ev'[e] = row) \/ ev'[e] = ev[e]
    BY <1>1, <1>2
  <1>3. CASE PassBegin \/ PassReconcile \/ PassAsk \/ PassEnd \/ BecomeSteady \/ Restart
    BY <1>3 DEF PassBegin, PassReconcile, PassAsk, PassEnd, BecomeSteady, Restart, Change
  <1>4. CASE PassClaim
    <2>1. ev'[e] = IF e \in todo' THEN Claimed(e, Worker) ELSE ev[e]
      BY <1>4 DEF PassClaim
    <2>2. e \in todo' => Claimable(e)
      BY <1>4 DEF PassClaim
    <2> QED BY <2>1, <2>2, ActorFacts DEF Change
  <1>5. ASSUME NEW row, PassWrites(row)
        PROVE  ev'[e] = ev[e] \/ (W.on = e /\ ev[e].state = "delivering" /\ ev'[e] = row)
    BY <1>1, <1>5 DEF PassWrites, Quit, Mine
  <1>6. CASE PassDelivered
    BY <1>5, <1>6 DEF PassDelivered, Change
  <1>7. CASE PassStateHeard
    BY <1>5, <1>7 DEF PassStateHeard, Change
  <1>8. CASE PassFailed
    <2>1. PICK final \in BOOLEAN :
            PassWrites(Failed(W.on, IF final THEN "refused"
                                    ELSE IF ev[W.on].attempts >= MaxAttempts THEN "spent"
                                    ELSE "later"))
      BY <1>8 DEF PassFailed
    <2> DEFINE due == IF final THEN "refused"
                      ELSE IF ev[W.on].attempts >= MaxAttempts THEN "spent" ELSE "later"
    <2>2. /\ due \in {"later", "spent", "refused"}
          /\ due = "spent" => ev[W.on].attempts >= MaxAttempts
      OBVIOUS
    <2>3. PassWrites(Failed(W.on, due))
      BY <2>1
    <2> HIDE DEF due
    <2> QED BY <1>5, <2>2, <2>3 DEF Change
  <1>9. ASSUME NEW d \in Event, PassPost(d) \/ PassRelease(d)
        PROVE  Change(e)
    BY <1>2, <1>9 DEF PassPost, PassRelease, Mine, Quit, Change
  <1>10. ASSUME NEW d \in Event, Enqueue(d) \/ Lapse(d) \/ FallDue(d)
         PROVE  Change(e)
    <2>1. CASE Enqueue(d)
      <3>1. (d = e /\ ev'[e] = NewRow) \/ ev'[e] = ev[e]
        BY <1>2, <2>1 DEF Enqueue
      <3> QED BY <2>1, <3>1 DEF Enqueue, Change
    <2>2. CASE Lapse(d)
      <3>1. ev' = [ev EXCEPT ![d] = [ev[d] EXCEPT !.lapsed = TRUE]]
        BY <1>1, <2>2 DEF Lapse
      <3>2. (d = e /\ ev'[e] = [ev[d] EXCEPT !.lapsed = TRUE]) \/ ev'[e] = ev[e]
        BY <1>2, <3>1
      <3>3. ev[d].state = "delivering"
        BY <2>2 DEF Lapse
      <3>4. ev'[e] = ev[e] \/ (ev[e].state = "delivering" /\ ev'[e] = [ev[e] EXCEPT !.lapsed = TRUE])
        BY <3>2, <3>3
      <3> QED BY <3>4 DEF Change
    <2>3. CASE FallDue(d)
      <3>1. ev' = [ev EXCEPT ![d] = [ev[d] EXCEPT !.due = "now"]]
        BY <1>1, <2>3 DEF FallDue
      <3>2. (d = e /\ ev'[e] = [ev[d] EXCEPT !.due = "now"]) \/ ev'[e] = ev[e]
        BY <1>2, <3>1
      <3>3. ev[d].due = "later"
        BY <2>3 DEF FallDue
      <3>4. ev'[e] = ev[e] \/ (ev[e].due = "later" /\ ev'[e] = [ev[e] EXCEPT !.due = "now"])
        BY <3>2, <3>3
      <3> QED BY <3>4 DEF Change
    <2> QED BY <1>10, <2>1, <2>2, <2>3
  <1>11. ASSUME NEW t \in Tool, ToolSend(t) \/ ToolSettle(t) \/ \E d \in Event : ToolBegin(t, d)
         PROVE  Change(e)
    <2>1. CASE ToolSend(t)
      <3> DEFINE d == job[t].on
                 fresh == [NewRow EXCEPT !.state = "delivering", !.token = t, !.attempts = 1]
      <3>1. d \in Event
        BY <2>1, ActorFacts DEF ToolSend, IInv, JobsInv, JobInv
      <3>2. \/ ev' = ev
            \/ ev[d].state = "absent" /\ ev' = [ev EXCEPT ![d] = fresh]
            \/ Claimable(d) /\ ev' = [ev EXCEPT ![d] = Claimed(d, t)]
            \/ ev[d].state = "absent" /\ ev' = [ev EXCEPT ![d] = NewRow]
        BY <2>1 DEF ToolSend
      <3> HIDE DEF d
      <3> QED BY <1>2, <3>1, <3>2, ActorFacts DEF Change
    <2>2. CASE ToolSettle(t)
      <3> DEFINE d == job[t].on
      <3>1. d \in Event
        BY <2>2, ActorFacts DEF ToolSettle, IInv, JobsInv, JobInv
      <3>2. \/ ev' = ev
            \/ /\ ev[d].state = "delivering"
               /\ \/ ev' = [ev EXCEPT ![d] = Delivered(d)]
                  \/ ev' = [ev EXCEPT ![d] = Released(d)]
                  \/ ev' = [ev EXCEPT ![d] = Failed(d, "refused")]
                  \/ ev' = [ev EXCEPT ![d] = Failed(d, "later")]
        BY <2>2 DEF ToolSettle, Mine
      <3> HIDE DEF d
      <3> QED BY <1>2, <3>1, <3>2 DEF Change
    <2>3. CASE \E d \in Event : ToolBegin(t, d)
      BY <2>3 DEF ToolBegin, Change
    <2> QED BY <1>11, <2>1, <2>2, <2>3
  <1>12. ASSUME NEW r \in Request,
                \/ Heard(r) \/ Activate(r) \/ Commanded(r) \/ CommandLost(r)
                \/ \E k \in {"refresh", "pause", "resume", "disconnect"} : Ask(r, k)
         PROVE  Change(e)
    <2>1. ev' = ev \/ \E d \in Event : ev[d].state = "absent" /\ ev' = [ev EXCEPT ![d] = NewRow]
      BY <1>12 DEF Heard, Activate, Commanded, CommandLost, Ask, QueueLifecycle
    <2> QED BY <1>2, <2>1 DEF Change
  <1> QED BY <1>3, <1>4, <1>6, <1>7, <1>8, <1>9, <1>10, <1>11, <1>12
          DEF Next, Pass, Batch, Others

(* What a delivered row is changed to: nothing. *)
LEMMA DeliveredStays ==
  ASSUME NEW e \in Event, RowInv(ev[e]), ev[e].state = "delivered", Change(e)
  PROVE  ev'[e] = ev[e] \/ ev'[e].state = "delivered"
  BY DEF Change, Claimable, EventRow, RowInv

(* A delivered event stays delivered: no change of a row starts from a delivered *)
(* one, however late the answer that brings it about.                            *)
THEOREM DeliveryIsFinal == Spec => DeliveredIsFinal
  <1>1. ASSUME IInv, Next, NEW e \in Event, ev[e].state = "delivered"
        PROVE  ev'[e].state = "delivered"
    <2>1. RowInv(ev[e]) /\ Change(e)
      BY <1>1, StepChanges DEF IInv, RowsInv
    <2> QED BY <1>1, <2>1, DeliveredStays
  <1>2. IInv /\ [Next]_vars
        => [\A e \in Event : ev[e].state = "delivered" => ev'[e].state = "delivered"]_vars
    BY <1>1
  <1> QED BY <1>2, Invariance, PTL DEF Spec, DeliveredIsFinal

(* What one change of a row is to the queue. *)
MovesRow(old, new) ==
  LET f == Fate(old)  g == Fate(new)  n == old.tries  m == new.tries IN
  \/ f = "absent" /\ g \in {"queued", "out"} /\ m = n
  \/ f = "queued" /\ g = "out" /\ m = n
  \/ f = "out" /\ g = "queued" /\ m = n
  \/ f = "out" /\ g \in {"queued", "out"} /\ m = UpTo(n + 1)
  \/ f = "out" /\ g = "spent" /\ m = UpTo(n + 1) /\ m >= MaxAttempts
  \/ f = "out" /\ g \in {"delivered", "refused"} /\ m = 0
  \/ g = f /\ m = n

LEMMA FateIs ==
  ASSUME NEW row, RowInv(row)
  PROVE  /\ row.state = "delivering" => Fate(row) = "out"
         /\ row.state \in {"absent", "delivered"} => Fate(row) = row.state
         /\ row.state = "pending" => Fate(row) = "queued"
         /\ row.state = "failed" =>
              Fate(row) = IF row.due \in {"spent", "refused"} THEN row.due ELSE "queued"
  BY DEF Fate, RowInv

LEMMA ChangeMoves ==
  ASSUME NEW e \in Event, RowInv(ev[e]), RowInv(ev'[e]), Change(e)
  PROVE  MovesRow(ev[e], ev'[e])
  <1> DEFINE row == ev[e]
             new == ev'[e]
  <1> SUFFICES MovesRow(row, new)
    OBVIOUS
  <1>1. row \in EventRow /\ row.tries \in 0 .. MaxAttempts
    BY DEF RowInv, EventRow
  <1>2. NewRow \in EventRow /\ NewRow.state = "pending" /\ NewRow.tries = 0 /\ NewRow.due = "now"
    BY NewRowInv, NoRowFacts DEF RowInv, NewRow, EventRow
  <1>3. CASE new = row
    BY <1>3 DEF MovesRow
  <1>4. CASE row.state = "absent" /\ new = NewRow
    BY <1>2, <1>4 DEF MovesRow, Fate, RowInv
  <1>5. ASSUME row.state = "absent", NEW t \in Tool,
               new = [NewRow EXCEPT !.state = "delivering", !.token = t, !.attempts = 1]
        PROVE  MovesRow(row, new)
    <2>1. new.state = "delivering" /\ new.tries = 0
      BY <1>2, <1>5 DEF EventRow
    <2> QED BY <1>5, <2>1 DEF MovesRow, Fate, RowInv
  <1>6. ASSUME Claimable(e), NEW c \in Claimant, new = Claimed(e, c)
        PROVE  MovesRow(row, new)
    <2>1. /\ new.state = "delivering"
          /\ new.tries = IF row.state = "delivering" THEN UpTo(row.tries + 1) ELSE row.tries
      BY <1>1, <1>6 DEF Claimed, EventRow
    <2>2. Fate(row) = IF row.state = "delivering" THEN "out" ELSE "queued"
      BY <1>6 DEF Claimable, Fate, RowInv
    <2>3. Fate(new) = "out"
      BY <2>1, FateIs
    <2> HIDE DEF row, new
    <2> QED BY <2>1, <2>2, <2>3 DEF MovesRow
  <1>7. CASE row.state = "delivering" /\ new = Delivered(e)
    <2>1. new.state = "delivered" /\ new.tries = 0 /\ new.due = "now"
      BY <1>7, NoRowFacts DEF Delivered, EventRow
    <2>2. Fate(row) = "out" /\ Fate(new) = "delivered"
      BY <1>7, <2>1, FateIs
    <2> HIDE DEF row, new
    <2> QED BY <2>1, <2>2 DEF MovesRow
  <1>8. CASE row.state = "delivering" /\ new = Released(e)
    <2>1. new.state = "pending" /\ new.tries = row.tries /\ new.due = "now"
      BY <1>1, <1>8 DEF Released, Settled, EventRow
    <2>2. Fate(row) = "out" /\ Fate(new) = "queued"
      BY <1>8, <2>1, FateIs
    <2> HIDE DEF row, new
    <2> QED BY <2>1, <2>2 DEF MovesRow
  <1>9. CASE row.state = "delivering" /\ new = [row EXCEPT !.lapsed = TRUE]
    <2>1. new.state = "delivering" /\ new.tries = row.tries
      BY <1>1, <1>9 DEF EventRow
    <2> QED BY <1>9, <2>1 DEF MovesRow, Fate
  <1>10. ASSUME row.state = "delivering", NEW due \in {"later", "spent", "refused"},
                new = Failed(e, due)
         PROVE  MovesRow(row, new)
    <2>1. CASE due = "refused"
      <3>1. new.state = "failed" /\ new.tries = 0 /\ new.due = "refused"
        BY <1>10, <2>1, NoRowFacts DEF Failed, EventRow
      <3>2. Fate(row) = "out" /\ Fate(new) = "refused"
        BY <1>10, <2>1, <3>1, FateIs
      <3> HIDE DEF row, new
      <3> QED BY <3>1, <3>2 DEF MovesRow
    <2>2. CASE due # "refused"
      <3>1. new.state = "failed" /\ new.tries = UpTo(row.tries + 1) /\ new.due = due
        BY <1>1, <1>10, <2>2 DEF Failed, Settled, EventRow
      <3>2. due = "spent" => new.tries >= MaxAttempts
        BY <3>1 DEF RowInv, InBudget
      <3>3. Fate(row) = "out" /\ Fate(new) = IF due = "spent" THEN "spent" ELSE "queued"
        BY <1>10, <2>2, <3>1, FateIs
      <3> HIDE DEF row, new
      <3> QED BY <3>1, <3>2, <3>3 DEF MovesRow
    <2> QED BY <2>1, <2>2
  <1>11. CASE row.due = "later" /\ new = [row EXCEPT !.due = "now"]
    <2>1. new.state = row.state /\ new.tries = row.tries /\ new.due = "now"
      BY <1>1, <1>11 DEF EventRow
    <2>2. row.state = "failed"
      BY <1>11 DEF RowInv
    <2> QED BY <1>11, <2>1, <2>2 DEF MovesRow, Fate
  <1> QED BY <1>3, <1>4, <1>5, <1>6, <1>7, <1>8, <1>9, <1>10, <1>11 DEF Change

(* One move of the rows is one of the queue. *)
LEMMA RowMoves ==
  ASSUME RowsInv, RowsInv', \A e \in Event : MovesRow(ev[e], ev'[e])
  PROVE  Queue!Next
  <1> DEFINE f == [e \in Event |-> Fate(ev[e])]
             m == [e \in Event |-> ev[e].tries]
             g == [e \in Event |-> Fate(ev'[e])]
             n == [e \in Event |-> ev'[e].tries]
  <1>1. f' = g /\ m' = n
    OBVIOUS
  <1>2. ASSUME NEW row \in EventRow
        PROVE  Fate(row) \in Queue!Fate /\ row.tries \in 0 .. MaxAttempts
    BY DEF Fate, Queue!Fate, EventRow
  <1>3. f' \in [Event -> Queue!Fate] /\ m' \in [Event -> 0 .. MaxAttempts]
    BY <1>1, <1>2 DEF RowsInv
  <1>4. ASSUME NEW e \in Event PROVE Queue!Move(e)
    <2>1. ev[e].tries \in 0 .. MaxAttempts
      BY DEF RowsInv, EventRow
    <2>2. UpTo(ev[e].tries + 1) = Queue!Counted(ev[e].tries)
      BY <2>1 DEF UpTo, Queue!Counted
    <2>3. /\ f[e] = Fate(ev[e]) /\ m[e] = ev[e].tries
          /\ f'[e] = Fate(ev'[e]) /\ m'[e] = ev'[e].tries
      OBVIOUS
    <2>4. MovesRow(ev[e], ev'[e])
      OBVIOUS
    <2> HIDE DEF f, m
    <2> QED BY <2>2, <2>3, <2>4
        DEF MovesRow, Queue!Move, Queue!Queue, Queue!Send, Queue!CallOff, Queue!Miss,
            Queue!GiveUp, Queue!Answer, Queue!Same
  <1> QED BY <1>3, <1>4 DEF Queue!Next

(* The outbox implements the queue that its callers count on, whatever claims, *)
(* leases, passes, tool calls, commands and restarts come between.             *)
THEOREM ImplementsDeliveryQueue == Spec => DeliversAsAQueue
  <1>1. Init => Queue!Init
    <2> SUFFICES ASSUME Init PROVE Queue!Init
      OBVIOUS
    <2>1. \A e \in Event : Fate(ev[e]) = "absent" /\ ev[e].tries = 0
      BY NoRowFacts DEF Init, Fate
    <2> QED BY <2>1 DEF Queue!Init
  <1>2. IInv /\ IInv' /\ [Next]_vars => [Queue!Next]_(Queue!vars)
    <2> SUFFICES ASSUME IInv, IInv', [Next]_vars PROVE [Queue!Next]_(Queue!vars)
      OBVIOUS
    <2>1. CASE Next
      <3>1. \A e \in Event : MovesRow(ev[e], ev'[e])
        BY <2>1, StepChanges, ChangeMoves DEF IInv, RowsInv
      <3> QED BY <3>1, RowMoves DEF IInv
    <2>2. CASE UNCHANGED vars
      BY <2>2 DEF vars, Queue!vars
    <2> QED BY <2>1, <2>2
  <1> QED BY <1>1, <1>2, Invariance, PTL DEF Spec, DeliversAsAQueue, Queue!Spec

(* A claim that has not lapsed is ended by its holder alone: every other step that *)
(* moves an event found it unclaimed, its own, or lapsed.                          *)
THEOREM LeaseHolds == Spec => LeaseIsRespected
  <1> DEFINE Ends(c) == job'[c] # job[c] \/ (c = Worker /\ W.at = "batch")
  <1>1. ASSUME IInv, Next, NEW e \in Event, NEW c \in Claimant,
               ev[e].token = c, ~ev[e].lapsed, ev'[e].token # c
        PROVE  Ends(c)
    <2> USE DEF Claimable, Mine
    <2>1. /\ ev \in [Event -> EventRow] /\ ev[e].state = "delivering" /\ c # None
          /\ ev'[e] # ev[e] /\ ~Claimable(e) /\ ev[e].due = "now"
      BY <1>1, ActorFacts DEF IInv, RowsInv, RowInv, InBudget
    <2>2. job \in [Actor -> Job] /\ Worker \in Actor
      BY <1>1, ActorFacts DEF IInv, JobsInv
    <2>3. ASSUME NEW row, PassWrites(row), W.at # "batch"
          PROVE  Ends(c)
      <3>1. W.on = e /\ Mine(Worker, e)
        BY <2>1, <2>3 DEF PassWrites
      <3>2. c = Worker
        BY <1>1, <3>1
      <3>3. job'[Worker] = [Idle EXCEPT !.at = "batch"]
        BY <2>2, <2>3, <3>1 DEF PassWrites, BackToBatch, Work
      <3> QED BY <2>3, <3>2, <3>3 DEF W, Idle
    <2>4. CASE PassBegin \/ PassReconcile \/ PassAsk \/ PassEnd
      BY <2>1, <2>4 DEF PassBegin, PassReconcile, PassAsk, PassEnd
    <2>5. CASE PassClaim
      BY <2>1, <2>5 DEF PassClaim
    <2>6. CASE PassDelivered \/ PassStateHeard \/ PassFailed
      <3>1. W.at # "batch"
        BY <2>6 DEF PassDelivered, PassStateHeard, PassFailed, Asking
      <3> QED BY <2>1, <2>3, <2>6, <3>1 DEF PassDelivered, PassStateHeard, PassFailed
    <2>7. ASSUME NEW d \in Event, PassPost(d) \/ PassRelease(d)
          PROVE  Ends(c)
      BY <1>1, <2>1, <2>7 DEF PassPost, PassRelease
    <2>8. ASSUME NEW d \in Event, Enqueue(d) \/ Lapse(d) \/ FallDue(d)
          PROVE  FALSE
      BY <1>1, <2>1, <2>8 DEF Enqueue, Lapse, FallDue, EventRow
    <2>9. ASSUME NEW t \in Tool, ToolSend(t) \/ ToolSettle(t) \/ \E d \in Event : ToolBegin(t, d)
          PROVE  Ends(c)
      <3>1. CASE ToolSend(t)
        BY <2>1, <3>1 DEF ToolSend
      <3>2. CASE ToolSettle(t)
        <4>1. job[t].on = e /\ c = t
          BY <1>1, <2>1, <3>2 DEF ToolSettle
        <4>2. job'[t] = Idle /\ job[t].at = "posting"
          BY <2>2, <3>2, ActorFacts DEF ToolSettle, Done
        <4> QED BY <4>1, <4>2 DEF Idle
      <3>3. CASE \E d \in Event : ToolBegin(t, d)
        BY <2>1, <3>3 DEF ToolBegin
      <3> QED BY <2>9, <3>1, <3>2, <3>3
    <2>10. ASSUME NEW r \in Request,
                  \/ Heard(r) \/ Activate(r) \/ Commanded(r) \/ CommandLost(r)
                  \/ \E k \in {"refresh", "pause", "resume", "disconnect"} : Ask(r, k)
           PROVE  FALSE
      BY <2>1, <2>10
         DEF Heard, Activate, Commanded, CommandLost, Ask, QueueLifecycle
    <2>11. CASE BecomeSteady \/ Restart
      BY <2>1, <2>11 DEF BecomeSteady, Restart
    <2> QED BY <1>1, <2>4, <2>5, <2>6, <2>7, <2>8, <2>9, <2>10, <2>11
            DEF Next, Pass, Batch, Others
  <1>2. IInv /\ [Next]_vars
        => [\A e \in Event : \A c \in Claimant :
              ev[e].token = c /\ ~ev[e].lapsed /\ ev'[e].token # c => Ends(c)]_vars
    BY <1>1
  <1> QED BY <1>2, Invariance, PTL DEF Spec, LeaseIsRespected

(* A delivery starts only while the card is active here: the link is read in the *)
(* same burst that posts, by the pass and by a tool call.                        *)
THEOREM PostsWhenActive == Spec => NoPostUnlessActive
  <1>1. ASSUME IInv, Next, NEW c \in Claimant,
               job'[c].at = "posting", job[c].at # "posting"
        PROVE  link = "active"
    <2>1. job \in [Actor -> Job] /\ c \in Actor /\ job'[c] # job[c]
      BY <1>1, ActorFacts DEF IInv, JobsInv
    <2>2. ASSUME NEW a \in Actor, NEW j, job' = [job EXCEPT ![a] = j], j.at # "posting"
          PROVE  FALSE
      BY <1>1, <2>1, <2>2
    <2>3. Idle.at # "posting"
      BY DEF Idle
    <2>4. ASSUME NEW row, PassWrites(row)
          PROVE  FALSE
      BY <2>1, <2>2, <2>3, <2>4, ActorFacts DEF PassWrites, BackToBatch, Quit, Work, Idle
    <2>5. CASE PassBegin \/ PassReconcile \/ PassClaim \/ PassEnd
      <3>1. /\ [Idle EXCEPT !.at = "reading", !.seen = link].at # "posting"
            /\ [Idle EXCEPT !.at = "eligible"].at # "posting"
            /\ [Idle EXCEPT !.at = "batch"].at # "posting"
        BY DEF Idle
      <3>2. CASE PassBegin
        BY <2>2, <3>1, <3>2, ActorFacts DEF PassBegin, Work
      <3>3. CASE PassReconcile
        BY <2>2, <2>3, <3>1, <3>3, ActorFacts DEF PassReconcile, Quit, Work
      <3>4. CASE PassClaim \/ PassEnd
        BY <2>2, <2>3, <3>1, <3>4, ActorFacts DEF PassClaim, PassEnd, BackToBatch, Quit, Work
      <3> QED BY <2>5, <3>2, <3>3, <3>4
    <2>6. CASE PassDelivered \/ PassStateHeard \/ PassFailed
      BY <2>2, <2>3, <2>4, <2>6, ActorFacts
         DEF PassDelivered, PassStateHeard, PassFailed, Quit, Work
    <2>7. CASE PassAsk
      <3>1. W \in Job
        BY <2>1, ActorFacts DEF W
      <3>2. /\ [W EXCEPT !.at = "asking409"].at # "posting"
            /\ [W EXCEPT !.at = "asking423"].at # "posting"
        BY <3>1 DEF Job
      <3> QED BY <2>2, <2>7, <3>2, ActorFacts DEF PassAsk, Work
    <2>8. ASSUME NEW d \in Event, PassPost(d) \/ PassRelease(d)
          PROVE  link = "active"
      <3>1. CASE PassPost(d)
        BY <3>1 DEF PassPost, MayPost
      <3>2. CASE PassRelease(d)
        BY <2>1, <2>2, <2>3, <3>2, ActorFacts DEF PassRelease, Quit, Work
      <3> QED BY <2>8, <3>1, <3>2
    <2>9. ASSUME NEW t \in Tool, ToolSend(t) \/ ToolSettle(t) \/ \E d \in Event : ToolBegin(t, d)
          PROVE  link = "active"
      <3>1. CASE ToolSend(t)
        BY <2>2, <2>3, <3>1, ActorFacts DEF ToolSend, Done
      <3>2. CASE ToolSettle(t)
        BY <2>2, <2>3, <3>2, ActorFacts DEF ToolSettle, Done
      <3>3. ASSUME NEW d \in Event, ToolBegin(t, d) PROVE link = "active"
        <4>1. [Idle EXCEPT !.at = "ready", !.on = d, !.seen = link].at # "posting"
          BY DEF Idle
        <4> QED BY <2>2, <3>3, <4>1, ActorFacts DEF ToolBegin
      <3> QED BY <2>9, <3>1, <3>2, <3>3
    <2>10. ASSUME NEW r \in Request,
                  \/ Heard(r) \/ Activate(r) \/ Commanded(r) \/ CommandLost(r)
                  \/ \E k \in {"refresh", "pause", "resume", "disconnect"} : Ask(r, k)
           PROVE  FALSE
      <3>1. /\ \A k : [Idle EXCEPT !.at = "reading", !.kind = k, !.seen = link].at # "posting"
            /\ \A k : [Idle EXCEPT !.at = "sending", !.kind = k].at # "posting"
            /\ [Idle EXCEPT !.at = "acking"].at # "posting"
        BY DEF Idle
      <3>2. CASE Heard(r)
        BY <2>1, <2>2, <2>3, <3>1, <3>2, ActorFacts DEF Heard, Done
      <3>3. CASE Activate(r)
        BY <2>2, <3>1, <3>3, ActorFacts DEF Activate
      <3>4. CASE Commanded(r) \/ CommandLost(r)
        BY <2>2, <2>3, <3>4, ActorFacts DEF Commanded, CommandLost, Done
      <3>5. ASSUME NEW k \in {"refresh", "pause", "resume", "disconnect"}, Ask(r, k)
            PROVE  FALSE
        BY <2>2, <3>1, <3>5, ActorFacts DEF Ask
      <3> QED BY <2>10, <3>2, <3>3, <3>4, <3>5
    <2>11. CASE Restart
      BY <1>1, <2>1, <2>3, <2>11 DEF Restart
    <2>12. ASSUME job' = job
           PROVE  FALSE
      BY <2>1, <2>12
    <2> QED BY <1>1, <2>5, <2>6, <2>7, <2>8, <2>9, <2>10, <2>11, <2>12
            DEF Next, Pass, Batch, Others, Enqueue, Lapse, FallDue, BecomeSteady
  <1>2. IInv /\ [Next]_vars
        => [\A c \in Claimant :
              job'[c].at = "posting" /\ job[c].at # "posting" => link = "active"]_vars
    BY <1>1
  <1> QED BY <1>2, Invariance, PTL DEF Spec, NoPostUnlessActive

(* A disconnected card comes back only by an activation: nobody writes an older *)
(* answer of the tracker over it.                                               *)
THEOREM DisconnectionSticks == Spec => DisconnectSticks
  <1>1. ASSUME Next, link = "disconnected", link' # "disconnected"
        PROVE  \E r \in Request : Activate(r)
    <2> USE DEF Refused
    <2>1. CASE PassBegin \/ Pass
      BY <1>1, <2>1
         DEF PassBegin, Pass, PassReconcile, CannotReconcile, Reconcile, PassClaim,
             PassDelivered, PassAsk, PassStateHeard, PassFailed
    <2>2. CASE Batch
      BY <1>1, <2>2 DEF Batch, PassEnd, PassPost, PassRelease
    <2>3. CASE Restart
      BY <1>1, <2>3 DEF Restart
    <2>4. ASSUME NEW e \in Event, Enqueue(e) \/ Lapse(e) \/ FallDue(e)
          PROVE  FALSE
      BY <1>1, <2>4 DEF Enqueue, Lapse, FallDue
    <2>5. ASSUME NEW t \in Tool, ToolSend(t) \/ ToolSettle(t) \/ \E e \in Event : ToolBegin(t, e)
          PROVE  FALSE
      BY <1>1, <2>5 DEF ToolSend, ToolSettle, ToolBegin
    <2>6. ASSUME NEW r \in Request,
                 \/ Heard(r) \/ Commanded(r) \/ CommandLost(r)
                 \/ \E k \in {"refresh", "pause", "resume", "disconnect"} : Ask(r, k)
          PROVE  FALSE
      BY <1>1, <2>6 DEF Heard, CannotReconcile, Reconcile, Commanded, CommandLost, Ask
    <2> QED BY <1>1, <2>1, <2>2, <2>3, <2>4, <2>5, <2>6 DEF Next, Others, BecomeSteady
  <1>2. [Next]_vars
        => [link = "disconnected" /\ link' # "disconnected"
              => \E r \in Request : Activate(r)]_vars
    BY <1>1
  <1> QED BY <1>2, PTL DEF Spec, DisconnectSticks
=============================================================================
