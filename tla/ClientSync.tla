---- MODULE ClientSync ----
(***************************************************************************)
(* What a browser tab knows of one task.  The server publishes every event *)
(* of the task on an in-process bus (lib/events.ts).  Two streams carry    *)
(* them to the tabs: the transcript of the selected task, a snapshot       *)
(* followed by a tail (messages/route.ts GET, useTaskStream.ts), and the   *)
(* coarse stream of all tasks (api/events/route.ts), a tail only, which    *)
(* one tab, the leader, holds and repeats to the others over a             *)
(* BroadcastChannel (sharedEvents.ts).  Answers of REST requests and the   *)
(* tabs' own optimistic writes land in the same state (useOrchestrator.ts).*)
(* The server's turn logic is TaskTurns; here only what it tells the tabs. *)
(***************************************************************************)
EXTENDS Naturals, Sequences, FiniteSets, SequencesExt

CONSTANTS
  Tab,        \* the browser's tabs
  Viewer,     \* the tabs in which the user may open the task and work on it
  None,
  MaxMsg,     \* bound: messages and queued prompts the task ever gets
  Late,       \* what may meet a repeated open and still count as mended: "answers",
              \* older than the open; "claims", a snapshot taken while one waits
  MaxBusy,    \* bounds, one for each number of open tabs: the events and requests
              \* under way when a new one starts
  MaxDrop,    \* bound: streams dropped and tabs closed
  MaxStep     \* bounds, likewise: the steps the user and the task's turns begin

ASSUME ClientAssumption ==
  /\ Viewer \subseteq Tab /\ None \notin Tab /\ Late \subseteq {"answers", "claims"}
  /\ {MaxMsg, MaxDrop} \subseteq Nat
  /\ {MaxBusy, MaxStep} \subseteq [1 .. Cardinality(Tab) -> Nat]

VARIABLES
  row,     \* the task's row: here, running, awaiting
  turn,    \* the live or unwinding turn: doc (writes a handoff), stopped,
           \* cleared (its generation is over); or None
  claims,  \* launches that wait for the task lock, in order: by (the tab whose
           \* POST it is, None for a queued prompt), doc, stopped, cleared
  said,    \* the persisted messages
  breaks,  \* those of them that are session breaks
  pend,    \* pending_messages: queued prompts
  leader,  \* the tab that holds the Web Lock, or None
  conn,    \* the leader's EventSource
  wire,    \* coarse events on their way to the leader
  chan,    \* per tab: what the leader posted on the BroadcastChannel
  tab,     \* per tab: what it shows of the task, and sharedEvents' flags
  feed,    \* per tab: its transcript stream's events under way, or None
  view,    \* per tab: the transcript shown
  fetch,   \* per tab: GET requests under way (bound: two of a kind that the
           \* server has not read count as one)
  post,    \* per tab: the POST under way, or None
  drops,   \* streams dropped and tabs closed so far
  steps,   \* what the user and the turns have begun so far
  mended   \* per tab, history: a repeated open came, nothing has changed since

server == <<row, turn, claims, said, breaks, pend>>
stream == <<leader, conn, wire, chan>>
vars == <<row, turn, claims, said, breaks, pend, leader, conn, wire, chan, tab, feed,
          view, fetch, post, drops, steps, mended>>

Msg == 1 .. MaxMsg
Row == [here : BOOLEAN, running : BOOLEAN, awaiting : BOOLEAN]
Turn == [doc : BOOLEAN, stopped : BOOLEAN, cleared : BOOLEAN]
Claim == [by : Tab \cup {None}, doc : BOOLEAN, stopped : BOOLEAN, cleared : BOOLEAN]
\* A POST of a tab; `after` is the turn a handoff's clear follows (history), `break`
\* the break a clear wrote.
Post == [kind : {"send", "clear"}, doc : BOOLEAN, after : Turn \cup {None},
         break : Msg \cup {None}, reply : {None, "served", "ok", "failed"}]
\* A transcript: the persisted messages, the queued prompts, and what the tab added
\* under ids of its own (local): an error (None), its copy of a break.
Shown == [said : SUBSET Msg, queued : SUBSET Msg, local : SUBSET (Msg \cup {None})]
Empty == [said |-> {}, queued |-> {}, local |-> {}]

\* What a transcript stream carries: the snapshot, then one change at a time.
FeedEvent ==
  [type : {"snapshot"}, said : SUBSET Msg, queued : SUBSET Msg, running : BOOLEAN]
    \cup [type : {"user", "assistant", "queued", "dequeued"}, id : Msg]
    \cup [type : {"ask", "answered", "end"}, id : {None}]

ASSUME NoStream == None \notin Seq(FeedEvent)
ASSUME NoPost == None \notin Post /\ None \notin {"served", "ok", "failed"}

\* The registry slot is taken (hasTurn), by the live turn or by a launch that waits;
\* what is stopped has given it back.
Live    == turn # None /\ ~turn.stopped
Claimed == \E i \in DOMAIN claims : ~claims[i].stopped
HasTurn == Live \/ Claimed
QueuedIds == {pend[i].id : i \in DOMAIN pend}
FreshId == CHOOSE i \in Msg \ (said \cup QueuedIds) : TRUE
HasId == said \cup QueuedIds # Msg

--------------------------------------------------------------------------
(* Publication. *)

\* A coarse event carries the row as it is when it is published; `of` is the
\* turn it tells of (history: the wire does not carry it).
Coarse(type, r, of) == [type |-> type, row |-> r, of |-> of]
Detail(type, id) == [type |-> type, id |-> id]

\* The bounds: what is under way, and what the user and the turns begin (what follows
\* of it, a turn's end, its stop, an answer, is not counted).
Busy(t) == Len(chan[t]) + Cardinality(fetch[t]) + (IF feed[t] = None THEN 0 ELSE Len(feed[t]))
             + (IF post[t] = None THEN 0 ELSE 1)
Opened == LET n == Cardinality({t \in Tab : tab[t].on}) IN IF n = 0 THEN 1 ELSE n
UnderWay == Len(wire) + FoldSet(LAMBDA t, n : n + Busy(t), 0, Tab)
Room == UnderWay < MaxBusy[Opened]
Step == Room /\ steps < MaxStep[Opened] /\ steps' = steps + 1

\* publish: the leader's connection, when it is open, gets the coarse event
\* (es, none or one), every open transcript stream the details ds.
Publish(es, ds) ==
  /\ wire' = IF conn = "open" THEN wire \o es ELSE wire
  /\ feed' = [t \in Tab |-> IF feed[t] = None THEN None ELSE feed[t] \o ds]
  /\ mended' = [t \in Tab |-> FALSE]
  /\ UNCHANGED <<leader, conn, chan, tab, view, fetch, drops>>

NoPublication == UNCHANGED <<stream, tab, feed, view, fetch, drops, mended>>

Dequeue == SetToSeq({Detail("dequeued", i) : i \in QueuedIds})

--------------------------------------------------------------------------
(* The server. *)

NewClaim(by, doc) == [by |-> by, doc |-> doc, stopped |-> FALSE, cleared |-> FALSE]

\* The first claim has the lock: its turn starts on a new message, in one burst: the
\* row, the message, `user`.  A stopped claim starts a turn that is stopped.
LaunchTurn ==
  LET c == Head(claims)
      r == [row EXCEPT !.running = TRUE, !.awaiting = FALSE]
  IN /\ HasId
     /\ row' = r
     /\ turn' = [doc |-> c.doc, stopped |-> c.stopped, cleared |-> FALSE]
     /\ claims' = Tail(claims)
     /\ said' = said \cup {FreshId}
     /\ Publish(<<Coarse("user", r, turn')>>, <<Detail("user", FreshId)>>)
     /\ UNCHANGED <<breaks, pend>>

Sent(t, kind) == post[t] # None /\ post[t].kind = kind /\ post[t].reply = None

\* POST /messages of tab t claims the slot and waits for the task lock, telling nobody.
SendClaims(t) ==
  /\ Sent(t, "send") /\ row.here /\ ~HasTurn
  /\ claims' = Append(claims, NewClaim(t, post[t].doc))
  /\ post' = [post EXCEPT ![t].reply = "served"]
  /\ NoPublication
  /\ UNCHANGED <<row, turn, said, breaks, pend, steps>>

\* It queues behind the live turn, or is refused; the answer may be lost, which the
\* tab takes for a failure.
SendArrives(t) ==
  /\ Sent(t, "send")
  /\ \/ /\ row.here /\ HasId /\ HasTurn
        /\ pend' = Append(pend, [id |-> FreshId, doc |-> post[t].doc])
        /\ Publish(<<>>, <<Detail("queued", FreshId)>>)
        /\ UNCHANGED <<row, turn, claims, said, breaks>>
     \/ NoPublication /\ UNCHANGED server
  /\ \E r \in {"ok", "failed"} :
       /\ r = "ok" => pend' # pend
       /\ post' = [post EXCEPT ![t].reply = r]
  /\ UNCHANGED steps

\* Under the lock: it launches, or is refused and frees the slot, telling nobody.
SendLaunches(t) ==
  /\ claims # <<>> /\ Head(claims).by = t
  /\ row.here
  /\ LaunchTurn
  /\ \E r \in {"ok", "failed"} : post' = [post EXCEPT ![t].reply = r]
  /\ UNCHANGED steps

SendRefused(t) ==
  /\ claims # <<>> /\ Head(claims).by = t
  /\ claims' = Tail(claims)
  /\ post' = [post EXCEPT ![t].reply = "failed"]
  /\ NoPublication
  /\ UNCHANGED <<row, turn, said, breaks, pend, steps>>

\* The agent's session opens: turn_started once more, with the settled status.
SessionOpens ==
  /\ Live /\ row.running /\ Step
  /\ Publish(<<Coarse("session", row, turn)>>, <<>>)
  /\ UNCHANGED <<row, turn, claims, said, breaks, pend, post>>

\* The turn says something.
Speak ==
  /\ turn # None /\ row.here /\ HasId /\ Step
  /\ said' = said \cup {FreshId}
  /\ Publish(<<>>, <<Detail("assistant", FreshId)>>)
  /\ UNCHANGED <<row, turn, claims, breaks, pend, post>>

\* The turn asks the user, and is answered.
Ask ==
  /\ Live /\ row.running /\ ~row.awaiting /\ Step
  /\ row' = [row EXCEPT !.awaiting = TRUE]
  /\ Publish(<<Coarse("ask", row', turn)>>, <<Detail("ask", None)>>)
  /\ UNCHANGED <<turn, claims, said, breaks, pend, post>>

Answered ==
  /\ Live /\ row.running /\ row.awaiting /\ Room
  /\ row' = [row EXCEPT !.awaiting = FALSE]
  /\ Publish(<<Coarse("answered", row', turn)>>, <<Detail("answered", None)>>)
  /\ UNCHANGED <<turn, claims, said, breaks, pend, post, steps>>

\* run's finally block settles the row, unless a /clear advanced the generation.
Settled(r) ==
  IF turn.cleared THEN r = row
  ELSE \E opened \in BOOLEAN : r = [row EXCEPT !.running = FALSE, !.awaiting = opened]

\* A turn with queued prompts hands its slot to the first of them, which waits for
\* the task lock; it publishes no turn_end, and the row is not said to have settled.
TurnHandsOff ==
  /\ Live /\ ~turn.cleared /\ pend # <<>> /\ Room
  /\ Settled(row')
  /\ turn' = None
  /\ claims' = Append(claims, NewClaim(None, Head(pend).doc))
  /\ pend' = Tail(pend)
  /\ Publish(<<>>, <<Detail("dequeued", Head(pend).id)>>)
  /\ UNCHANGED <<said, breaks, post, steps>>

\* Otherwise it tells of its end.  A stopped or cleared turn drops the queue, one
\* whose login or quota died parks it.
TurnEnds ==
  /\ turn # None /\ (turn.stopped => ~Claimed) /\ Room
  /\ Settled(row')
  /\ turn' = None
  /\ \/ /\ turn.stopped \/ turn.cleared \/ pend = <<>>
        /\ pend' = <<>>
        /\ Publish(<<Coarse("end", row', turn)>>, Dequeue \o <<Detail("end", None)>>)
     \/ /\ Live /\ ~turn.cleared /\ pend # <<>>
        /\ pend' = pend
        /\ Publish(<<Coarse("end", row', turn)>>, <<Detail("end", None)>>)
  /\ UNCHANGED <<claims, said, breaks, post, steps>>

\* A stopped turn whose slot another launch has taken leaves everything to it.
TurnSuperseded ==
  /\ turn # None /\ turn.stopped /\ Claimed
  /\ turn' = None
  /\ NoPublication
  /\ UNCHANGED <<row, claims, said, breaks, pend, post, steps>>

\* The queued prompt gets the lock: it launches ...
FollowUp == claims # <<>> /\ Head(claims).by = None

FollowUpLaunches ==
  /\ FollowUp /\ row.here /\ ~Head(claims).cleared /\ ~Head(claims).stopped
  /\ LaunchTurn
  /\ UNCHANGED <<post, steps>>

\* ... is dropped, if it was stopped with the turn_end that the hand-off owed ...
FollowUpDropped ==
  /\ FollowUp /\ (row.here => Head(claims).cleared \/ Head(claims).stopped)
  /\ claims' = Tail(claims)
  /\ IF row.here /\ ~Head(claims).cleared /\ ~HasTurn
     THEN Publish(<<Coarse("end", row, [doc |-> Head(claims).doc, stopped |-> TRUE,
                                        cleared |-> FALSE])>>, <<Detail("end", None)>>)
     ELSE NoPublication
  /\ UNCHANGED <<row, turn, said, breaks, pend, post, steps>>

\* ... or fails, says so, and settles the row.
FollowUpFails ==
  /\ FollowUp /\ row.here /\ ~Head(claims).cleared /\ ~Head(claims).stopped /\ HasId
  /\ claims' = Tail(claims)
  /\ said' = said \cup {FreshId}
  /\ \E opened \in BOOLEAN : row' = [row EXCEPT !.running = FALSE, !.awaiting = opened]
  /\ Publish(<<Coarse("end", row', [doc |-> Head(claims).doc, stopped |-> FALSE,
                                    cleared |-> FALSE])>>,
             <<Detail("assistant", FreshId), Detail("end", None)>>)
  /\ UNCHANGED <<turn, breaks, pend, post, steps>>

\* abortTurn: what holds the slot is tripped and loses it.
Aborts ==
  /\ turn' = IF Live THEN [turn EXCEPT !.stopped = TRUE] ELSE turn
  /\ claims' = [i \in DOMAIN claims |-> [claims[i] EXCEPT !.stopped = TRUE]]

\* Stop, pressed in tab t: the tab forgets its pending handoff, the server
\* trips the turn and drops the queue.
Stop(t) ==
  /\ tab[t].on /\ HasTurn /\ Room
  /\ Aborts
  /\ pend' = <<>>
  /\ feed' = [u \in Tab |-> IF feed[u] = None THEN None ELSE feed[u] \o Dequeue]
  /\ tab' = [tab EXCEPT ![t].doc = FALSE]
  /\ mended' = [u \in Tab |-> FALSE]
  /\ UNCHANGED <<row, said, breaks, stream, view, fetch, post, drops, steps>>

\* DELETE /pending drops one queued prompt.
Unqueue ==
  /\ Room
  /\ \E i \in DOMAIN pend :
       /\ pend' = RemoveAt(pend, i)
       /\ Publish(<<>>, <<Detail("dequeued", pend[i].id)>>)
  /\ UNCHANGED <<row, turn, claims, said, breaks, post, steps>>

\* PATCH of the status settles the row outside any turn.
Settle ==
  /\ row.here /\ row.awaiting /\ Step
  /\ row' = [row EXCEPT !.awaiting = FALSE]
  /\ Publish(<<Coarse("updated", row', None)>>, <<>>)
  /\ UNCHANGED <<turn, claims, said, breaks, pend, post>>

\* POST /clear trips the turn, and summarizes the session ...
ClearArrives(t) ==
  /\ Sent(t, "clear") /\ row.here
  /\ Aborts
  /\ post' = [post EXCEPT ![t].reply = "served"]
  /\ NoPublication
  /\ UNCHANGED <<row, said, breaks, pend, steps>>

\* ... then records the break (which it does not publish), settles the row, advances
\* the generation and drops the queue.
ClearEnds(t) ==
  /\ post[t] # None /\ post[t].kind = "clear" /\ post[t].reply = "served"
  /\ row.here /\ HasId
  /\ said' = said \cup {FreshId} /\ breaks' = breaks \cup {FreshId}
  /\ row' = [row EXCEPT !.running = FALSE, !.awaiting = FALSE]
  /\ turn' = IF turn = None THEN None ELSE [turn EXCEPT !.cleared = TRUE]
  /\ claims' = [i \in DOMAIN claims |-> [claims[i] EXCEPT !.cleared = TRUE]]
  /\ pend' = <<>>
  /\ Publish(<<Coarse("updated", row', None)>>, Dequeue)
  /\ \E r \in {"ok", "failed"} :
       post' = [post EXCEPT ![t].reply = r, ![t].break = FreshId]
  /\ UNCHANGED steps

\* The task is unknown, by now or from the start, or the request is lost.
ClearRefused(t) ==
  /\ post[t] # None /\ post[t].kind = "clear" /\ post[t].reply \in {None, "served"}
  /\ post[t].reply = "served" => ~row.here
  /\ post' = [post EXCEPT ![t].reply = "failed"]
  /\ NoPublication
  /\ UNCHANGED <<server, steps>>

\* DELETE of the task, its turn gone: only the coarse stream hears of it.
DeleteTask ==
  /\ row.here /\ turn = None /\ ~Claimed /\ Step
  /\ row' = [here |-> FALSE, running |-> FALSE, awaiting |-> FALSE]
  /\ said' = {} /\ breaks' = {} /\ pend' = <<>>
  /\ Publish(<<Coarse("deleted", row', None)>>, <<>>)
  /\ UNCHANGED <<turn, claims, post>>

--------------------------------------------------------------------------
(* The tabs. *)

Closed == [on |-> FALSE, has |-> FALSE, awaiting |-> FALSE, running |-> FALSE,
           dot |-> FALSE, opened |-> FALSE, remote |-> FALSE, doc |-> FALSE]

Get(kind) == [kind |-> kind, reply |-> None]

\* A tab opens: its boot loads the rows of the project, start() asks for the
\* lock and listens on the channel.
Boot(t) ==
  /\ ~tab[t].on /\ post[t] = None /\ Room
  /\ tab' = [tab EXCEPT ![t] = [Closed EXCEPT !.on = TRUE]]
  /\ UnderWay < MaxBusy[Opened'] /\ steps <= MaxStep[Opened']
  /\ fetch' = [fetch EXCEPT ![t] = {Get("tasks")}]
  /\ UNCHANGED <<server, stream, feed, view, post, drops, mended, steps>>

\* The server finishes what it has begun to serve, for nobody.
Left(p) == IF p # None /\ p.reply = "served" THEN p ELSE None

\* The tab is closed; a leader's lock and stream go with it.
CloseTab_KeepsLock(t) ==
  /\ tab[t].on /\ drops < MaxDrop
  /\ drops' = drops + 1
  /\ tab' = [tab EXCEPT ![t] = Closed]
  /\ chan' = [chan EXCEPT ![t] = <<>>]
  /\ fetch' = [fetch EXCEPT ![t] = {}]
  /\ feed' = [feed EXCEPT ![t] = None]
  /\ view' = [view EXCEPT ![t] = Empty]
  /\ post' = [post EXCEPT ![t] = Left(@)]
  /\ mended' = [mended EXCEPT ![t] = FALSE]
  /\ UNCHANGED <<server, leader, conn, wire, steps>>

CloseTab(t) ==
  /\ tab[t].on /\ drops < MaxDrop
  /\ drops' = drops + 1
  /\ tab' = [tab EXCEPT ![t] = Closed]
  /\ chan' = [chan EXCEPT ![t] = <<>>]
  /\ fetch' = [fetch EXCEPT ![t] = {}]
  /\ feed' = [feed EXCEPT ![t] = None]
  /\ view' = [view EXCEPT ![t] = Empty]
  /\ post' = [post EXCEPT ![t] = Left(@)]
  /\ IF leader = t THEN leader' = None /\ conn' = "none" /\ wire' = <<>>
                   ELSE UNCHANGED <<leader, conn, wire>>
  /\ mended' = [mended EXCEPT ![t] = FALSE]
  /\ UNCHANGED server
  /\ UNCHANGED steps

\* The browser grants the free lock to a tab that waits for it, which opens
\* the stream.
GrantLock(t) ==
  /\ leader = None /\ tab[t].on
  /\ leader' = t /\ conn' = "connecting"
  /\ UNCHANGED <<server, wire, chan, tab, feed, view, fetch, post, drops, mended, steps>>

\* The server subscribes the connection and greets it: onopen fires.
StreamOpens ==
  /\ conn = "connecting" /\ Room
  /\ conn' = "open" /\ wire' = <<Coarse("open", row, None)>>
  /\ UNCHANGED <<server, leader, chan, tab, feed, view, fetch, post, drops, mended, steps>>

\* The connection breaks: what was under way is lost, EventSource reconnects.
StreamDrops ==
  /\ conn = "open" /\ drops < MaxDrop
  /\ drops' = drops + 1
  /\ conn' = "connecting" /\ wire' = <<>>
  /\ UNCHANGED <<server, leader, chan, tab, feed, view, fetch, post, mended, steps>>

\* deliverOpen skips the first open of a tab that has not heard another one.
SkipsOpen(s) == ~s.opened /\ ~s.remote

\* onCatchUp refetches the rows and the running set.
CatchUp_RowsOnly(s) == IF SkipsOpen(s) THEN {} ELSE {Get("tasks")}

CatchUp(s) == IF SkipsOpen(s) THEN {} ELSE {Get("tasks"), Get("running")}

\* The state a tab shows once it has applied a coarse event (useGlobalEvents).
Applied(s, e) ==
  CASE e.type = "open" -> [s EXCEPT !.opened = TRUE]
    [] e.type = "deleted" ->
         [s EXCEPT !.running = FALSE, !.dot = FALSE, !.has = FALSE]
    [] OTHER ->
         [s EXCEPT !.running = e.row.running, !.dot = e.row.running,
                   !.awaiting = IF s.has THEN e.row.awaiting ELSE s.awaiting]

\* A turn_end completes the tab's pending handoff (handoffDoneRef): /clear.
ClearsAt(s, e) == e.type = "end" /\ s.doc

SendPost(doc) == [kind |-> "send", doc |-> doc, after |-> None, break |-> None,
                  reply |-> None]
ClearPost(of) == [kind |-> "clear", doc |-> FALSE, after |-> of, break |-> None,
                  reply |-> None]

\* Something older than an open that tab t hears is under way to it: an answer or a
\* POST of its own, an event of its transcript stream, one of the leader it was.
Older(t, far) == \/ fetch[t] # {} \/ post[t] # None \/ feed[t] \notin {None, <<>>}
                 \/ ~far /\ chan[t] # <<>>
\* Something newer is.
Newer(t, far) == IF far THEN wire # <<>> \/ Len(chan[t]) > 1 ELSE Len(wire) > 1

\* Tab t handles event e, which came over the channel when far holds.
Handles(t, e, far) ==
  LET s == [tab[t] EXCEPT !.remote = @ \/ far]
      done == ClearsAt(s, e)
  IN /\ done => post[t] = None
     /\ tab' = [tab EXCEPT ![t] = [Applied(s, e) EXCEPT !.doc = @ /\ ~done]]
     /\ post' = IF done THEN [post EXCEPT ![t] = ClearPost(e.of)] ELSE post
     /\ fetch' = IF e.type = "open" THEN [fetch EXCEPT ![t] = @ \cup CatchUp(s)]
                                    ELSE fetch
     /\ mended' = IF e.type = "open"
                  THEN [mended EXCEPT ![t] =
                         /\ ~SkipsOpen(s) /\ ~Newer(t, far)
                         /\ Older(t, far) => "answers" \in Late]
                  ELSE mended

\* The leader handles the next event of its stream, then posts it to the others.
LeaderHears ==
  /\ conn = "open" /\ wire # <<>>
  /\ Handles(leader, Head(wire), FALSE)
  /\ wire' = Tail(wire)
  /\ chan' = [t \in Tab |-> IF tab[t].on /\ t # leader
                            THEN Append(chan[t], Head(wire)) ELSE chan[t]]
  /\ UNCHANGED <<server, leader, conn, feed, view, drops, steps>>

FollowerHears(t) ==
  /\ tab[t].on /\ chan[t] # <<>>
  /\ Handles(t, Head(chan[t]), TRUE)
  /\ chan' = [chan EXCEPT ![t] = Tail(@)]
  /\ UNCHANGED <<server, leader, conn, wire, feed, view, drops, steps>>

--------------------------------------------------------------------------
(* The transcript stream. *)

Snapshot == [type |-> "snapshot", said |-> said, queued |-> QueuedIds,
             running |-> HasTurn]

\* The stream is opened, or reopened: subscribed, then the snapshot, in one
\* synchronous step of the server.  (What it says of the turn is not what the row
\* says while a claim waits or a stopped turn unwinds.)
FeedOpens(t) ==
  /\ t \in Viewer /\ tab[t].on /\ row.here /\ feed[t] = None /\ Room
  /\ feed' = [feed EXCEPT ![t] = <<Snapshot>>]
  /\ mended' = [mended EXCEPT ![t] = @ /\ (HasTurn = row.running \/ "claims" \in Late)]
  /\ UNCHANGED <<server, stream, tab, view, fetch, post, drops, steps>>

\* It breaks, or the tab hides, or another task is selected.
FeedDrops(t) ==
  /\ feed[t] # None /\ drops < MaxDrop
  /\ drops' = drops + 1
  /\ feed' = [feed EXCEPT ![t] = None]
  /\ UNCHANGED <<server, stream, tab, view, fetch, post, mended, steps>>

\* handleStreamEvent: a snapshot replaces what was shown.
ShownAfter_Merges(v, e) ==
  IF e.type = "snapshot"
  THEN [v EXCEPT !.said = @ \cup e.said, !.queued = @ \cup e.queued]
  ELSE CASE e.type \in {"user", "assistant"} -> [v EXCEPT !.said = @ \cup {e.id}]
         [] e.type = "queued" -> [v EXCEPT !.queued = @ \cup {e.id}]
         [] e.type = "dequeued" -> [v EXCEPT !.queued = @ \ {e.id}]
         [] OTHER -> v

ShownAfter(v, e) ==
  CASE e.type = "snapshot" -> [said |-> e.said, queued |-> e.queued, local |-> {}]
    [] e.type \in {"user", "assistant"} -> [v EXCEPT !.said = @ \cup {e.id}]
    [] e.type = "queued" -> [v EXCEPT !.queued = @ \cup {e.id}]
    [] e.type = "dequeued" -> [v EXCEPT !.queued = @ \ {e.id}]
    [] OTHER -> v

FeedHears(t) ==
  /\ feed[t] \notin {None, <<>>}
  /\ LET e == Head(feed[t]) IN
     /\ view' = [view EXCEPT ![t] = ShownAfter(@, e)]
     /\ \E waits \in BOOLEAN :  \* whether another card still counts as open
          tab' = [tab EXCEPT ![t] =
            CASE e.type = "snapshot" -> [@ EXCEPT !.running = e.running]
              [] e.type = "ask" -> [@ EXCEPT !.awaiting = @ \/ tab[t].has]
              [] e.type = "answered" -> [@ EXCEPT !.awaiting = @ /\ waits]
              [] e.type = "end" -> [@ EXCEPT !.running = FALSE]
              [] OTHER -> @]
     /\ fetch' = IF e.type = "end" THEN [fetch EXCEPT ![t] = @ \cup {Get("task")}]
                                   ELSE fetch
  /\ feed' = [feed EXCEPT ![t] = Tail(@)]
  /\ UNCHANGED <<server, stream, post, drops, mended, steps>>

--------------------------------------------------------------------------
(* REST requests of the tabs. *)

\* The server reads the row for a request.
FetchRead(t) ==
  \E f \in fetch[t] :
    /\ f.reply = None
    /\ fetch' = [fetch EXCEPT ![t] = (@ \ {f}) \cup {[f EXCEPT !.reply = row]}]
    /\ UNCHANGED <<server, stream, tab, feed, view, post, drops, mended, steps>>

\* loadTasks replaces the rows and corrects the running set for the rows it
\* got; reconcileRunning replaces the set; a single row is merged into a row
\* the tab has; doClear's ends with the spinner down.
Loaded(s, f) ==
  LET r == f.reply IN
  CASE f.kind = "tasks" -> [s EXCEPT !.has = r.here, !.awaiting = r.awaiting,
                                     !.running = IF r.here THEN r.running ELSE @]
    [] f.kind = "running" -> [s EXCEPT !.running = r.running, !.dot = r.running]
    [] OTHER -> [s EXCEPT !.awaiting = IF r.here /\ s.has THEN r.awaiting ELSE @,
                          !.running = @ /\ f.kind # "cleared"]

\* Answers arrive in any order.
FetchArrives(t) ==
  \E f \in fetch[t] :
    /\ f.reply # None
    /\ tab' = [tab EXCEPT ![t] = Loaded(@, f)]
    /\ fetch' = [fetch EXCEPT ![t] = @ \ {f}]
    /\ UNCHANGED <<server, stream, feed, view, post, drops, mended, steps>>

\* runTurn: optimistic, then the POST; handoffSession first notes its turn.
Send(t, doc) ==
  /\ t \in Viewer /\ tab[t].on /\ tab[t].has /\ post[t] = None /\ Step
  /\ doc => ~tab[t].running
  /\ tab' = [tab EXCEPT ![t].running = TRUE, ![t].awaiting = FALSE,
                        ![t].doc = @ \/ doc]
  /\ post' = [post EXCEPT ![t] = SendPost(doc)]
  /\ mended' = [mended EXCEPT ![t] = FALSE]
  /\ UNCHANGED <<server, stream, feed, view, fetch, drops>>

\* clearSession, the user's own /clear.
Clear(t) ==
  /\ t \in Viewer /\ tab[t].on /\ tab[t].has /\ post[t] = None /\ ~tab[t].running /\ Step
  /\ tab' = [tab EXCEPT ![t].running = TRUE]
  /\ post' = [post EXCEPT ![t] = ClearPost(None)]
  /\ mended' = [mended EXCEPT ![t] = FALSE]
  /\ UNCHANGED <<server, stream, feed, view, fetch, drops>>

\* The POST's answer: a failed one takes the spinner down, a message's also says so in
\* the transcript; a clear appends a break under an id of its own and refetches the row.
PostReplied(t) ==
  /\ tab[t].on /\ post[t] # None /\ post[t].reply \in {"ok", "failed"}
  /\ LET failed == post[t].reply = "failed"
         cleared == ~failed /\ post[t].kind = "clear"
         refused == failed /\ post[t].kind = "send"
     IN /\ tab' = [tab EXCEPT ![t].running = @ /\ ~failed]
        /\ view' = [view EXCEPT ![t].local =
                      @ \cup (IF cleared THEN {post[t].break} ELSE IF refused THEN {None} ELSE {})]
        /\ fetch' = [fetch EXCEPT ![t] =
                       @ \cup (IF cleared THEN {Get("cleared")} ELSE IF refused THEN {Get("task")} ELSE {})]
  /\ post' = [post EXCEPT ![t] = None]
  /\ UNCHANGED <<server, stream, feed, drops, mended, steps>>

\* The tab is gone: nobody hears it.
PostForgotten(t) ==
  /\ ~tab[t].on /\ post[t] # None /\ post[t].reply \in {"ok", "failed"}
  /\ post' = [post EXCEPT ![t] = None]
  /\ UNCHANGED <<server, stream, tab, feed, view, fetch, drops, mended, steps>>

--------------------------------------------------------------------------
Init ==
  /\ row = [here |-> TRUE, running |-> FALSE, awaiting |-> FALSE]
  /\ turn = None /\ claims = <<>> /\ said = {} /\ breaks = {} /\ pend = <<>>
  /\ leader = None /\ conn = "none" /\ wire = <<>>
  /\ chan = [t \in Tab |-> <<>>]
  /\ tab = [t \in Tab |-> Closed]
  /\ feed = [t \in Tab |-> None]
  /\ view = [t \in Tab |-> Empty]
  /\ fetch = [t \in Tab |-> {}]
  /\ post = [t \in Tab |-> None]
  /\ drops = 0 /\ steps = 0
  /\ mended = [t \in Tab |-> FALSE]

Server ==
  \/ SessionOpens \/ Speak \/ Ask \/ Answered \/ TurnHandsOff \/ TurnEnds
  \/ TurnSuperseded \/ FollowUpLaunches \/ FollowUpDropped \/ FollowUpFails
  \/ Unqueue \/ Settle \/ DeleteTask

Next ==
  \/ Server
  \/ StreamOpens \/ StreamDrops \/ LeaderHears
  \/ \E t \in Tab :
       \/ SendClaims(t) \/ SendArrives(t) \/ SendLaunches(t) \/ SendRefused(t)
       \/ ClearArrives(t) \/ ClearEnds(t) \/ ClearRefused(t) \/ Stop(t)
       \/ Boot(t) \/ CloseTab(t) \/ GrantLock(t) \/ FollowerHears(t)
       \/ FeedOpens(t) \/ FeedDrops(t) \/ FeedHears(t)
       \/ FetchRead(t) \/ FetchArrives(t) \/ PostReplied(t) \/ PostForgotten(t) \/ Clear(t)
       \/ \E doc \in BOOLEAN : Send(t, doc)

Spec == Init /\ [][Next]_vars

--------------------------------------------------------------------------
(* Properties. *)

\* Types: rows, shown transcripts, the requests under way; a tab that is
\* closed knows nothing and holds nothing.
TypeOK ==
  /\ row \in Row /\ turn \in Turn \cup {None} /\ claims \in Seq(Claim)
  /\ breaks \subseteq said /\ said \subseteq Msg
  /\ leader \in Tab \cup {None} /\ conn \in {"none", "connecting", "open"}
  /\ (leader = None) = (conn = "none")
  /\ view \in [Tab -> Shown]
  /\ \A t \in Tab : /\ DOMAIN tab[t] = DOMAIN Closed
                    /\ ~tab[t].on => /\ tab[t] = Closed /\ leader # t
                                     /\ fetch[t] = {} /\ feed[t] = None

\* The transcript a tab shows, once it has handled what its stream sent, is
\* the persisted one, queued prompts included: nothing falls between the
\* snapshot and the tail, and a reconnect leaves no bubble behind.  (A break
\* that /clear wrote is not published and may be missing.)  What the tab shows
\* beside, under ids of its own, are errors of its POSTs and copies of breaks.
TranscriptCaughtUp ==
  \A t \in Tab : feed[t] = <<>> /\ row.here =>
    /\ said \ breaks \subseteq view[t].said /\ view[t].said \subseteq said
    /\ view[t].queued = QueuedIds
    /\ view[t].local \subseteq breaks \cup {None}

\* A repeated open of the coarse stream repairs everything lost before it:
\* when its refetches are in and the task has not changed, the tab shows the
\* task's row as it is, its spinner and the project's dot included.  Provided
\* that nothing else was under way to the tab when it heard the open (no
\* sequence numbers order an older answer after the refetch), and that no
\* stream of it was opened since while a launch waited for its lock or a
\* stopped turn unwound (the snapshot then tells of the slot, not of the row).
ReopenRepairs ==
  \A t \in Tab : mended[t] /\ fetch[t] = {} /\ post[t] = None =>
    /\ tab[t].running = row.running /\ tab[t].dot = row.running
    /\ tab[t].has = row.here
    /\ row.here => tab[t].awaiting = row.awaiting

(* What the code does not keep; no run checks these: README, Known to fail.    *)

(* The spinner is right whenever the row and the registry agree, though a      *)
(* stream was opened while a claim waited ("claims" in Late): the launch that  *)
(* is refused under the lock (messages/route.ts 222) tells nobody.             *)
SpinnerSettles ==
  \A t \in Tab : mended[t] /\ fetch[t] = {} /\ post[t] = None
                  /\ feed[t] \in {None, <<>>} /\ row.running = HasTurn =>
    tab[t].running = row.running

(* A break is shown once: the tab appends its copy under an id of its own, a   *)
(* snapshot taken since the break was recorded has the persisted one.          *)
BreakShownOnce == \A t \in Tab : view[t].local \cap view[t].said = {}

(* A /clear that completes a handoff follows the handoff's own turn, and not   *)
(* one that was stopped, as useOrchestrator.ts 454-457 and 562-566 say.        *)
HandoffClearsItsTurn ==
  \A t \in Tab : post[t] # None /\ post[t].after # None =>
    post[t].after.doc /\ ~post[t].after.stopped
=============================================================================
