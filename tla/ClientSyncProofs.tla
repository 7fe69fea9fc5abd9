-------------------------- MODULE ClientSyncProofs --------------------------
(***************************************************************************)
(* ClientSync, for every number of tabs and viewers and every bound: what  *)
(* a transcript stream still carries turns what its tab shows into what    *)
(* the server has, and what an open of the coarse stream still has under   *)
(* way turns what the tab shows of the task into the task's row.           *)
(***************************************************************************)
EXTENDS ClientSync, FiniteSetTheorems, SequenceTheorems, TLAPS

(* The records that the variables hold. *)
TabState == [on : BOOLEAN, has : BOOLEAN, awaiting : BOOLEAN, running : BOOLEAN,
             dot : BOOLEAN, opened : BOOLEAN, remote : BOOLEAN, doc : BOOLEAN]
CoarseEvent ==
  [type : {"user", "session", "ask", "answered", "end", "updated", "deleted", "open"},
   row : Row, of : Turn \cup {None}]
Request == [kind : {"tasks", "running", "task", "cleared"}, reply : Row \cup {None}]
Prompt == [id : Msg, doc : BOOLEAN]

Types ==
  /\ pend \in Seq(Prompt)
  /\ wire \in Seq(CoarseEvent) /\ chan \in [Tab -> Seq(CoarseEvent)]
  /\ tab \in [Tab -> TabState]
  /\ feed \in [Tab -> Seq(FeedEvent) \cup {None}]
  /\ fetch \in [Tab -> SUBSET Request]
  /\ post \in [Tab -> Post \cup {None}]
  /\ mended \in [Tab -> BOOLEAN]

(* No two queued prompts have the same id. *)
PromptsDiffer == \A i, j \in DOMAIN pend : pend[i].id = pend[j].id => i = j

(* A launch that waits for the lock is the served POST of its tab, or a follow-up; *)
(* no tab has two.                                                               *)
Waits(p) == p # None /\ p.kind = "send" /\ p.reply = "served"
ClaimsWait ==
  /\ \A i \in DOMAIN claims : claims[i].by # None => Waits(post[claims[i].by])
  /\ \A i, j \in DOMAIN claims :
       claims[i].by # None /\ claims[i].by = claims[j].by => i = j

(* The break that a clear's answer brings was recorded, and so was the one of *)
(* which a tab shows its own copy.                                            *)
BreakIsSaid ==
  \A t \in Tab :
    /\ post[t] # None /\ post[t].kind = "clear" /\ post[t].reply = "ok" =>
         post[t].break \in Msg /\ (row.here => post[t].break \in breaks)
    /\ row.here => view[t].local \subseteq breaks \cup {None}

(* What a stream's event shows and hides. *)
Queues(e, i) == \/ e.type = "queued" /\ e.id = i
                \/ e.type = "snapshot" /\ i \in e.queued
Unqueues(e, i) == \/ e.type = "dequeued" /\ e.id = i
                  \/ e.type = "snapshot" /\ i \notin e.queued
Says(e, i) == \/ e.type \in {"user", "assistant"} /\ e.id = i
              \/ e.type = "snapshot" /\ i \in e.said
Unsays(e, i) == e.type = "snapshot" /\ i \notin e.said

(* The prompts, and the messages, that are shown once the events f are handled by *)
(* a tab that shows Q, and S: each event counts unless a later one undoes it.     *)
QueueAfter(f, Q) ==
  {i \in Msg :
     \/ \E k \in 1 .. Len(f) : /\ Queues(f[k], i)
                               /\ \A j \in k + 1 .. Len(f) : ~Unqueues(f[j], i)
     \/ i \in Q /\ \A j \in 1 .. Len(f) : ~Unqueues(f[j], i)}
SaidAfter(f, S) ==
  {i \in Msg :
     \/ \E k \in 1 .. Len(f) : /\ Says(f[k], i)
                               /\ \A j \in k + 1 .. Len(f) : ~Unsays(f[j], i)
     \/ i \in S /\ \A j \in 1 .. Len(f) : ~Unsays(f[j], i)}

(* The events f turn what the tab shows, v, into the queue Q and the messages S, *)
(* of which breaks (B) may be missing.                                           *)
InTune(f, v, Q, S, B) ==
  /\ QueueAfter(f, v.queued) = Q
  /\ SaidAfter(f, v.said) \subseteq S
  /\ S \ B \subseteq SaidAfter(f, v.said)

(* What an open stream still carries completes what its tab shows. *)
StreamCompletes ==
  \A t \in Tab : feed[t] # None /\ row.here =>
    InTune(feed[t], view[t], QueuedIds, said, breaks)

(* Tab t is mended, and a repeated open that met something older does not count. *)
Mends(t) == mended[t] /\ Late = {}

(* While it is, nothing that is under way to it is older than the task. *)
NothingStale(t) ==
  /\ tab[t].on /\ post[t] = None
  /\ \A i \in DOMAIN wire : wire[i].type = "open"
  /\ \A i \in DOMAIN chan[t] : chan[t][i].type = "open"
  /\ feed[t] # None =>
       \A i \in DOMAIN feed[t] : feed[t][i].type = "snapshot" /\ feed[t][i].running = row.running
  /\ \A f \in fetch[t] : f.kind \in {"tasks", "running"} /\ f.reply \in {row, None}

(* What the requests under way will not correct is right already. *)
MendsTheRest(t) ==
  /\ (\A f \in fetch[t] : f.kind # "tasks") =>
       tab[t].has = row.here /\ (row.here => tab[t].awaiting = row.awaiting)
  /\ (\A f \in fetch[t] : f.kind # "running") =>
       tab[t].dot = row.running /\ tab[t].running = row.running

Mending == \A t \in Tab : Mends(t) => NothingStale(t) /\ MendsTheRest(t)

IInv == /\ TypeOK /\ Types /\ PromptsDiffer /\ ClaimsWait /\ BreakIsSaid
        /\ StreamCompletes /\ Mending

--------------------------------------------------------------------------
(* The events of a stream. *)

USE NoStream

(* The events f, then one more. *)
LEMMA QueueAppend ==
  ASSUME NEW f \in Seq(FeedEvent), NEW e \in FeedEvent, NEW Q \in SUBSET Msg
  PROVE  QueueAfter(f \o <<e>>, Q) =
           {i \in Msg : Queues(e, i) \/ (i \in QueueAfter(f, Q) /\ ~Unqueues(e, i))}
  <1> DEFINE g == f \o <<e>>
  <1>1. /\ Len(g) = Len(f) + 1 /\ g[Len(f) + 1] = e /\ Len(f) \in Nat
        /\ \A k \in 1 .. Len(f) : g[k] = f[k]
    OBVIOUS
  <1> HIDE DEF g
  <1>2. ASSUME NEW i \in Msg
        PROVE  i \in QueueAfter(g, Q)
                 <=> Queues(e, i) \/ (i \in QueueAfter(f, Q) /\ ~Unqueues(e, i))
    <2>1. CASE Queues(e, i)
      <3>1. \A j \in (Len(f) + 1) + 1 .. Len(g) : ~Unqueues(g[j], i)
        BY <1>1
      <3> QED BY <1>1, <2>1, <3>1 DEF QueueAfter
    <2>2. CASE Unqueues(e, i)
      <3>1. ~Queues(e, i)
        BY <2>2 DEF Queues, Unqueues
      <3>2. Unqueues(g[Len(f) + 1], i) /\ ~Queues(g[Len(f) + 1], i)
        BY <1>1, <2>2, <3>1
      <3>3. i \notin QueueAfter(g, Q)
        BY <1>1, <3>2 DEF QueueAfter
      <3> QED BY <2>2, <3>1, <3>3
    <2>3. CASE ~Queues(e, i) /\ ~Unqueues(e, i)
      <3>1. ASSUME i \in QueueAfter(g, Q) PROVE i \in QueueAfter(f, Q)
        BY <1>1, <2>3, <3>1 DEF QueueAfter
      <3>2. ASSUME i \in QueueAfter(f, Q) PROVE i \in QueueAfter(g, Q)
        BY <1>1, <2>3, <3>2 DEF QueueAfter
      <3> QED BY <2>3, <3>1, <3>2
    <2> QED BY <2>1, <2>2, <2>3
  <1>3. QueueAfter(g, Q) \subseteq Msg
    BY DEF QueueAfter
  <1> QED BY <1>2, <1>3 DEF g

LEMMA SaidAppend ==
  ASSUME NEW f \in Seq(FeedEvent), NEW e \in FeedEvent, NEW S \in SUBSET Msg
  PROVE  SaidAfter(f \o <<e>>, S) =
           {i \in Msg : Says(e, i) \/ (i \in SaidAfter(f, S) /\ ~Unsays(e, i))}
  <1> DEFINE g == f \o <<e>>
  <1>1. /\ Len(g) = Len(f) + 1 /\ g[Len(f) + 1] = e /\ Len(f) \in Nat
        /\ \A k \in 1 .. Len(f) : g[k] = f[k]
    OBVIOUS
  <1> HIDE DEF g
  <1>2. ASSUME NEW i \in Msg
        PROVE  i \in SaidAfter(g, S)
                 <=> Says(e, i) \/ (i \in SaidAfter(f, S) /\ ~Unsays(e, i))
    <2>1. CASE Says(e, i)
      <3>1. \A j \in (Len(f) + 1) + 1 .. Len(g) : ~Unsays(g[j], i)
        BY <1>1
      <3> QED BY <1>1, <2>1, <3>1 DEF SaidAfter
    <2>2. CASE Unsays(e, i)
      <3>1. ~Says(e, i)
        BY <2>2 DEF Says, Unsays
      <3>2. Unsays(g[Len(f) + 1], i) /\ ~Says(g[Len(f) + 1], i)
        BY <1>1, <2>2, <3>1
      <3>3. i \notin SaidAfter(g, S)
        BY <1>1, <3>2 DEF SaidAfter
      <3> QED BY <2>2, <3>1, <3>3
    <2>3. CASE ~Says(e, i) /\ ~Unsays(e, i)
      <3>1. ASSUME i \in SaidAfter(g, S) PROVE i \in SaidAfter(f, S)
        BY <1>1, <2>3, <3>1 DEF SaidAfter
      <3>2. ASSUME i \in SaidAfter(f, S) PROVE i \in SaidAfter(g, S)
        BY <1>1, <2>3, <3>2 DEF SaidAfter
      <3> QED BY <2>3, <3>1, <3>2
    <2> QED BY <2>1, <2>2, <2>3
  <1>3. SaidAfter(g, S) \subseteq Msg
    BY DEF SaidAfter
  <1> QED BY <1>2, <1>3 DEF g

(* Nothing more to come: what is shown stays. *)
LEMMA NothingAfter ==
  ASSUME NEW S \in SUBSET Msg
  PROVE  QueueAfter(<<>>, S) = S /\ SaidAfter(<<>>, S) = S
  BY DEF QueueAfter, SaidAfter

(* Handling the first event changes nothing of what is shown in the end. *)
LEMMA QueueHead ==
  ASSUME NEW f \in Seq(FeedEvent), f # <<>>, NEW v \in Shown
  PROVE  QueueAfter(Tail(f), ShownAfter(v, Head(f)).queued) = QueueAfter(f, v.queued)
  <1> DEFINE w == ShownAfter(v, Head(f)).queued
  <1>1. /\ Head(f) = f[1] /\ Len(f) \in Nat /\ Len(f) > 0 /\ f[1] \in FeedEvent
        /\ Len(Tail(f)) = Len(f) - 1
        /\ \A k \in 1 .. Len(f) - 1 : Tail(f)[k] = f[k + 1]
    OBVIOUS
  <1>2. ASSUME NEW i \in Msg
        PROVE  i \in w <=> Queues(f[1], i) \/ (i \in v.queued /\ ~Unqueues(f[1], i))
    BY <1>1 DEF ShownAfter, Queues, Unqueues, FeedEvent, Shown
  <1> HIDE DEF w
  <1>3. ASSUME NEW i \in Msg
        PROVE  (\A j \in 1 .. Len(f) - 1 : ~Unqueues(Tail(f)[j], i))
                 <=> \A j \in 2 .. Len(f) : ~Unqueues(f[j], i)
    <2>1. ASSUME NEW j \in 2 .. Len(f), \A k \in 1 .. Len(f) - 1 : ~Unqueues(Tail(f)[k], i)
          PROVE  ~Unqueues(f[j], i)
      <3>1. j - 1 \in 1 .. Len(f) - 1 /\ (j - 1) + 1 = j
        BY <1>1
      <3> QED BY <1>1, <2>1, <3>1
    <2>2. ASSUME NEW j \in 1 .. Len(f) - 1, \A k \in 2 .. Len(f) : ~Unqueues(f[k], i)
          PROVE  ~Unqueues(Tail(f)[j], i)
      <3>1. j + 1 \in 2 .. Len(f) /\ Tail(f)[j] = f[j + 1]
        BY <1>1
      <3> QED BY <2>2, <3>1
    <2> QED BY <2>1, <2>2
  <1>4. ASSUME NEW i \in Msg, i \in QueueAfter(f, v.queued) PROVE i \in QueueAfter(Tail(f), w)
    <2>1. CASE \A j \in 2 .. Len(f) : ~Unqueues(f[j], i)
      <3>1. CASE i \in w
        BY <1>1, <1>3, <2>1, <3>1 DEF QueueAfter
      <3>2. CASE i \notin w
        <4>1. PICK k \in 1 .. Len(f) : Queues(f[k], i)
          BY <1>1, <1>2, <1>4, <3>2 DEF QueueAfter
        <4>2. k - 1 \in 1 .. Len(f) - 1 /\ Tail(f)[k - 1] = f[k]
          BY <1>1, <1>2, <3>2, <4>1
        <4>3. \A j \in (k - 1) + 1 .. Len(f) - 1 : ~Unqueues(Tail(f)[j], i)
          BY <1>1, <1>3, <2>1, <4>1
        <4> QED BY <1>1, <4>1, <4>2, <4>3 DEF QueueAfter
      <3> QED BY <3>1, <3>2
    <2>2. CASE ~ \A j \in 2 .. Len(f) : ~Unqueues(f[j], i)
      <3>1. PICK k \in 1 .. Len(f) : /\ Queues(f[k], i)
                                     /\ \A j \in k + 1 .. Len(f) : ~Unqueues(f[j], i)
        BY <1>1, <1>4, <2>2 DEF QueueAfter
      <3>2. k - 1 \in 1 .. Len(f) - 1 /\ Tail(f)[k - 1] = f[k]
        BY <1>1, <2>2, <3>1
      <3>3. \A j \in (k - 1) + 1 .. Len(f) - 1 : ~Unqueues(Tail(f)[j], i)
        BY <1>1, <3>1
      <3> QED BY <1>1, <3>1, <3>2, <3>3 DEF QueueAfter
    <2> QED BY <2>1, <2>2
  <1>5. ASSUME NEW i \in Msg, i \in QueueAfter(Tail(f), w) PROVE i \in QueueAfter(f, v.queued)
    <2>1. CASE i \in w /\ \A j \in 1 .. Len(f) - 1 : ~Unqueues(Tail(f)[j], i)
      <3>1. \A j \in 1 + 1 .. Len(f) : ~Unqueues(f[j], i)
        BY <1>3, <2>1
      <3>2. CASE Queues(f[1], i)
        BY <1>1, <3>1, <3>2 DEF QueueAfter
      <3>3. CASE i \in v.queued /\ ~Unqueues(f[1], i)
        <4>1. \A j \in 1 .. Len(f) : ~Unqueues(f[j], i)
          BY <1>1, <3>1, <3>3
        <4> QED BY <3>3, <4>1 DEF QueueAfter
      <3> QED BY <1>2, <2>1, <3>2, <3>3
    <2>2. CASE ~(i \in w /\ \A j \in 1 .. Len(f) - 1 : ~Unqueues(Tail(f)[j], i))
      <3>1. PICK k \in 1 .. Len(f) - 1 :
              /\ Queues(Tail(f)[k], i)
              /\ \A j \in k + 1 .. Len(f) - 1 : ~Unqueues(Tail(f)[j], i)
        BY <1>1, <1>5, <2>2 DEF QueueAfter
      <3>2. ASSUME NEW j \in (k + 1) + 1 .. Len(f) PROVE ~Unqueues(f[j], i)
        <4>1. j - 1 \in k + 1 .. Len(f) - 1 /\ Tail(f)[j - 1] = f[j]
          BY <1>1, <3>1
        <4> QED BY <3>1, <4>1
      <3>3. k + 1 \in 1 .. Len(f) /\ Tail(f)[k] = f[k + 1]
        BY <1>1, <3>1
      <3> QED BY <3>1, <3>2, <3>3 DEF QueueAfter
    <2> QED BY <2>1, <2>2
  <1>6. QueueAfter(f, v.queued) \subseteq Msg /\ QueueAfter(Tail(f), w) \subseteq Msg
    BY DEF QueueAfter
  <1> QED BY <1>4, <1>5, <1>6 DEF w

LEMMA SaidHead ==
  ASSUME NEW f \in Seq(FeedEvent), f # <<>>, NEW v \in Shown
  PROVE  SaidAfter(Tail(f), ShownAfter(v, Head(f)).said) = SaidAfter(f, v.said)
  <1> DEFINE w == ShownAfter(v, Head(f)).said
  <1>1. /\ Head(f) = f[1] /\ Len(f) \in Nat /\ Len(f) > 0 /\ f[1] \in FeedEvent
        /\ Len(Tail(f)) = Len(f) - 1
        /\ \A k \in 1 .. Len(f) - 1 : Tail(f)[k] = f[k + 1]
    OBVIOUS
  <1>2. ASSUME NEW i \in Msg
        PROVE  i \in w <=> Says(f[1], i) \/ (i \in v.said /\ ~Unsays(f[1], i))
    BY <1>1 DEF ShownAfter, Says, Unsays, FeedEvent, Shown
  <1> HIDE DEF w
  <1>3. ASSUME NEW i \in Msg
        PROVE  (\A j \in 1 .. Len(f) - 1 : ~Unsays(Tail(f)[j], i))
                 <=> \A j \in 2 .. Len(f) : ~Unsays(f[j], i)
    <2>1. ASSUME NEW j \in 2 .. Len(f), \A k \in 1 .. Len(f) - 1 : ~Unsays(Tail(f)[k], i)
          PROVE  ~Unsays(f[j], i)
      <3>1. j - 1 \in 1 .. Len(f) - 1 /\ (j - 1) + 1 = j
        BY <1>1
      <3> QED BY <1>1, <2>1, <3>1
    <2>2. ASSUME NEW j \in 1 .. Len(f) - 1, \A k \in 2 .. Len(f) : ~Unsays(f[k], i)
          PROVE  ~Unsays(Tail(f)[j], i)
      <3>1. j + 1 \in 2 .. Len(f) /\ Tail(f)[j] = f[j + 1]
        BY <1>1
      <3> QED BY <2>2, <3>1
    <2> QED BY <2>1, <2>2
  <1>4. ASSUME NEW i \in Msg, i \in SaidAfter(f, v.said) PROVE i \in SaidAfter(Tail(f), w)
    <2>1. CASE \A j \in 2 .. Len(f) : ~Unsays(f[j], i)
      <3>1. CASE i \in w
        BY <1>1, <1>3, <2>1, <3>1 DEF SaidAfter
      <3>2. CASE i \notin w
        <4>1. PICK k \in 1 .. Len(f) : Says(f[k], i)
          BY <1>1, <1>2, <1>4, <3>2 DEF SaidAfter
        <4>2. k - 1 \in 1 .. Len(f) - 1 /\ Tail(f)[k - 1] = f[k]
          BY <1>1, <1>2, <3>2, <4>1
        <4>3. \A j \in (k - 1) + 1 .. Len(f) - 1 : ~Unsays(Tail(f)[j], i)
          BY <1>1, <1>3, <2>1, <4>1
        <4> QED BY <1>1, <4>1, <4>2, <4>3 DEF SaidAfter
      <3> QED BY <3>1, <3>2
    <2>2. CASE ~ \A j \in 2 .. Len(f) : ~Unsays(f[j], i)
      <3>1. PICK k \in 1 .. Len(f) : /\ Says(f[k], i)
                                     /\ \A j \in k + 1 .. Len(f) : ~Unsays(f[j], i)
        BY <1>1, <1>4, <2>2 DEF SaidAfter
      <3>2. k - 1 \in 1 .. Len(f) - 1 /\ Tail(f)[k - 1] = f[k]
        BY <1>1, <2>2, <3>1
      <3>3. \A j \in (k - 1) + 1 .. Len(f) - 1 : ~Unsays(Tail(f)[j], i)
        BY <1>1, <3>1
      <3> QED BY <1>1, <3>1, <3>2, <3>3 DEF SaidAfter
    <2> QED BY <2>1, <2>2
  <1>5. ASSUME NEW i \in Msg, i \in SaidAfter(Tail(f), w) PROVE i \in SaidAfter(f, v.said)
    <2>1. CASE i \in w /\ \A j \in 1 .. Len(f) - 1 : ~Unsays(Tail(f)[j], i)
      <3>1. \A j \in 1 + 1 .. Len(f) : ~Unsays(f[j], i)
        BY <1>3, <2>1
      <3>2. CASE Says(f[1], i)
        BY <1>1, <3>1, <3>2 DEF SaidAfter
      <3>3. CASE i \in v.said /\ ~Unsays(f[1], i)
        <4>1. \A j \in 1 .. Len(f) : ~Unsays(f[j], i)
          BY <1>1, <3>1, <3>3
        <4> QED BY <3>3, <4>1 DEF SaidAfter
      <3> QED BY <1>2, <2>1, <3>2, <3>3
    <2>2. CASE ~(i \in w /\ \A j \in 1 .. Len(f) - 1 : ~Unsays(Tail(f)[j], i))
      <3>1. PICK k \in 1 .. Len(f) - 1 :
              /\ Says(Tail(f)[k], i)
              /\ \A j \in k + 1 .. Len(f) - 1 : ~Unsays(Tail(f)[j], i)
        BY <1>1, <1>5, <2>2 DEF SaidAfter
      <3>2. ASSUME NEW j \in (k + 1) + 1 .. Len(f) PROVE ~Unsays(f[j], i)
        <4>1. j - 1 \in k + 1 .. Len(f) - 1 /\ Tail(f)[j - 1] = f[j]
          BY <1>1, <3>1
        <4> QED BY <3>1, <4>1
      <3>3. k + 1 \in 1 .. Len(f) /\ Tail(f)[k] = f[k + 1]
        BY <1>1, <3>1
      <3> QED BY <3>1, <3>2, <3>3 DEF SaidAfter
    <2> QED BY <2>1, <2>2
  <1>6. SaidAfter(f, v.said) \subseteq Msg /\ SaidAfter(Tail(f), w) \subseteq Msg
    BY DEF SaidAfter
  <1> QED BY <1>4, <1>5, <1>6 DEF w
(* A batch of events that takes the prompts P out of the queue. *)
LEMMA QueueBatch ==
  ASSUME NEW f \in Seq(FeedEvent), NEW d \in Seq(FeedEvent),
         NEW Q \in SUBSET Msg, NEW P \in SUBSET Msg,
         \A k \in 1 .. Len(d) : d[k].type = "dequeued" /\ d[k].id \in P,
         \A i \in P : \E k \in 1 .. Len(d) : d[k].id = i
  PROVE  QueueAfter(f \o d, Q) = QueueAfter(f, Q) \ P
  <1> DEFINE g == f \o d
  <1>1. /\ Len(g) = Len(f) + Len(d) /\ Len(f) \in Nat /\ Len(d) \in Nat
        /\ \A k \in 1 .. Len(f) : g[k] = f[k]
        /\ \A k \in Len(f) + 1 .. Len(g) : g[k] = d[k - Len(f)]
        /\ \A k \in 1 .. Len(d) : g[Len(f) + k] = d[k]
    OBVIOUS
  <1> HIDE DEF g
  <1>2. ASSUME NEW i \in Msg, NEW k \in Len(f) + 1 .. Len(g)
        PROVE  ~Queues(g[k], i) /\ (Unqueues(g[k], i) => i \in P)
    <2>1. k - Len(f) \in 1 .. Len(d) /\ g[k] = d[k - Len(f)]
      BY <1>1
    <2> QED BY <2>1 DEF Queues, Unqueues
  <1>3. ASSUME NEW i \in Msg, i \in QueueAfter(g, Q) PROVE i \in QueueAfter(f, Q) /\ i \notin P
    <2>1. i \notin P
      <3>1. SUFFICES ASSUME i \in P PROVE FALSE
        OBVIOUS
      <3>2. PICK k \in 1 .. Len(d) : d[k].id = i /\ d[k].type = "dequeued"
        BY <3>1
      <3>3. Len(f) + k \in Len(f) + 1 .. Len(g) /\ Unqueues(g[Len(f) + k], i)
        BY <1>1, <3>2 DEF Unqueues
      <3>4. \A j \in 1 .. Len(g) : Queues(g[j], i) => j \in 1 .. Len(f)
        BY <1>1, <1>2
      <3> QED BY <1>1, <1>3, <3>3, <3>4 DEF QueueAfter
    <2>2. \A j \in 1 .. Len(f) : Unqueues(f[j], i) => Unqueues(g[j], i)
      BY <1>1
    <2>3. CASE i \in Q /\ \A j \in 1 .. Len(g) : ~Unqueues(g[j], i)
      <3>1. \A j \in 1 .. Len(f) : ~Unqueues(f[j], i)
        BY <1>1, <2>2, <2>3
      <3> QED BY <2>1, <2>3, <3>1 DEF QueueAfter
    <2>4. CASE ~(i \in Q /\ \A j \in 1 .. Len(g) : ~Unqueues(g[j], i))
      <3>1. PICK k \in 1 .. Len(g) : /\ Queues(g[k], i)
                                     /\ \A j \in k + 1 .. Len(g) : ~Unqueues(g[j], i)
        BY <1>3, <2>4 DEF QueueAfter
      <3>2. k \in 1 .. Len(f) /\ Queues(f[k], i)
        <4>1. k \notin Len(f) + 1 .. Len(g)
          BY <1>2, <3>1
        <4> QED BY <1>1, <3>1, <4>1
      <3>3. \A j \in k + 1 .. Len(f) : ~Unqueues(f[j], i)
        BY <1>1, <3>1, <3>2
      <3> QED BY <2>1, <3>2, <3>3 DEF QueueAfter
    <2> QED BY <2>3, <2>4
  <1>4. ASSUME NEW i \in Msg, i \in QueueAfter(f, Q), i \notin P PROVE i \in QueueAfter(g, Q)
    <2>1. \A j \in Len(f) + 1 .. Len(g) : ~Unqueues(g[j], i)
      BY <1>2, <1>4
    <2>2. CASE i \in Q /\ \A j \in 1 .. Len(f) : ~Unqueues(f[j], i)
      <3>1. ASSUME NEW j \in 1 .. Len(g) PROVE ~Unqueues(g[j], i)
        <4>1. j \in 1 .. Len(f) \/ j \in Len(f) + 1 .. Len(g)
          BY <1>1
        <4>2. j \in 1 .. Len(f) => g[j] = f[j]
          BY <1>1
        <4> QED BY <2>1, <2>2, <4>1, <4>2
      <3> QED BY <2>2, <3>1 DEF QueueAfter
    <2>3. CASE ~(i \in Q /\ \A j \in 1 .. Len(f) : ~Unqueues(f[j], i))
      <3>1. PICK k \in 1 .. Len(f) : /\ Queues(f[k], i)
                                     /\ \A j \in k + 1 .. Len(f) : ~Unqueues(f[j], i)
        BY <1>4, <2>3 DEF QueueAfter
      <3>2. k \in 1 .. Len(g) /\ Queues(g[k], i)
        BY <1>1, <3>1
      <3>3. \A j \in k + 1 .. Len(g) : ~Unqueues(g[j], i)
        BY <1>1, <2>1, <3>1
      <3> QED BY <3>2, <3>3 DEF QueueAfter
    <2> QED BY <2>2, <2>3
  <1>5. QueueAfter(f, Q) \subseteq Msg /\ QueueAfter(g, Q) \subseteq Msg
    BY DEF QueueAfter
  <1> QED BY <1>3, <1>4, <1>5 DEF g

(* Such a batch says nothing. *)
LEMMA SaidBatch ==
  ASSUME NEW f \in Seq(FeedEvent), NEW d \in Seq(FeedEvent), NEW S \in SUBSET Msg,
         \A k \in 1 .. Len(d) : d[k].type = "dequeued"
  PROVE  SaidAfter(f \o d, S) = SaidAfter(f, S)
  <1> DEFINE g == f \o d
  <1>1. /\ Len(g) = Len(f) + Len(d) /\ Len(f) \in Nat /\ Len(d) \in Nat
        /\ \A k \in 1 .. Len(f) : g[k] = f[k]
        /\ \A k \in Len(f) + 1 .. Len(g) : g[k] = d[k - Len(f)]
    OBVIOUS
  <1> HIDE DEF g
  <1>2. ASSUME NEW i \in Msg, NEW k \in Len(f) + 1 .. Len(g)
        PROVE  ~Says(g[k], i) /\ ~Unsays(g[k], i)
    <2>1. k - Len(f) \in 1 .. Len(d) /\ g[k] = d[k - Len(f)]
      BY <1>1
    <2> QED BY <2>1 DEF Says, Unsays
  <1>3. ASSUME NEW i \in Msg, i \in SaidAfter(g, S) PROVE i \in SaidAfter(f, S)
    <2>2. \A j \in 1 .. Len(f) : Unsays(f[j], i) => Unsays(g[j], i)
      BY <1>1
    <2>3. CASE i \in S /\ \A j \in 1 .. Len(g) : ~Unsays(g[j], i)
      <3>1. \A j \in 1 .. Len(f) : ~Unsays(f[j], i)
        BY <1>1, <2>2, <2>3
      <3> QED BY <2>3, <3>1 DEF SaidAfter
    <2>4. CASE ~(i \in S /\ \A j \in 1 .. Len(g) : ~Unsays(g[j], i))
      <3>1. PICK k \in 1 .. Len(g) : /\ Says(g[k], i)
                                     /\ \A j \in k + 1 .. Len(g) : ~Unsays(g[j], i)
        BY <1>3, <2>4 DEF SaidAfter
      <3>2. k \in 1 .. Len(f) /\ Says(f[k], i)
        <4>1. k \notin Len(f) + 1 .. Len(g)
          BY <1>2, <3>1
        <4> QED BY <1>1, <3>1, <4>1
      <3>3. \A j \in k + 1 .. Len(f) : ~Unsays(f[j], i)
        BY <1>1, <3>1, <3>2
      <3> QED BY <3>2, <3>3 DEF SaidAfter
    <2> QED BY <2>3, <2>4
  <1>4. ASSUME NEW i \in Msg, i \in SaidAfter(f, S) PROVE i \in SaidAfter(g, S)
    <2>1. \A j \in Len(f) + 1 .. Len(g) : ~Unsays(g[j], i)
      BY <1>2, <1>4
    <2>2. CASE i \in S /\ \A j \in 1 .. Len(f) : ~Unsays(f[j], i)
      <3>1. ASSUME NEW j \in 1 .. Len(g) PROVE ~Unsays(g[j], i)
        <4>1. j \in 1 .. Len(f) \/ j \in Len(f) + 1 .. Len(g)
          BY <1>1
        <4>2. j \in 1 .. Len(f) => g[j] = f[j]
          BY <1>1
        <4> QED BY <2>1, <2>2, <4>1, <4>2
      <3> QED BY <2>2, <3>1 DEF SaidAfter
    <2>3. CASE ~(i \in S /\ \A j \in 1 .. Len(f) : ~Unsays(f[j], i))
      <3>1. PICK k \in 1 .. Len(f) : /\ Says(f[k], i)
                                     /\ \A j \in k + 1 .. Len(f) : ~Unsays(f[j], i)
        BY <1>4, <2>3 DEF SaidAfter
      <3>2. k \in 1 .. Len(g) /\ Says(g[k], i)
        BY <1>1, <3>1
      <3>3. \A j \in k + 1 .. Len(g) : ~Unsays(g[j], i)
        BY <1>1, <2>1, <3>1
      <3> QED BY <3>2, <3>3 DEF SaidAfter
    <2> QED BY <2>2, <2>3
  <1>5. SaidAfter(f, S) \subseteq Msg /\ SaidAfter(g, S) \subseteq Msg
    BY DEF SaidAfter
  <1> QED BY <1>3, <1>4, <1>5 DEF g

--------------------------------------------------------------------------
(* The queue of prompts. *)

LEMMA QueuedIsMsg == pend \in Seq(Prompt) => QueuedIds \subseteq Msg
  <1> HAVE pend \in Seq(Prompt)
  <1>1. \A i \in DOMAIN pend : pend[i] \in Prompt
    OBVIOUS
  <1> QED BY <1>1 DEF QueuedIds, Prompt

LEMMA FreshIs ==
  ASSUME HasId, pend \in Seq(Prompt), said \subseteq Msg
  PROVE  FreshId \in Msg /\ FreshId \notin said \cup QueuedIds
  <1>1. Msg \ (said \cup QueuedIds) # {}
    BY QueuedIsMsg DEF HasId
  <1> QED BY <1>1 DEF FreshId

(* The events of a dropped queue: one `dequeued` for each prompt. *)
LEMMA DequeueIs ==
  ASSUME pend \in Seq(Prompt)
  PROVE  /\ Dequeue \in Seq(FeedEvent)
         /\ \A k \in 1 .. Len(Dequeue) : /\ Dequeue[k].type = "dequeued"
                                         /\ Dequeue[k].id \in QueuedIds
         /\ \A i \in QueuedIds : \E k \in 1 .. Len(Dequeue) : Dequeue[k].id = i
  <1> DEFINE D == {Detail("dequeued", i) : i \in QueuedIds}
             F == [i \in QueuedIds |-> Detail("dequeued", i)]
             n == Cardinality(D)
  <1>1. D \subseteq FeedEvent /\ QueuedIds \subseteq Msg
    BY QueuedIsMsg DEF FeedEvent, Detail
  <1>2. IsFiniteSet(D)
    <2>1. MaxMsg \in Nat
      BY ClientAssumption
    <2>2. 1 \in Int /\ MaxMsg \in Int
      BY <2>1
    <2>3. IsFiniteSet(1 .. MaxMsg)
      BY <2>2, FS_Interval
    <2>4. IsFiniteSet(QueuedIds)
      BY <1>1, <2>3, FS_Subset DEF Msg
    <2>5. F \in Surjection(QueuedIds, D)
      BY DEF Surjection
    <2> QED BY <2>4, <2>5, FS_Surjection
  <1> HIDE DEF D
  <1>3. n \in Nat /\ ExistsBijection(1 .. n, D)
    BY <1>2, FS_CardinalityType
  <1>4. \E f \in [1 .. n -> D] : IsInjective(f)
    BY <1>3 DEF ExistsBijection, Bijection, Injection
  <1>5. Dequeue \in [1 .. n -> D] /\ IsInjective(Dequeue)
    BY <1>4 DEF Dequeue, SetToSeq, D
  <1>6. Dequeue \in Surjection(1 .. n, D)
    <2>1. Dequeue \in Injection(1 .. n, D)
      BY <1>5 DEF Injection
    <2>2. 1 \in Int /\ n \in Int
      BY <1>3
    <2>3. Cardinality(1 .. n) = n /\ IsFiniteSet(1 .. n)
      BY <1>3, <2>2, FS_Interval
    <2> QED BY <1>2, <2>1, <2>3, FS_Injection
  <1>7. Dequeue \in Seq(FeedEvent) /\ Len(Dequeue) = n /\ \A k \in 1 .. n : Dequeue[k] \in D
    BY <1>1, <1>3, <1>5
  <1>8. \A i \in QueuedIds : \E k \in 1 .. n : Dequeue[k] = Detail("dequeued", i)
    BY <1>6 DEF Surjection, D
  <1>9. \A x \in D : x.type = "dequeued" /\ x.id \in QueuedIds
    BY DEF D, Detail
  <1>10. \A i \in QueuedIds : Detail("dequeued", i).id = i
    BY DEF Detail
  <1> QED BY <1>7, <1>8, <1>9, <1>10

(* One prompt taken out of the queue. *)
LEMMA RemovedIs ==
  ASSUME NEW s \in Seq(Prompt), NEW i \in 1 .. Len(s),
         \A j, k \in DOMAIN s : s[j].id = s[k].id => j = k
  PROVE  /\ RemoveAt(s, i) \in Seq(Prompt)
         /\ \A j, k \in DOMAIN RemoveAt(s, i) :
              RemoveAt(s, i)[j].id = RemoveAt(s, i)[k].id => j = k
         /\ {RemoveAt(s, i)[j].id : j \in DOMAIN RemoveAt(s, i)}
              = {s[j].id : j \in DOMAIN s} \ {s[i].id}
  <1> DEFINE left == SubSeq(s, 1, i - 1)
             right == SubSeq(s, i + 1, Len(s))
             r == left \o right
             at(j) == IF j < i THEN j ELSE j + 1
  <1>1. /\ r \in Seq(Prompt) /\ Len(r) = Len(s) - 1 /\ Len(s) \in Nat
        /\ \A j \in 1 .. Len(r) : r[j] = s[at(j)] /\ at(j) \in 1 .. Len(s) /\ at(j) # i
    <2>1. Len(s) \in Nat /\ i \in Nat /\ 1 <= i /\ i <= Len(s)
      OBVIOUS
    <2>2. left \in Seq(Prompt) /\ right \in Seq(Prompt)
      BY <2>1
    <2>3. Len(left) = i - 1 /\ \A j \in 1 .. i - 1 : left[j] = s[j]
      BY <2>1
    <2>4. Len(right) = Len(s) - i /\ \A j \in 1 .. Len(s) - i : right[j] = s[i + j]
      BY <2>1
    <2> HIDE DEF left, right
    <2>5. r \in Seq(Prompt) /\ Len(r) = Len(s) - 1
      BY <2>1, <2>2, <2>3, <2>4
    <2>6. ASSUME NEW j \in 1 .. Len(r)
          PROVE  r[j] = s[at(j)] /\ at(j) \in 1 .. Len(s) /\ at(j) # i
      <3>1. CASE j < i
        BY <2>1, <2>2, <2>3, <2>4, <2>5, <3>1
      <3>2. CASE ~(j < i)
        <4>1. j - (i - 1) \in 1 .. Len(s) - i /\ i + (j - (i - 1)) = j + 1
          BY <2>1, <2>5, <3>2
        <4>2. r[j] = right[j - (i - 1)]
          BY <2>1, <2>2, <2>3, <2>4, <2>5, <3>2
        <4> QED BY <2>1, <2>4, <2>5, <3>2, <4>1, <4>2
      <3> QED BY <3>1, <3>2
    <2> QED BY <2>1, <2>5, <2>6
  <1> HIDE DEF left, right, r
  <1>2. \A j, k \in 1 .. Len(r) : at(j) = at(k) => j = k
    BY <1>1
  <1>3. \A k \in 1 .. Len(s) : k # i => \E j \in 1 .. Len(r) : k = at(j)
    <2> SUFFICES ASSUME NEW k \in 1 .. Len(s), k # i
                 PROVE  \E j \in 1 .. Len(r) : k = at(j)
      OBVIOUS
    <2>1. CASE k < i
      <3>1. k \in 1 .. Len(r) /\ k = at(k)
        BY <1>1, <2>1
      <3> QED BY <3>1
    <2>2. CASE k > i
      <3>1. k - 1 \in 1 .. Len(r) /\ k = at(k - 1)
        BY <1>1, <2>2
      <3> QED BY <3>1
    <2> QED BY <1>1, <2>1, <2>2
  <1> HIDE DEF at
  <1>4. DOMAIN r = 1 .. Len(r) /\ DOMAIN s = 1 .. Len(s)
    BY <1>1
  <1>5. \A j, k \in DOMAIN r : r[j].id = r[k].id => j = k
    BY <1>1, <1>2, <1>4
  <1>6. ASSUME NEW x PROVE x \in {r[j].id : j \in DOMAIN r}
                             <=> x \in {s[j].id : j \in DOMAIN s} \ {s[i].id}
    <2>1. ASSUME NEW j \in DOMAIN r, x = r[j].id PROVE x \in {s[k].id : k \in DOMAIN s} \ {s[i].id}
      BY <1>1, <1>4, <2>1
    <2>2. ASSUME NEW k \in DOMAIN s, x = s[k].id, x # s[i].id PROVE x \in {r[j].id : j \in DOMAIN r}
      <3>1. PICK j \in 1 .. Len(r) : k = at(j)
        BY <1>3, <1>4, <2>2
      <3> QED BY <1>1, <1>4, <2>2, <3>1
    <2> QED BY <2>1, <2>2
  <1>7. r = RemoveAt(s, i)
    BY DEF r, left, right, RemoveAt
  <1>8. {r[j].id : j \in DOMAIN r} = {s[j].id : j \in DOMAIN s} \ {s[i].id}
    BY <1>6
  <1>9. r \in Seq(Prompt)
    BY <1>1
  <1> HIDE DEF r
  <1>10. RemoveAt(s, i) \in Seq(Prompt)
    BY <1>7, <1>9
  <1>11. \A j, k \in DOMAIN RemoveAt(s, i) :
              RemoveAt(s, i)[j].id = RemoveAt(s, i)[k].id => j = k
    BY <1>5, <1>7
  <1>12. {RemoveAt(s, i)[j].id : j \in DOMAIN RemoveAt(s, i)}
              = {s[j].id : j \in DOMAIN s} \ {s[i].id}
    BY <1>7, <1>8
  <1> QED BY <1>10, <1>11, <1>12

--------------------------------------------------------------------------
(* Types, and what a publication does. *)

LEMMA TabTypes ==
  /\ Closed \in TabState /\ ~Closed.on
  /\ \A s \in TabState : DOMAIN s = DOMAIN Closed
  BY DEF Closed, TabState

LEMMA EventTypes ==
  /\ \A type \in {"user", "assistant", "queued", "dequeued"}, i \in Msg :
       Detail(type, i) \in FeedEvent
  /\ \A type \in {"ask", "answered", "end"} : Detail(type, None) \in FeedEvent
  BY DEF Detail, FeedEvent

(* Every tab keeps what it has, but for its open stream, which carries ds more. *)
Told(ds) ==
  /\ wire' \in Seq(CoarseEvent)
  /\ feed' \in [Tab -> Seq(FeedEvent) \cup {None}]
  /\ \A t \in Tab : /\ feed[t] = None => feed'[t] = None
                    /\ feed[t] # None => feed'[t] = feed[t] \o ds /\ feed'[t] # None
                    /\ ~mended'[t]
  /\ mended' \in [Tab -> BOOLEAN]
  /\ UNCHANGED <<leader, conn, chan, tab, view, fetch, drops>>

LEMMA Published ==
  ASSUME Types, NEW es \in Seq(CoarseEvent), NEW ds \in Seq(FeedEvent), Publish(es, ds)
  PROVE  Told(ds)
  <1>1. wire' \in Seq(CoarseEvent)
    BY DEF Types, Publish
  <1>2. ASSUME NEW t \in Tab
        PROVE  /\ feed'[t] \in Seq(FeedEvent) \cup {None}
               /\ feed[t] = None => feed'[t] = None
               /\ feed[t] # None => feed'[t] = feed[t] \o ds /\ feed'[t] # None
               /\ ~mended'[t]
    <2>1. feed'[t] = IF feed[t] = None THEN None ELSE feed[t] \o ds
      BY DEF Publish
    <2>2. feed[t] \in Seq(FeedEvent) \cup {None}
      BY DEF Types
    <2>3. feed[t] # None => feed[t] \o ds \in Seq(FeedEvent)
      BY <2>2
    <2>4. ~mended'[t]
      BY DEF Publish
    <2> QED BY <2>1, <2>2, <2>3, <2>4
  <1>3. feed' \in [Tab -> Seq(FeedEvent) \cup {None}]
    BY <1>2 DEF Publish
  <1>4. mended' \in [Tab -> BOOLEAN]
    BY DEF Publish
  <1> QED BY <1>1, <1>2, <1>3, <1>4 DEF Publish, Told

--------------------------------------------------------------------------
(* What an event does to a stream in tune with the server. *)

LEMMA QueuedTunes ==
  ASSUME NEW f \in Seq(FeedEvent), NEW v \in Shown, NEW Q \in SUBSET Msg,
         NEW S \in SUBSET Msg, NEW B \in SUBSET Msg, InTune(f, v, Q, S, B),
         NEW i \in Msg
  PROVE  InTune(f \o <<Detail("queued", i)>>, v, Q \cup {i}, S, B)
  <1> DEFINE e == Detail("queued", i)
  <1>1. e \in FeedEvent /\ v.queued \in SUBSET Msg /\ v.said \in SUBSET Msg
    BY EventTypes DEF Shown
  <1>2. \A j \in Msg : /\ Queues(e, j) <=> j = i
                       /\ ~Unqueues(e, j) /\ ~Says(e, j) /\ ~Unsays(e, j)
    BY DEF Queues, Unqueues, Says, Unsays, Detail
  <1> HIDE DEF e
  <1>3. QueueAfter(f \o <<e>>, v.queued) = QueueAfter(f, v.queued) \cup {i}
    <2>1. QueueAfter(f \o <<e>>, v.queued) =
            {j \in Msg : Queues(e, j) \/ (j \in QueueAfter(f, v.queued) /\ ~Unqueues(e, j))}
      BY <1>1, QueueAppend
    <2>2. QueueAfter(f, v.queued) \subseteq Msg
      BY DEF QueueAfter
    <2> QED BY <1>2, <2>1, <2>2
  <1>4. SaidAfter(f \o <<e>>, v.said) = SaidAfter(f, v.said)
    <2>1. SaidAfter(f \o <<e>>, v.said) =
            {j \in Msg : Says(e, j) \/ (j \in SaidAfter(f, v.said) /\ ~Unsays(e, j))}
      BY <1>1, SaidAppend
    <2>2. SaidAfter(f, v.said) \subseteq Msg
      BY DEF SaidAfter
    <2> QED BY <1>2, <2>1, <2>2
  <1> QED BY <1>3, <1>4 DEF InTune, e

LEMMA DequeuedTunes ==
  ASSUME NEW f \in Seq(FeedEvent), NEW v \in Shown, NEW Q \in SUBSET Msg,
         NEW S \in SUBSET Msg, NEW B \in SUBSET Msg, InTune(f, v, Q, S, B),
         NEW d \in Seq(FeedEvent), NEW P \in SUBSET Msg,
         \A k \in 1 .. Len(d) : d[k].type = "dequeued" /\ d[k].id \in P,
         \A i \in P : \E k \in 1 .. Len(d) : d[k].id = i
  PROVE  InTune(f \o d, v, Q \ P, S, B)
  <1>1. v.queued \in SUBSET Msg /\ v.said \in SUBSET Msg
    BY DEF Shown
  <1>2. QueueAfter(f \o d, v.queued) = QueueAfter(f, v.queued) \ P
    BY <1>1, QueueBatch
  <1>3. SaidAfter(f \o d, v.said) = SaidAfter(f, v.said)
    BY <1>1, SaidBatch
  <1> QED BY <1>2, <1>3 DEF InTune

LEMMA SaidTunes ==
  ASSUME NEW f \in Seq(FeedEvent), NEW v \in Shown, NEW Q \in SUBSET Msg,
         NEW S \in SUBSET Msg, NEW B \in SUBSET Msg, InTune(f, v, Q, S, B),
         NEW i \in Msg, NEW type \in {"user", "assistant"}
  PROVE  InTune(f \o <<Detail(type, i)>>, v, Q, S \cup {i}, B)
  <1> DEFINE e == Detail(type, i)
  <1>1. e \in FeedEvent /\ v.queued \in SUBSET Msg /\ v.said \in SUBSET Msg
    BY EventTypes DEF Shown
  <1>2. \A j \in Msg : /\ Says(e, j) <=> j = i
                       /\ ~Unqueues(e, j) /\ ~Queues(e, j) /\ ~Unsays(e, j)
    BY DEF Queues, Unqueues, Says, Unsays, Detail
  <1> HIDE DEF e
  <1>3. QueueAfter(f \o <<e>>, v.queued) = QueueAfter(f, v.queued)
    <2>1. QueueAfter(f \o <<e>>, v.queued) =
            {j \in Msg : Queues(e, j) \/ (j \in QueueAfter(f, v.queued) /\ ~Unqueues(e, j))}
      BY <1>1, QueueAppend
    <2>2. QueueAfter(f, v.queued) \subseteq Msg
      BY DEF QueueAfter
    <2> QED BY <1>2, <2>1, <2>2
  <1>4. SaidAfter(f \o <<e>>, v.said) = SaidAfter(f, v.said) \cup {i}
    <2>1. SaidAfter(f \o <<e>>, v.said) =
            {j \in Msg : Says(e, j) \/ (j \in SaidAfter(f, v.said) /\ ~Unsays(e, j))}
      BY <1>1, SaidAppend
    <2>2. SaidAfter(f, v.said) \subseteq Msg
      BY DEF SaidAfter
    <2> QED BY <1>2, <2>1, <2>2
  <1> QED BY <1>3, <1>4 DEF InTune, e

LEMMA OtherTunes ==
  ASSUME NEW f \in Seq(FeedEvent), NEW v \in Shown, NEW Q \in SUBSET Msg,
         NEW S \in SUBSET Msg, NEW B \in SUBSET Msg, InTune(f, v, Q, S, B),
         NEW type \in {"ask", "answered", "end"}
  PROVE  InTune(f \o <<Detail(type, None)>>, v, Q, S, B)
  <1> DEFINE e == Detail(type, None)
  <1>1. e \in FeedEvent /\ v.queued \in SUBSET Msg /\ v.said \in SUBSET Msg
    BY EventTypes DEF Shown
  <1>2. \A j \in Msg : ~Queues(e, j) /\ ~Unqueues(e, j) /\ ~Says(e, j) /\ ~Unsays(e, j)
    BY DEF Queues, Unqueues, Says, Unsays, Detail
  <1> HIDE DEF e
  <1>3. QueueAfter(f \o <<e>>, v.queued) = QueueAfter(f, v.queued)
    <2>1. QueueAfter(f \o <<e>>, v.queued) =
            {j \in Msg : Queues(e, j) \/ (j \in QueueAfter(f, v.queued) /\ ~Unqueues(e, j))}
      BY <1>1, QueueAppend
    <2>2. QueueAfter(f, v.queued) \subseteq Msg
      BY DEF QueueAfter
    <2> QED BY <1>2, <2>1, <2>2
  <1>4. SaidAfter(f \o <<e>>, v.said) = SaidAfter(f, v.said)
    <2>1. SaidAfter(f \o <<e>>, v.said) =
            {j \in Msg : Says(e, j) \/ (j \in SaidAfter(f, v.said) /\ ~Unsays(e, j))}
      BY <1>1, SaidAppend
    <2>2. SaidAfter(f, v.said) \subseteq Msg
      BY DEF SaidAfter
    <2> QED BY <1>2, <2>1, <2>2
  <1> QED BY <1>3, <1>4 DEF InTune, e

(* A snapshot puts any tab in tune; so does what follows in the stream, handled. *)
LEMMA SnapshotTunes ==
  ASSUME NEW v \in Shown, NEW Q \in SUBSET Msg, NEW S \in SUBSET Msg, NEW B,
         NEW e \in FeedEvent, e.type = "snapshot", e.queued = Q, e.said = S
  PROVE  InTune(<<e>>, v, Q, S, B)
  <1>1. /\ <<>> \in Seq(FeedEvent) /\ v.queued \in SUBSET Msg /\ v.said \in SUBSET Msg
        /\ <<>> \o <<e>> = <<e>>
    BY DEF Shown
  <1>2. \A j \in Msg : /\ Queues(e, j) <=> j \in Q
                       /\ Unqueues(e, j) <=> j \notin Q
                       /\ Says(e, j) <=> j \in S
                       /\ Unsays(e, j) <=> j \notin S
    BY DEF Queues, Unqueues, Says, Unsays
  <1>3. QueueAfter(<<e>>, v.queued) = Q
    <2>1. QueueAfter(<<>> \o <<e>>, v.queued) =
            {j \in Msg : Queues(e, j) \/ (j \in QueueAfter(<<>>, v.queued) /\ ~Unqueues(e, j))}
      BY <1>1, QueueAppend
    <2> QED BY <1>1, <1>2, <2>1
  <1>4. SaidAfter(<<e>>, v.said) = S
    <2>1. SaidAfter(<<>> \o <<e>>, v.said) =
            {j \in Msg : Says(e, j) \/ (j \in SaidAfter(<<>>, v.said) /\ ~Unsays(e, j))}
      BY <1>1, SaidAppend
    <2> QED BY <1>1, <1>2, <2>1
  <1> QED BY <1>3, <1>4 DEF InTune

LEMMA HeadTunes ==
  ASSUME NEW f \in Seq(FeedEvent), f # <<>>, NEW v \in Shown,
         NEW Q, NEW S, NEW B, InTune(f, v, Q, S, B)
  PROVE  InTune(Tail(f), ShownAfter(v, Head(f)), Q, S, B)
  BY QueueHead, SaidHead DEF InTune

LEMMA ShownType ==
  ASSUME NEW v \in Shown, NEW e \in FeedEvent
  PROVE  ShownAfter(v, e) \in Shown
  BY DEF ShownAfter, Shown, FeedEvent

(* A recorded break is not told of. *)
LEMMA BreakTunes ==
  ASSUME NEW f \in Seq(FeedEvent), NEW v \in Shown, NEW Q \in SUBSET Msg,
         NEW S \in SUBSET Msg, NEW B \in SUBSET Msg, InTune(f, v, Q, S, B), NEW b \in Msg
  PROVE  InTune(f, v, Q, S \cup {b}, B \cup {b})
  BY DEF InTune

--------------------------------------------------------------------------
(* The launches that wait. *)

(* The same ones wait, stopped or cleared perhaps. *)
SameClaims ==
  /\ claims' \in Seq(Claim) /\ Len(claims') = Len(claims)
  /\ \A i \in 1 .. Len(claims) : claims'[i].by = claims[i].by

(* Every waiting POST of a tab goes on waiting, but for those of tabs in T. *)
OthersWait(T) == \A t \in Tab \ T : Waits(post[t]) => Waits(post'[t])

LEMMA ClaimFacts ==
  ASSUME IInv
  PROVE  /\ claims \in Seq(Claim) /\ Len(claims) \in Nat /\ DOMAIN claims = 1 .. Len(claims)
         /\ \A i \in 1 .. Len(claims) :
              /\ claims[i] \in Claim
              /\ claims[i].by # None => claims[i].by \in Tab /\ Waits(post[claims[i].by])
         /\ \A i, j \in 1 .. Len(claims) :
              claims[i].by # None /\ claims[i].by = claims[j].by => i = j
  <1>1. claims \in Seq(Claim)
    BY DEF IInv, TypeOK
  <1>2. Len(claims) \in Nat /\ DOMAIN claims = 1 .. Len(claims)
        /\ \A i \in 1 .. Len(claims) : claims[i] \in Claim
    BY <1>1
  <1>3. \A i \in 1 .. Len(claims) : claims[i].by \in Tab \cup {None}
    BY <1>2 DEF Claim
  <1> QED BY <1>1, <1>2, <1>3 DEF IInv, ClaimsWait

LEMMA ClaimsStay ==
  ASSUME IInv, SameClaims, OthersWait({})
  PROVE  claims' \in Seq(Claim) /\ ClaimsWait'
  <1>1. DOMAIN claims' = 1 .. Len(claims)
    BY DEF SameClaims
  <1> QED BY <1>1, ClaimFacts DEF SameClaims, OthersWait, ClaimsWait

LEMMA ClaimsKept ==
  ASSUME IInv, claims' = claims, OthersWait({})
  PROVE  claims' \in Seq(Claim) /\ ClaimsWait'
  <1>1. SameClaims
    BY ClaimFacts DEF SameClaims
  <1> QED BY <1>1, ClaimsStay

(* One more waits. *)
LEMMA ClaimMade ==
  ASSUME IInv, NEW by \in Tab \cup {None}, NEW doc \in BOOLEAN,
         claims' = Append(claims, NewClaim(by, doc)), OthersWait({}),
         by # None => ~Waits(post[by]) /\ Waits(post'[by])
  PROVE  claims' \in Seq(Claim) /\ ClaimsWait'
  <1> DEFINE c == NewClaim(by, doc)
             n == Len(claims)
  <1>1. c \in Claim /\ c.by = by
    BY DEF NewClaim, Claim
  <1> HIDE DEF c
  <1>2. claims' = Append(claims, c)
    BY DEF c
  <1>3. /\ claims' \in Seq(Claim) /\ DOMAIN claims' = 1 .. n + 1 /\ n \in Nat
        /\ claims'[n + 1] = c /\ \A i \in 1 .. n : claims'[i] = claims[i]
    BY <1>1, <1>2, ClaimFacts
  <1> HIDE DEF n
  <1>4. \A i \in 1 .. n + 1 : i \in 1 .. n \/ i = n + 1
    BY <1>3
  <1>5. \A i \in 1 .. n :
          /\ claims'[i].by # None => claims'[i].by \in Tab /\ Waits(post'[claims'[i].by])
          /\ claims'[i].by # None => claims'[i].by # by
    BY <1>3, ClaimFacts DEF OthersWait, n
  <1>6. \A i \in DOMAIN claims' : claims'[i].by # None => Waits(post'[claims'[i].by])
    BY <1>1, <1>3, <1>4, <1>5
  <1>7. ASSUME NEW i \in DOMAIN claims', NEW j \in DOMAIN claims',
               claims'[i].by # None, claims'[i].by = claims'[j].by
        PROVE  i = j
    <2>1. CASE i \in 1 .. n /\ j \in 1 .. n
      BY <1>3, <1>7, <2>1, ClaimFacts DEF n
    <2>2. CASE ~(i \in 1 .. n /\ j \in 1 .. n)
      BY <1>1, <1>3, <1>4, <1>5, <1>7, <2>2
    <2> QED BY <2>1, <2>2
  <1> QED BY <1>3, <1>6, <1>7 DEF ClaimsWait

(* The first one waits no longer. *)
LEMMA ClaimDone ==
  ASSUME IInv, claims # <<>>, claims' = Tail(claims), OthersWait({Head(claims).by})
  PROVE  claims' \in Seq(Claim) /\ ClaimsWait'
  <1> DEFINE n == Len(claims)
             h == Head(claims)
  <1>1. /\ claims' \in Seq(Claim) /\ n \in Nat \ {0} /\ DOMAIN claims' = 1 .. n - 1
        /\ h = claims[1] /\ \A i \in 1 .. n - 1 : claims'[i] = claims[i + 1]
    BY ClaimFacts
  <1> HIDE DEF n, h
  <1>2. \A i \in 1 .. n - 1 : i + 1 \in 1 .. n /\ i + 1 # 1 /\ 1 \in 1 .. n
    BY <1>1
  <1>3. ASSUME NEW i \in DOMAIN claims', claims'[i].by # None
        PROVE  Waits(post'[claims'[i].by])
    <2>1. i + 1 \in 1 .. n /\ i + 1 # 1 /\ 1 \in 1 .. n /\ claims'[i] = claims[i + 1]
      BY <1>1, <1>2
    <2>2. claims'[i].by \in Tab /\ Waits(post[claims'[i].by]) /\ claims'[i].by # h.by
      BY <1>1, <1>3, <2>1, ClaimFacts DEF n
    <2> QED BY <2>2 DEF OthersWait, h
  <1>4. ASSUME NEW i \in DOMAIN claims', NEW j \in DOMAIN claims',
               claims'[i].by # None, claims'[i].by = claims'[j].by
        PROVE  i = j
    <2>1. /\ i + 1 \in 1 .. n /\ claims'[i] = claims[i + 1]
          /\ j + 1 \in 1 .. n /\ claims'[j] = claims[j + 1]
      BY <1>1, <1>2
    <2>2. i + 1 = j + 1
      BY <1>4, <2>1, ClaimFacts DEF n
    <2> QED BY <1>1, <2>2
  <1> QED BY <1>1, <1>3, <1>4 DEF ClaimsWait

(* What holds the slot is tripped. *)
LEMMA AbortsAre ==
  ASSUME IInv, Aborts
  PROVE  SameClaims /\ turn' \in Turn \cup {None}
  <1> DEFINE c(i) == [claims[i] EXCEPT !.stopped = TRUE]
  <1>1. claims' = [i \in DOMAIN claims |-> c(i)]
    BY DEF Aborts
  <1>2. \A i \in 1 .. Len(claims) : c(i) \in Claim /\ c(i).by = claims[i].by
    BY ClaimFacts DEF Claim
  <1> HIDE DEF c
  <1>3. claims' \in Seq(Claim) /\ Len(claims') = Len(claims)
        /\ \A i \in 1 .. Len(claims) : claims'[i] = c(i)
    BY <1>1, <1>2, ClaimFacts
  <1>4. turn' \in Turn \cup {None}
    BY DEF Aborts, Turn, Live, IInv, TypeOK
  <1> QED BY <1>2, <1>3, <1>4 DEF SameClaims

--------------------------------------------------------------------------
(* The server's steps. *)

LEMMA Facts ==
  ASSUME IInv
  PROVE  /\ row \in Row /\ turn \in Turn \cup {None}
         /\ breaks \subseteq said /\ said \subseteq Msg /\ breaks \subseteq Msg
         /\ pend \in Seq(Prompt) /\ QueuedIds \in SUBSET Msg /\ said \in SUBSET Msg
         /\ \A i, j \in DOMAIN pend : pend[i].id = pend[j].id => i = j
         /\ post \in [Tab -> Post \cup {None}]
         /\ Types /\ BreakIsSaid
         /\ HasId => FreshId \in Msg /\ FreshId \notin said \cup QueuedIds
  BY QueuedIsMsg, FreshIs DEF IInv, Types, TypeOK, PromptsDiffer

(* A publication in tune with what changes on the server. *)
LEMMA ServerStep ==
  ASSUME IInv, NEW ds \in Seq(FeedEvent), Told(ds),
         post' \in [Tab -> Post \cup {None}],
         claims' \in Seq(Claim), ClaimsWait', BreakIsSaid',
         row' \in Row, row'.here => row.here,
         turn' \in Turn \cup {None},
         breaks' \subseteq said', said' \subseteq Msg,
         pend' \in Seq(Prompt),
         \A i, j \in DOMAIN pend' : pend'[i].id = pend'[j].id => i = j,
         \A f \in Seq(FeedEvent), v \in Shown :
           row'.here /\ InTune(f, v, QueuedIds, said, breaks)
             => InTune(f \o ds, v, QueuedIds', said', breaks')
  PROVE  IInv'
  <1>1. TypeOK'
    BY DEF IInv, TypeOK, Told
  <1>2. Types'
    BY DEF IInv, Types, Told
  <1>3. PromptsDiffer'
    BY DEF PromptsDiffer
  <1>4. StreamCompletes'
    <2> SUFFICES ASSUME NEW t \in Tab, feed'[t] # None, row'.here
                 PROVE  InTune(feed'[t], view'[t], QueuedIds', said', breaks')
      BY DEF StreamCompletes
    <2>1. feed[t] # None /\ feed'[t] = feed[t] \o ds /\ view'[t] = view[t]
      BY DEF Told
    <2>2. feed[t] \in Seq(FeedEvent) /\ view[t] \in Shown
      BY <2>1 DEF IInv, Types, TypeOK
    <2>3. InTune(feed[t], view[t], QueuedIds, said, breaks)
      BY <2>1 DEF IInv, StreamCompletes
    <2> QED BY <2>1, <2>2, <2>3
  <1>5. Mending'
    BY DEF Mending, Mends, Told
  <1> QED BY <1>1, <1>2, <1>3, <1>4, <1>5 DEF IInv

LEMMA BreakStays ==
  ASSUME BreakIsSaid, post' = post, view' = view, row'.here => row.here /\ breaks \subseteq breaks'
  PROVE  BreakIsSaid'
  BY DEF BreakIsSaid

(* A coarse event of the row as it is. *)
LEMMA CoarseType ==
  ASSUME NEW r \in Row, NEW of \in Turn \cup {None},
         NEW type \in {"user", "session", "ask", "answered", "end", "updated",
                       "deleted", "open"}
  PROVE  <<Coarse(type, r, of)>> \in Seq(CoarseEvent)
  BY DEF Coarse, CoarseEvent

(* A step that tells nobody: the row and the messages stay as they are. *)
LEMMA SilentStep ==
  ASSUME IInv, UNCHANGED <<leader, conn, wire, chan, tab, feed, view, fetch, mended>>,
         UNCHANGED <<row, said, breaks, pend>>,
         turn' \in Turn \cup {None}, claims' \in Seq(Claim), ClaimsWait', BreakIsSaid',
         post' \in [Tab -> Post \cup {None}],
         \A t \in Tab : post[t] = None => post'[t] = None
  PROVE  IInv'
  <1>1. TypeOK' /\ Types'
    BY DEF IInv, TypeOK, Types
  <1>2. QueuedIds' = QueuedIds
    BY DEF QueuedIds
  <1>3. PromptsDiffer' /\ StreamCompletes'
    BY <1>2 DEF IInv, PromptsDiffer, StreamCompletes
  <1>4. Mending'
    BY DEF IInv, Mending, Mends, NothingStale, MendsTheRest
  <1> QED BY <1>1, <1>3, <1>4 DEF IInv

(* A publication of the coarse stream only, or of a change that shows nothing. *)
LEMMA QuietStep ==
  ASSUME IInv, NEW es \in Seq(CoarseEvent), Publish(es, <<>>), post' = post, claims' = claims,
         row' \in Row, row'.here => row.here, turn' \in Turn \cup {None},
         row'.here => said' = said /\ breaks' = breaks /\ pend' = pend,
         breaks' \subseteq said', said' \subseteq Msg, pend' \in Seq(Prompt),
         \A i, j \in DOMAIN pend' : pend'[i].id = pend'[j].id => i = j
  PROVE  IInv'
  <1>1. <<>> \in Seq(FeedEvent) /\ \A f \in Seq(FeedEvent) : f \o <<>> = f
    OBVIOUS
  <1>2. Told(<<>>)
    BY <1>1, Published DEF IInv
  <1>3. row'.here => QueuedIds' = QueuedIds
    BY DEF QueuedIds
  <1>4. BreakIsSaid'
    BY <1>2, BreakStays DEF IInv, Told
  <1>5. claims' \in Seq(Claim) /\ ClaimsWait'
    BY ClaimsKept DEF OthersWait
  <1>6. post' \in [Tab -> Post \cup {None}]
    BY Facts
  <1>7. \A f \in Seq(FeedEvent), v \in Shown :
           row'.here /\ InTune(f, v, QueuedIds, said, breaks)
             => InTune(f \o <<>>, v, QueuedIds', said', breaks')
    BY <1>1, <1>3
  <1> QED BY <1>1, <1>2, <1>4, <1>5, <1>6, <1>7, ServerStep

(* A publication of one event that shows no message and no prompt. *)
LEMMA OtherStep ==
  ASSUME IInv, NEW es \in Seq(CoarseEvent), NEW type \in {"ask", "answered", "end"},
         Publish(es, <<Detail(type, None)>>), post' = post,
         claims' \in Seq(Claim), ClaimsWait',
         row' \in Row, row'.here => row.here, turn' \in Turn \cup {None},
         said' = said, breaks' = breaks, pend' = pend
  PROVE  IInv'
  <1> DEFINE d == <<Detail(type, None)>>
  <1>1. d \in Seq(FeedEvent)
    BY EventTypes
  <1>2. Told(d)
    BY <1>1, Published DEF IInv
  <1>3. QueuedIds' = QueuedIds
    BY DEF QueuedIds
  <1>4. BreakIsSaid'
    BY <1>2, BreakStays DEF IInv, Told
  <1>5. /\ post' \in [Tab -> Post \cup {None}]
        /\ breaks \subseteq said /\ said \subseteq Msg /\ breaks \subseteq Msg
        /\ pend \in Seq(Prompt)
        /\ \A i, j \in DOMAIN pend : pend[i].id = pend[j].id => i = j
    BY DEF IInv, Types, TypeOK, PromptsDiffer
  <1>6. ASSUME NEW f \in Seq(FeedEvent), NEW v \in Shown, InTune(f, v, QueuedIds, said, breaks)
        PROVE  InTune(f \o d, v, QueuedIds', said', breaks')
    BY <1>3, <1>5, <1>6, QueuedIsMsg, OtherTunes
  <1> HIDE DEF d
  <1> QED BY <1>1, <1>2, <1>4, <1>5, <1>6, ServerStep

LEMMA SessionOpensStep == IInv /\ SessionOpens => IInv'
  <1> SUFFICES ASSUME IInv, SessionOpens PROVE IInv'
    OBVIOUS
  <1>1. /\ Publish(<<Coarse("session", row, turn)>>, <<>>)
        /\ UNCHANGED <<row, turn, claims, said, breaks, pend, post>>
    BY DEF SessionOpens
  <1>2. /\ row \in Row /\ turn \in Turn \cup {None} /\ breaks \subseteq said /\ said \subseteq Msg
        /\ pend \in Seq(Prompt)
        /\ \A i, j \in DOMAIN pend : pend[i].id = pend[j].id => i = j
    BY DEF IInv, Types, TypeOK, PromptsDiffer
  <1>3. <<Coarse("session", row, turn)>> \in Seq(CoarseEvent)
    BY <1>2, CoarseType
  <1> QED BY <1>1, <1>2, <1>3, QuietStep

LEMMA SettleStep == IInv /\ Settle => IInv'
  <1> SUFFICES ASSUME IInv, Settle PROVE IInv'
    OBVIOUS
  <1>1. /\ row' = [row EXCEPT !.awaiting = FALSE]
        /\ Publish(<<Coarse("updated", row', None)>>, <<>>)
        /\ UNCHANGED <<turn, claims, said, breaks, pend, post>>
    BY DEF Settle
  <1>2. /\ row \in Row /\ turn \in Turn \cup {None} /\ breaks \subseteq said /\ said \subseteq Msg
        /\ pend \in Seq(Prompt)
        /\ \A i, j \in DOMAIN pend : pend[i].id = pend[j].id => i = j
    BY DEF IInv, Types, TypeOK, PromptsDiffer
  <1>3. row' \in Row /\ row'.here = row.here
    BY <1>1, <1>2 DEF Row
  <1>4. <<Coarse("updated", row', None)>> \in Seq(CoarseEvent)
    BY <1>3, CoarseType
  <1> QED BY <1>1, <1>2, <1>3, <1>4, QuietStep

LEMMA DeleteStep == IInv /\ DeleteTask => IInv'
  <1> SUFFICES ASSUME IInv, DeleteTask PROVE IInv'
    OBVIOUS
  <1>1. /\ row' = [here |-> FALSE, running |-> FALSE, awaiting |-> FALSE]
        /\ said' = {} /\ breaks' = {} /\ pend' = <<>>
        /\ Publish(<<Coarse("deleted", row', None)>>, <<>>)
        /\ UNCHANGED <<turn, claims, post>>
    BY DEF DeleteTask
  <1>2. row' \in Row /\ ~row'.here /\ turn' \in Turn \cup {None}
    BY <1>1 DEF Row, IInv, TypeOK
  <1>3. <<Coarse("deleted", row', None)>> \in Seq(CoarseEvent)
    BY <1>2, CoarseType
  <1>4. pend' \in Seq(Prompt) /\ DOMAIN pend' = {}
    BY <1>1
  <1> QED BY <1>1, <1>2, <1>3, <1>4, QuietStep

LEMMA AskStep == IInv /\ (Ask \/ Answered) => IInv'
  <1> SUFFICES ASSUME IInv, Ask \/ Answered PROVE IInv'
    OBVIOUS
  <1>1. PICK type \in {"ask", "answered"} :
          /\ Publish(<<Coarse(type, row', turn)>>, <<Detail(type, None)>>)
          /\ UNCHANGED <<turn, claims, said, breaks, pend, post>>
    BY DEF Ask, Answered
  <1>2. row' \in Row /\ row'.here = row.here /\ turn \in Turn \cup {None}
    BY DEF Ask, Answered, Row, IInv, TypeOK
  <1>3. <<Coarse(type, row', turn)>> \in Seq(CoarseEvent)
    BY <1>2, CoarseType
  <1>4. claims' \in Seq(Claim) /\ ClaimsWait'
    BY <1>1, ClaimsKept DEF OthersWait
  <1> QED BY <1>1, <1>2, <1>3, <1>4, OtherStep

LEMMA SpeakStep == IInv /\ Speak => IInv'
  <1> SUFFICES ASSUME IInv, Speak PROVE IInv'
    OBVIOUS
  <1> DEFINE d == <<Detail("assistant", FreshId)>>
  <1>1. /\ HasId /\ said' = said \cup {FreshId} /\ Publish(<<>>, d)
        /\ UNCHANGED <<row, turn, claims, breaks, pend, post>>
    BY DEF Speak
  <1>2. FreshId \in Msg /\ d \in Seq(FeedEvent) /\ <<>> \in Seq(CoarseEvent)
    BY <1>1, Facts, EventTypes
  <1>3. Told(d)
    BY <1>1, <1>2, Facts, Published
  <1>4. QueuedIds' = QueuedIds
    BY <1>1 DEF QueuedIds
  <1>5. ASSUME NEW f \in Seq(FeedEvent), NEW v \in Shown, InTune(f, v, QueuedIds, said, breaks)
        PROVE  InTune(f \o d, v, QueuedIds', said', breaks')
    BY <1>1, <1>2, <1>4, <1>5, Facts, SaidTunes
  <1>6. BreakIsSaid'
    BY <1>1, <1>3, Facts, BreakStays DEF Told
  <1>7. claims' \in Seq(Claim) /\ ClaimsWait'
    BY <1>1, ClaimsKept DEF OthersWait
  <1> HIDE DEF d
  <1> QED BY <1>1, <1>2, <1>3, <1>5, <1>6, <1>7, Facts, ServerStep

(* The first claim's turn starts. *)
LEMMA LaunchStep ==
  ASSUME IInv, claims # <<>>, LaunchTurn,
         post' \in [Tab -> Post \cup {None}], OthersWait({Head(claims).by}),
         \A t \in Tab : post'[t] # post[t] => post'[t].kind = "send"
  PROVE  IInv'
  <1> DEFINE r == [row EXCEPT !.running = TRUE, !.awaiting = FALSE]
             c == Head(claims)
             s == [doc |-> c.doc, stopped |-> c.stopped, cleared |-> FALSE]
             d == <<Detail("user", FreshId)>>
  <1>1. /\ HasId /\ row' = r /\ turn' = s /\ claims' = Tail(claims)
        /\ said' = said \cup {FreshId} /\ breaks' = breaks /\ pend' = pend
        /\ Publish(<<Coarse("user", r, turn')>>, d)
    BY DEF LaunchTurn
  <1>2. c \in Claim
    BY ClaimFacts
  <1>3. r \in Row /\ r.here = row.here /\ s \in Turn
    BY <1>2, Facts DEF Row, Turn, Claim
  <1>4. FreshId \in Msg /\ d \in Seq(FeedEvent)
    BY <1>1, Facts, EventTypes
  <1> HIDE DEF r, s, c
  <1>5. <<Coarse("user", r, turn')>> \in Seq(CoarseEvent)
    BY <1>1, <1>3, CoarseType
  <1>6. Told(d)
    BY <1>1, <1>4, <1>5, Facts, Published
  <1>7. QueuedIds' = QueuedIds
    BY <1>1 DEF QueuedIds
  <1>8. ASSUME NEW f \in Seq(FeedEvent), NEW v \in Shown, InTune(f, v, QueuedIds, said, breaks)
        PROVE  InTune(f \o d, v, QueuedIds', said', breaks')
    BY <1>1, <1>4, <1>7, <1>8, Facts, SaidTunes
  <1>9. BreakIsSaid'
    <2>1. view' = view
      BY <1>6 DEF Told
    <2> QED BY <1>1, <1>3, <2>1, Facts DEF BreakIsSaid
  <1>10. claims' \in Seq(Claim) /\ ClaimsWait'
    BY <1>1, ClaimDone
  <1> HIDE DEF d
  <1> QED BY <1>1, <1>3, <1>4, <1>6, <1>8, <1>9, <1>10, Facts, ServerStep

(* A POST whose claim has come first is its tab's. *)
LEMMA HeadWaits ==
  ASSUME IInv, NEW t \in Tab, claims # <<>>, Head(claims).by = t
  PROVE  Waits(post[t]) /\ post[t] \in Post
  <1>1. Head(claims) = claims[1] /\ 1 \in 1 .. Len(claims)
    BY ClaimFacts
  <1>2. t # None
    BY ClientAssumption
  <1>3. Waits(post[t])
    BY <1>1, <1>2, ClaimFacts
  <1> QED BY <1>3, Facts DEF Waits

LEMMA SendLaunchesStep == \A t \in Tab : IInv /\ SendLaunches(t) => IInv'
  <1> SUFFICES ASSUME NEW t \in Tab, IInv, SendLaunches(t) PROVE IInv'
    OBVIOUS
  <1>1. claims # <<>> /\ Head(claims).by = t /\ LaunchTurn
    BY DEF SendLaunches
  <1>2. PICK r \in {"ok", "failed"} : post' = [post EXCEPT ![t].reply = r]
    BY DEF SendLaunches
  <1>3. Waits(post[t]) /\ post[t] \in Post
    BY <1>1, HeadWaits
  <1>4. /\ post' \in [Tab -> Post \cup {None}]
        /\ \A u \in Tab : u # t => post'[u] = post[u]
        /\ post'[t].kind = "send"
    BY <1>2, <1>3, Facts DEF Post, Waits
  <1>5. OthersWait({Head(claims).by})
    BY <1>1, <1>4 DEF OthersWait
  <1> QED BY <1>1, <1>4, <1>5, LaunchStep

LEMMA FollowUpLaunchesStep == IInv /\ FollowUpLaunches => IInv'
  <1> SUFFICES ASSUME IInv, FollowUpLaunches PROVE IInv'
    OBVIOUS
  <1>1. claims # <<>> /\ LaunchTurn /\ post' = post
    BY DEF FollowUpLaunches, FollowUp
  <1>2. post' \in [Tab -> Post \cup {None}] /\ OthersWait({Head(claims).by})
    BY <1>1, Facts DEF OthersWait
  <1> QED BY <1>1, <1>2, LaunchStep

(* A request's new state, of tab t, in a step that tells nobody. *)
LEMMA RequestStep ==
  ASSUME IInv, NEW t \in Tab, post[t] # None, ~Waits(post[t]),
         NEW reply \in {"served", "failed"}, post[t].kind = "send" \/ reply # "ok",
         NoPublication, UNCHANGED <<row, said, breaks, pend>>,
         turn' \in Turn \cup {None}, SameClaims,
         post' = [post EXCEPT ![t].reply = reply]
  PROVE  IInv'
  <1>1. UNCHANGED <<leader, conn, wire, chan, tab, feed, view, fetch, mended>>
    BY DEF NoPublication, stream
  <1>2. post[t] \in Post
    BY Facts
  <1>3. /\ post' \in [Tab -> Post \cup {None}]
        /\ \A u \in Tab : u # t => post'[u] = post[u]
        /\ post'[t].reply = reply
        /\ \A u \in Tab : post[u] = None => post'[u] = None
    BY <1>2, Facts DEF Post
  <1>4. BreakIsSaid'
    BY <1>1, <1>3, Facts DEF BreakIsSaid
  <1>5. OthersWait({})
    BY <1>3 DEF OthersWait
  <1>6. claims' \in Seq(Claim) /\ ClaimsWait'
    BY <1>5, ClaimsStay
  <1> QED BY <1>1, <1>3, <1>4, <1>6, SilentStep

LEMMA SendClaimsStep == \A t \in Tab : IInv /\ SendClaims(t) => IInv'
  <1> SUFFICES ASSUME NEW t \in Tab, IInv, SendClaims(t) PROVE IInv'
    OBVIOUS
  <1>1. /\ post[t] # None /\ post[t].kind = "send" /\ post[t].reply = None
        /\ claims' = Append(claims, NewClaim(t, post[t].doc))
        /\ post' = [post EXCEPT ![t].reply = "served"]
        /\ UNCHANGED <<leader, conn, wire, chan, tab, feed, view, fetch, mended>>
        /\ UNCHANGED <<row, turn, said, breaks, pend>>
    BY DEF SendClaims, Sent, NoPublication, stream
  <1>2. post[t] \in Post
    BY <1>1, Facts
  <1>3. /\ post' \in [Tab -> Post \cup {None}]
        /\ \A u \in Tab : u # t => post'[u] = post[u]
        /\ \A u \in Tab : post[u] = None => post'[u] = None
        /\ post'[t] # None /\ post'[t].kind = "send" /\ post'[t].reply = "served"
    <2> DEFINE p == [post[t] EXCEPT !.reply = "served"]
    <2>1. p \in Post /\ p.kind = "send" /\ p.reply = "served"
      BY <1>1, <1>2 DEF Post
    <2>2. post' = [post EXCEPT ![t] = p]
      BY <1>1, Facts
    <2> HIDE DEF p
    <2>3. p # None
      BY <2>1, NoPost
    <2> QED BY <1>1, <2>1, <2>2, <2>3, Facts
  <1>4. Waits(post'[t]) /\ ~Waits(post[t])
    BY <1>1, <1>3, NoPost DEF Waits
  <1>5. OthersWait({})
    BY <1>3, <1>4 DEF OthersWait
  <1>6. post[t].doc \in BOOLEAN
    BY <1>2 DEF Post
  <1>7. claims' \in Seq(Claim) /\ ClaimsWait'
    BY <1>1, <1>4, <1>5, <1>6, ClaimMade
  <1>8. BreakIsSaid'
    BY <1>1, <1>3, Facts DEF BreakIsSaid
  <1> QED BY <1>1, <1>3, <1>7, <1>8, Facts, SilentStep

(* A claim under the lock is refused, or was dropped. *)
LEMMA SendRefusedStep == \A t \in Tab : IInv /\ SendRefused(t) => IInv'
  <1> SUFFICES ASSUME NEW t \in Tab, IInv, SendRefused(t) PROVE IInv'
    OBVIOUS
  <1>1. /\ claims # <<>> /\ Head(claims).by = t /\ claims' = Tail(claims)
        /\ post' = [post EXCEPT ![t].reply = "failed"]
        /\ UNCHANGED <<leader, conn, wire, chan, tab, feed, view, fetch, mended>>
        /\ UNCHANGED <<row, turn, said, breaks, pend>>
    BY DEF SendRefused, NoPublication, stream
  <1>2. Waits(post[t]) /\ post[t] \in Post
    BY <1>1, HeadWaits
  <1>3. /\ post' \in [Tab -> Post \cup {None}]
        /\ \A u \in Tab : u # t => post'[u] = post[u]
        /\ \A u \in Tab : post[u] = None => post'[u] = None
        /\ post'[t].reply = "failed"
    BY <1>1, <1>2, Facts DEF Post, Waits
  <1>4. OthersWait({Head(claims).by})
    BY <1>1, <1>3 DEF OthersWait
  <1>5. claims' \in Seq(Claim) /\ ClaimsWait'
    BY <1>1, <1>4, ClaimDone
  <1>6. BreakIsSaid'
    BY <1>1, <1>3, Facts DEF BreakIsSaid
  <1> QED BY <1>1, <1>3, <1>5, <1>6, Facts, SilentStep

LEMMA FollowUpDroppedStep == IInv /\ FollowUpDropped => IInv'
  <1> SUFFICES ASSUME IInv, FollowUpDropped PROVE IInv'
    OBVIOUS
  <1> DEFINE of == [doc |-> Head(claims).doc, stopped |-> TRUE, cleared |-> FALSE]
  <1>1. /\ claims # <<>> /\ claims' = Tail(claims)
        /\ UNCHANGED <<row, turn, said, breaks, pend, post>>
        /\ \/ Publish(<<Coarse("end", row, of)>>, <<Detail("end", None)>>)
           \/ NoPublication
    BY DEF FollowUpDropped, FollowUp
  <1>2. OthersWait({Head(claims).by})
    BY <1>1 DEF OthersWait
  <1>3. claims' \in Seq(Claim) /\ ClaimsWait'
    BY <1>1, <1>2, ClaimDone
  <1>4. of \in Turn
    <2>1. Head(claims) \in Claim
      BY <1>1, ClaimFacts
    <2> QED BY <2>1 DEF Turn, Claim
  <1> HIDE DEF of
  <1>5. CASE Publish(<<Coarse("end", row, of)>>, <<Detail("end", None)>>)
    <2>1. <<Coarse("end", row, of)>> \in Seq(CoarseEvent)
      BY <1>4, Facts, CoarseType
    <2> QED BY <1>1, <1>3, <1>5, <2>1, Facts, OtherStep
  <1>6. CASE NoPublication
    <2>1. UNCHANGED <<leader, conn, wire, chan, tab, feed, view, fetch, mended>>
      BY <1>6 DEF NoPublication, stream
    <2>2. BreakIsSaid'
      BY <1>1, <2>1, Facts, BreakStays
    <2>3. /\ post' \in [Tab -> Post \cup {None}]
          /\ \A u \in Tab : post[u] = None => post'[u] = None
          /\ turn' \in Turn \cup {None}
      BY <1>1, Facts
    <2> QED BY <1>1, <1>3, <2>1, <2>2, <2>3, SilentStep
  <1> QED BY <1>1, <1>5, <1>6

LEMMA FollowUpFailsStep == IInv /\ FollowUpFails => IInv'
  <1> SUFFICES ASSUME IInv, FollowUpFails PROVE IInv'
    OBVIOUS
  <1> DEFINE of == [doc |-> Head(claims).doc, stopped |-> FALSE, cleared |-> FALSE]
             a == <<Detail("assistant", FreshId)>>
             e == <<Detail("end", None)>>
  <1>1. /\ claims # <<>> /\ claims' = Tail(claims) /\ HasId
        /\ said' = said \cup {FreshId}
        /\ \E opened \in BOOLEAN : row' = [row EXCEPT !.running = FALSE, !.awaiting = opened]
        /\ Publish(<<Coarse("end", row', of)>>, <<Detail("assistant", FreshId), Detail("end", None)>>)
        /\ UNCHANGED <<turn, breaks, pend, post>>
    BY DEF FollowUpFails, FollowUp
  <1>2. claims' \in Seq(Claim) /\ ClaimsWait'
    <2>1. OthersWait({Head(claims).by})
      BY <1>1 DEF OthersWait
    <2> QED BY <1>1, <2>1, ClaimDone
  <1>3. of \in Turn
    <2>1. Head(claims) \in Claim
      BY <1>1, ClaimFacts
    <2> QED BY <2>1 DEF Turn, Claim
  <1>4. row' \in Row /\ row'.here = row.here
    BY <1>1, Facts DEF Row
  <1>5. FreshId \in Msg /\ a \in Seq(FeedEvent) /\ e \in Seq(FeedEvent)
    BY <1>1, Facts, EventTypes
  <1>6. <<Detail("assistant", FreshId), Detail("end", None)>> = a \o e
    OBVIOUS
  <1> HIDE DEF of, a
  <1>7. <<Coarse("end", row', of)>> \in Seq(CoarseEvent)
    BY <1>3, <1>4, CoarseType
  <1>8. a \o e \in Seq(FeedEvent) /\ Told(a \o e)
    <2>1. a \o e \in Seq(FeedEvent)
      BY <1>5
    <2>2. Publish(<<Coarse("end", row', of)>>, a \o e)
      BY <1>1, <1>6
    <2> QED BY <1>7, <2>1, <2>2, Facts, Published
  <1>9. QueuedIds' = QueuedIds
    BY <1>1 DEF QueuedIds
  <1>10. ASSUME NEW f \in Seq(FeedEvent), NEW v \in Shown, InTune(f, v, QueuedIds, said, breaks)
         PROVE  InTune(f \o (a \o e), v, QueuedIds', said', breaks')
    <2>1. f \o a \in Seq(FeedEvent) /\ said \cup {FreshId} \in SUBSET Msg
      BY <1>5, Facts
    <2>2. InTune(f \o a, v, QueuedIds, said \cup {FreshId}, breaks)
      BY <1>5, <1>10, Facts, SaidTunes DEF a
    <2>3. InTune((f \o a) \o e, v, QueuedIds, said \cup {FreshId}, breaks)
      BY <2>1, <2>2, Facts, OtherTunes
    <2>4. (f \o a) \o e = f \o (a \o e)
      BY <1>5, ConcatAssociative
    <2> QED BY <1>1, <1>9, <2>3, <2>4
  <1>11. BreakIsSaid'
    BY <1>1, <1>4, <1>8, Facts, BreakStays DEF Told
  <1> HIDE DEF e
  <1> QED BY <1>1, <1>2, <1>4, <1>5, <1>8, <1>10, <1>11, Facts, ServerStep

(* run's finally block keeps the row a row. *)
LEMMA SettledIs == ASSUME IInv, Settled(row') PROVE row' \in Row /\ row'.here = row.here
  <1>1. \/ row' = row
        \/ \E opened \in BOOLEAN : row' = [row EXCEPT !.running = FALSE, !.awaiting = opened]
    BY DEF Settled
  <1> QED BY <1>1, Facts DEF Row

LEMMA TurnHandsOffStep == IInv /\ TurnHandsOff => IInv'
  <1> SUFFICES ASSUME IInv, TurnHandsOff PROVE IInv'
    OBVIOUS
  <1> DEFINE h == Head(pend)
             gone == <<Detail("dequeued", h.id)>>
  <1>1. /\ pend # <<>> /\ pend' = Tail(pend) /\ post' = post /\ Settled(row') /\ turn' = None
        /\ claims' = Append(claims, NewClaim(None, h.doc))
        /\ Publish(<<>>, gone)
        /\ UNCHANGED <<said, breaks>>
    BY DEF TurnHandsOff
  <1>2. h \in Prompt /\ h = pend[1] /\ h.id \in Msg /\ h.doc \in BOOLEAN
    <2>1. pend \in Seq(Prompt) /\ pend # <<>>
      BY <1>1, Facts
    <2>2. h \in Prompt /\ h = pend[1]
      BY <2>1
    <2> QED BY <2>2 DEF Prompt
  <1>3. gone \in Seq(FeedEvent) /\ Len(gone) = 1 /\ gone[1].type = "dequeued"
        /\ gone[1].id = h.id
    BY <1>2, EventTypes DEF Detail
  <1>4. /\ pend' \in Seq(Prompt) /\ DOMAIN pend = 1 .. Len(pend)
        /\ DOMAIN pend' = 1 .. Len(pend) - 1 /\ Len(pend) \in Nat \ {0}
        /\ \A k \in 1 .. Len(pend) - 1 : pend'[k] = pend[k + 1]
    BY <1>1, Facts
  <1> HIDE DEF gone, h
  <1>5. ASSUME NEW j \in DOMAIN pend', NEW k \in DOMAIN pend', pend'[j].id = pend'[k].id
        PROVE  j = k
    <2>1. /\ j + 1 \in DOMAIN pend /\ k + 1 \in DOMAIN pend
          /\ pend'[j] = pend[j + 1] /\ pend'[k] = pend[k + 1]
      BY <1>4
    <2>2. j + 1 = k + 1
      BY <1>5, <2>1, Facts
    <2> QED BY <1>4, <2>2
  <1>6. QueuedIds' = QueuedIds \ {h.id}
    <2>1. ASSUME NEW k \in DOMAIN pend' PROVE pend'[k].id \in QueuedIds \ {h.id}
      <3>1. k + 1 \in DOMAIN pend /\ 1 \in DOMAIN pend /\ pend'[k] = pend[k + 1] /\ k + 1 # 1
        BY <1>4
      <3> QED BY <1>2, <3>1, Facts DEF QueuedIds
    <2>2. ASSUME NEW k \in DOMAIN pend, pend[k].id # h.id PROVE pend[k].id \in QueuedIds'
      <3>1. k - 1 \in DOMAIN pend' /\ pend'[k - 1] = pend[k]
        BY <1>2, <1>4, <2>2
      <3>2. QueuedIds' = {pend'[j].id : j \in DOMAIN pend'}
        BY DEF QueuedIds
      <3> QED BY <3>1, <3>2
    <2>3. QueuedIds' = {pend'[j].id : j \in DOMAIN pend'} /\ QueuedIds = {pend[j].id : j \in DOMAIN pend}
      BY DEF QueuedIds
    <2> QED BY <2>1, <2>2, <2>3
  <1>7. /\ \A k \in 1 .. Len(gone) : gone[k].type = "dequeued" /\ gone[k].id \in {h.id}
        /\ \A i \in {h.id} : \E k \in 1 .. Len(gone) : gone[k].id = i
        /\ {h.id} \in SUBSET Msg
    BY <1>2, <1>3
  <1>8. Told(gone)
    <2>1. <<>> \in Seq(CoarseEvent)
      OBVIOUS
    <2> QED BY <1>1, <1>3, <2>1, Facts, Published
  <1>9. row' \in Row /\ row'.here = row.here
    BY <1>1, SettledIs
  <1>10. BreakIsSaid'
    BY <1>1, <1>8, <1>9, Facts, BreakStays DEF Told
  <1>11. claims' \in Seq(Claim) /\ ClaimsWait'
    <2>1. OthersWait({})
      BY <1>1 DEF OthersWait
    <2> QED BY <1>1, <1>2, <2>1, ClaimMade
  <1>12. ASSUME NEW f \in Seq(FeedEvent), NEW v \in Shown, InTune(f, v, QueuedIds, said, breaks)
         PROVE  InTune(f \o gone, v, QueuedIds', said', breaks')
    <2>1. InTune(f \o gone, v, QueuedIds \ {h.id}, said, breaks)
      BY <1>3, <1>7, <1>12, Facts, DequeuedTunes
    <2> QED BY <1>1, <1>6, <2>1
  <1>13. turn' \in Turn \cup {None} /\ breaks' \subseteq said' /\ said' \subseteq Msg
         /\ post' \in [Tab -> Post \cup {None}]
    BY <1>1, Facts
  <1> QED BY <1>3, <1>4, <1>5, <1>8, <1>9, <1>10, <1>11, <1>12, <1>13, ServerStep

LEMMA TurnSupersededStep == IInv /\ TurnSuperseded => IInv'
  <1> SUFFICES ASSUME IInv, TurnSuperseded PROVE IInv'
    OBVIOUS
  <1>1. /\ turn' = None /\ UNCHANGED <<row, claims, said, breaks, pend, post>>
        /\ UNCHANGED <<leader, conn, wire, chan, tab, feed, view, fetch, mended>>
    BY DEF TurnSuperseded, NoPublication, stream
  <1>2. claims' \in Seq(Claim) /\ ClaimsWait'
    BY <1>1, ClaimsKept DEF OthersWait
  <1>3. BreakIsSaid'
    BY <1>1, Facts, BreakStays
  <1>4. /\ post' \in [Tab -> Post \cup {None}] /\ turn' \in Turn \cup {None}
        /\ \A u \in Tab : post[u] = None => post'[u] = None
    BY <1>1, Facts
  <1> QED BY <1>1, <1>2, <1>3, <1>4, SilentStep

LEMMA UnqueueStep == IInv /\ Unqueue => IInv'
  <1> SUFFICES ASSUME IInv, Unqueue PROVE IInv'
    OBVIOUS
  <1>1. PICK i \in DOMAIN pend :
          /\ pend' = RemoveAt(pend, i)
          /\ Publish(<<>>, <<Detail("dequeued", pend[i].id)>>)
    BY DEF Unqueue
  <1>2. UNCHANGED <<row, turn, claims, said, breaks, post>>
    BY DEF Unqueue
  <1> DEFINE x == pend[i].id
             d == <<Detail("dequeued", x)>>
  <1>3. x \in Msg /\ i \in 1 .. Len(pend)
    <2>1. pend \in Seq(Prompt)
      BY Facts
    <2>2. pend[i] \in Prompt /\ i \in 1 .. Len(pend)
      BY <2>1
    <2> QED BY <2>2 DEF Prompt
  <1>4. d \in Seq(FeedEvent) /\ Len(d) = 1 /\ d[1].type = "dequeued" /\ d[1].id = x
    BY <1>3, EventTypes DEF Detail
  <1>5. Told(d)
    <2>1. <<>> \in Seq(CoarseEvent)
      OBVIOUS
    <2> QED BY <1>1, <1>4, <2>1, Facts, Published
  <1>6. /\ pend' \in Seq(Prompt)
        /\ \A j, k \in DOMAIN pend' : pend'[j].id = pend'[k].id => j = k
        /\ {pend'[j].id : j \in DOMAIN pend'} = {pend[j].id : j \in DOMAIN pend} \ {x}
    <2>1. pend \in Seq(Prompt) /\ \A j, k \in DOMAIN pend : pend[j].id = pend[k].id => j = k
      BY Facts
    <2>2. /\ RemoveAt(pend, i) \in Seq(Prompt)
          /\ \A j, k \in DOMAIN RemoveAt(pend, i) :
               RemoveAt(pend, i)[j].id = RemoveAt(pend, i)[k].id => j = k
          /\ {RemoveAt(pend, i)[j].id : j \in DOMAIN RemoveAt(pend, i)}
               = {pend[j].id : j \in DOMAIN pend} \ {pend[i].id}
      BY <1>3, <2>1, RemovedIs
    <2> QED BY <1>1, <2>2
  <1>7. QueuedIds' = QueuedIds \ {x}
    BY <1>6 DEF QueuedIds
  <1> HIDE DEF d, x
  <1>8. /\ \A k \in 1 .. Len(d) : d[k].type = "dequeued" /\ d[k].id \in {x}
        /\ \A j \in {x} : \E k \in 1 .. Len(d) : d[k].id = j
    BY <1>4
  <1>9. ASSUME NEW f \in Seq(FeedEvent), NEW v \in Shown, InTune(f, v, QueuedIds, said, breaks)
        PROVE  InTune(f \o d, v, QueuedIds', said', breaks')
    <2>1. {x} \in SUBSET Msg
      BY <1>3
    <2>2. InTune(f \o d, v, QueuedIds \ {x}, said, breaks)
      BY <1>4, <1>8, <1>9, <2>1, Facts, DequeuedTunes
    <2> QED BY <1>2, <1>7, <2>2
  <1>10. BreakIsSaid'
    BY <1>2, <1>5, Facts, BreakStays DEF Told
  <1>11. claims' \in Seq(Claim) /\ ClaimsWait'
    BY <1>2, ClaimsKept DEF OthersWait
  <1> QED BY <1>2, <1>4, <1>5, <1>6, <1>9, <1>10, <1>11, Facts, ServerStep

(* Dropping the queue tells the streams of every prompt. *)
LEMMA DropTunes ==
  ASSUME IInv, pend' = <<>>,
         NEW f \in Seq(FeedEvent), NEW v \in Shown, InTune(f, v, QueuedIds, said, breaks)
  PROVE  /\ f \o Dequeue \in Seq(FeedEvent)
         /\ QueuedIds' = {}
         /\ InTune(f \o Dequeue, v, QueuedIds', said, breaks)
  <1>1. QueuedIds' = {} /\ QueuedIds \ QueuedIds = {}
    BY DEF QueuedIds
  <1>2. /\ Dequeue \in Seq(FeedEvent)
        /\ \A k \in 1 .. Len(Dequeue) : /\ Dequeue[k].type = "dequeued"
                                         /\ Dequeue[k].id \in QueuedIds
        /\ \A i \in QueuedIds : \E k \in 1 .. Len(Dequeue) : Dequeue[k].id = i
    BY Facts, DequeueIs
  <1>3. InTune(f \o Dequeue, v, QueuedIds \ QueuedIds, said, breaks)
    BY <1>2, Facts, DequeuedTunes
  <1>4. QueuedIds \ QueuedIds = QueuedIds'
    BY <1>1
  <1>5. InTune(f \o Dequeue, v, QueuedIds', said, breaks)
    BY <1>3, <1>4
  <1>6. f \o Dequeue \in Seq(FeedEvent)
    BY <1>2
  <1> QED BY <1>1, <1>5, <1>6

LEMMA EmptyQueue ==
  ASSUME pend' = <<>>
  PROVE  /\ pend' \in Seq(Prompt) /\ DOMAIN pend' = {}
         /\ \A i, j \in DOMAIN pend' : pend'[i].id = pend'[j].id => i = j
  OBVIOUS

LEMMA TurnEndsStep == IInv /\ TurnEnds => IInv'
  <1> SUFFICES ASSUME IInv, TurnEnds PROVE IInv'
    OBVIOUS
  <1> DEFINE e == <<Detail("end", None)>>
  <1>1. turn' = None /\ UNCHANGED <<claims, said, breaks, post>>
    BY DEF TurnEnds
  <1>2. row' \in Row /\ row'.here = row.here
    BY SettledIs DEF TurnEnds
  <1>3. \/ pend' = <<>> /\ Publish(<<Coarse("end", row', turn)>>, Dequeue \o e)
        \/ pend' = pend /\ Publish(<<Coarse("end", row', turn)>>, e)
    BY DEF TurnEnds
  <1>4. <<Coarse("end", row', turn)>> \in Seq(CoarseEvent) /\ e \in Seq(FeedEvent)
    BY <1>2, Facts, CoarseType, EventTypes
  <1>5. claims' \in Seq(Claim) /\ ClaimsWait'
    BY <1>1, ClaimsKept DEF OthersWait
  <1>6. CASE pend' = <<>> /\ Publish(<<Coarse("end", row', turn)>>, Dequeue \o e)
    <2> DEFINE d == Dequeue \o e
    <2>1. Dequeue \in Seq(FeedEvent) /\ d \in Seq(FeedEvent)
      BY <1>4, Facts, DequeueIs
    <2>2. Told(d)
      BY <1>4, <1>6, <2>1, Facts, Published
    <2>3. ASSUME NEW f \in Seq(FeedEvent), NEW v \in Shown, InTune(f, v, QueuedIds, said, breaks)
          PROVE  InTune(f \o d, v, QueuedIds', said', breaks')
      <3>1. f \o Dequeue \in Seq(FeedEvent) /\ QueuedIds' = {}
            /\ InTune(f \o Dequeue, v, QueuedIds', said, breaks)
        BY <1>6, <2>3, DropTunes
      <3>2. InTune((f \o Dequeue) \o e, v, {}, said, breaks)
        BY <3>1, Facts, OtherTunes
      <3>3. (f \o Dequeue) \o e = f \o d
        BY <1>4, <2>1, ConcatAssociative
      <3> QED BY <1>1, <3>1, <3>2, <3>3
    <2>4. BreakIsSaid'
      BY <1>1, <1>2, <2>2, Facts, BreakStays DEF Told
    <2> HIDE DEF d, e
    <2> QED BY <1>1, <1>2, <1>6, <1>5, <2>1, <2>2, <2>3, <2>4, Facts, EmptyQueue, ServerStep
  <1>7. CASE pend' = pend /\ Publish(<<Coarse("end", row', turn)>>, e)
    BY <1>1, <1>2, <1>4, <1>7, <1>5, OtherStep
  <1> QED BY <1>3, <1>6, <1>7

LEMMA StopStep == \A t \in Tab : IInv /\ Stop(t) => IInv'
  <1> SUFFICES ASSUME NEW t \in Tab, IInv, Stop(t) PROVE IInv'
    OBVIOUS
  <1>1. /\ tab[t].on /\ HasTurn
        /\ Aborts /\ pend' = <<>>
        /\ feed' = [u \in Tab |-> IF feed[u] = None THEN None ELSE feed[u] \o Dequeue]
        /\ tab' = [tab EXCEPT ![t].doc = FALSE]
        /\ mended' = [u \in Tab |-> FALSE]
        /\ UNCHANGED <<row, said, breaks, leader, conn, wire, chan, view, fetch, post, drops>>
    BY DEF Stop, stream
  <1>2. turn' \in Turn \cup {None} /\ claims' \in Seq(Claim) /\ ClaimsWait'
    <2>1. OthersWait({})
      BY <1>1 DEF OthersWait
    <2> QED BY <1>1, <2>1, AbortsAre, ClaimsStay
  <1>3. /\ tab' \in [Tab -> TabState]
        /\ \A u \in Tab : tab'[u].on = tab[u].on /\ (~tab[u].on => tab'[u] = tab[u])
    BY <1>1 DEF IInv, Types, TabState
  <1>4. Dequeue \in Seq(FeedEvent)
    BY Facts, DequeueIs
  <1>5. ASSUME NEW u \in Tab
        PROVE  /\ feed'[u] \in Seq(FeedEvent) \cup {None}
               /\ feed[u] = None => feed'[u] = None
               /\ feed'[u] # None => feed[u] # None /\ feed'[u] = feed[u] \o Dequeue
    BY <1>1, <1>4 DEF IInv, Types
  <1>6. feed' \in [Tab -> Seq(FeedEvent) \cup {None}]
    BY <1>1, <1>5
  <1>7. TypeOK'
    BY <1>1, <1>2, <1>3, <1>5, TabTypes DEF IInv, TypeOK
  <1>8. Types'
    BY <1>1, <1>3, <1>6, EmptyQueue DEF IInv, Types
  <1>9. PromptsDiffer' /\ BreakIsSaid'
    BY <1>1, EmptyQueue DEF IInv, PromptsDiffer, BreakIsSaid
  <1>10. StreamCompletes'
    <2> SUFFICES ASSUME NEW u \in Tab, feed'[u] # None, row'.here
                 PROVE  InTune(feed'[u], view'[u], QueuedIds', said', breaks')
      BY DEF StreamCompletes
    <2>1. feed[u] \in Seq(FeedEvent) /\ view[u] \in Shown /\ feed'[u] = feed[u] \o Dequeue
      BY <1>5 DEF IInv, Types, TypeOK
    <2>2. InTune(feed[u], view[u], QueuedIds, said, breaks)
      BY <1>1, <1>5 DEF IInv, StreamCompletes
    <2> QED BY <1>1, <2>1, <2>2, DropTunes
  <1>11. Mending'
    BY <1>1 DEF Mending, Mends
  <1> QED BY <1>2, <1>7, <1>8, <1>9, <1>10, <1>11 DEF IInv

LEMMA SendArrivesStep == \A t \in Tab : IInv /\ SendArrives(t) => IInv'
  <1> SUFFICES ASSUME NEW t \in Tab, IInv, SendArrives(t) PROVE IInv'
    OBVIOUS
  <1>1. /\ post[t] # None /\ post[t].kind = "send" /\ post[t].reply = None
        /\ post[t] \in Post
    BY Facts DEF SendArrives, Sent
  <1>2. PICK r \in {"ok", "failed"} :
          /\ r = "ok" => pend' # pend
          /\ post' = [post EXCEPT ![t].reply = r]
    BY DEF SendArrives
  <1>3. /\ post' \in [Tab -> Post \cup {None}]
        /\ \A u \in Tab : u # t => post'[u] = post[u]
        /\ post'[t].kind = "send"
    BY <1>1, <1>2, Facts DEF Post
  <1>4. CASE /\ HasId
             /\ pend' = Append(pend, [id |-> FreshId, doc |-> post[t].doc])
             /\ Publish(<<>>, <<Detail("queued", FreshId)>>)
             /\ UNCHANGED <<row, turn, claims, said, breaks>>
    <2> DEFINE p == [id |-> FreshId, doc |-> post[t].doc]
               d == <<Detail("queued", FreshId)>>
    <2>1. FreshId \in Msg /\ FreshId \notin QueuedIds /\ p \in Prompt /\ p.id = FreshId
      BY <1>1, <1>4, Facts DEF Prompt, Post
    <2>2. d \in Seq(FeedEvent) /\ <<>> \in Seq(CoarseEvent)
      BY <2>1, EventTypes
    <2>3. Told(d)
      BY <1>4, <2>2, Facts, Published
    <2>4. /\ pend' \in Seq(Prompt) /\ DOMAIN pend' = 1 .. Len(pend) + 1
          /\ DOMAIN pend = 1 .. Len(pend) /\ Len(pend) \in Nat
          /\ \A k \in 1 .. Len(pend) : pend'[k] = pend[k]
          /\ pend'[Len(pend) + 1] = p
      <3>1. pend' = Append(pend, p) /\ pend \in Seq(Prompt)
        BY <1>4, Facts
      <3> HIDE DEF p
      <3> QED BY <2>1, <3>1
    <2> HIDE DEF p, d
    <2>5. \A k \in DOMAIN pend : pend[k].id # FreshId
      BY <2>1 DEF QueuedIds
    <2>6. ASSUME NEW j \in DOMAIN pend', NEW k \in DOMAIN pend', pend'[j].id = pend'[k].id
          PROVE  j = k
      <3>1. (j \in DOMAIN pend \/ j = Len(pend) + 1) /\ (k \in DOMAIN pend \/ k = Len(pend) + 1)
        BY <2>4
      <3> QED BY <2>1, <2>4, <2>5, <2>6, <3>1, Facts
    <2>7. QueuedIds' = QueuedIds \cup {FreshId}
      <3>1. QueuedIds' = {pend'[k].id : k \in DOMAIN pend'} /\ QueuedIds = {pend[k].id : k \in DOMAIN pend}
        BY DEF QueuedIds
      <3>2. ASSUME NEW k \in DOMAIN pend' PROVE pend'[k].id \in QueuedIds \cup {FreshId}
        <4>1. k \in DOMAIN pend \/ k = Len(pend) + 1
          BY <2>4
        <4> QED BY <2>1, <2>4, <3>1, <4>1
      <3>3. ASSUME NEW k \in DOMAIN pend PROVE pend[k].id \in QueuedIds'
        <4>1. k \in DOMAIN pend' /\ pend'[k] = pend[k]
          BY <2>4
        <4> QED BY <3>1, <4>1
      <3>4. FreshId \in QueuedIds'
        <4>1. Len(pend) + 1 \in DOMAIN pend'
          BY <2>4
        <4> QED BY <2>1, <2>4, <3>1, <4>1
      <3> QED BY <3>1, <3>2, <3>3, <3>4
    <2>8. ASSUME NEW f \in Seq(FeedEvent), NEW v \in Shown, InTune(f, v, QueuedIds, said, breaks)
          PROVE  InTune(f \o d, v, QueuedIds', said', breaks')
      BY <1>4, <2>1, <2>7, <2>8, Facts, QueuedTunes DEF d
    <2>9. BreakIsSaid'
      BY <1>3, <1>4, <2>3, Facts DEF BreakIsSaid, Told
    <2>10. pend' \in Seq(Prompt) /\ \A j, k \in DOMAIN pend' : pend'[j].id = pend'[k].id => j = k
      BY <2>4, <2>6
    <2>11. claims' \in Seq(Claim) /\ ClaimsWait'
      <3>1. OthersWait({})
        BY <1>1, <1>3, NoPost DEF OthersWait, Waits
      <3> QED BY <1>4, <3>1, ClaimsKept
    <2> QED BY <1>3, <1>4, <2>2, <2>3, <2>8, <2>9, <2>10, <2>11, Facts, ServerStep
  <1>5. CASE NoPublication /\ UNCHANGED server
    <2>1. /\ r = "failed" /\ UNCHANGED <<row, turn, claims, said, breaks, pend>>
      BY <1>2, <1>5 DEF server
    <2>2. SameClaims /\ ~Waits(post[t]) /\ turn' \in Turn \cup {None}
      BY <1>1, <2>1, ClaimFacts, Facts, NoPost DEF SameClaims, Waits
    <2> QED BY <1>1, <1>2, <1>5, <2>1, <2>2, RequestStep
  <1> QED BY <1>4, <1>5 DEF SendArrives

LEMMA ClearArrivesStep == \A t \in Tab : IInv /\ ClearArrives(t) => IInv'
  <1> SUFFICES ASSUME NEW t \in Tab, IInv, ClearArrives(t) PROVE IInv'
    OBVIOUS
  <1>1. /\ post[t] # None /\ post[t].kind = "clear" /\ Aborts /\ NoPublication
        /\ post' = [post EXCEPT ![t].reply = "served"]
        /\ UNCHANGED <<row, said, breaks, pend>>
    BY DEF ClearArrives, Sent
  <1>2. SameClaims /\ turn' \in Turn \cup {None} /\ ~Waits(post[t])
    BY <1>1, AbortsAre DEF Waits
  <1> QED BY <1>1, <1>2, RequestStep

LEMMA ClearRefusedStep == \A t \in Tab : IInv /\ ClearRefused(t) => IInv'
  <1> SUFFICES ASSUME NEW t \in Tab, IInv, ClearRefused(t) PROVE IInv'
    OBVIOUS
  <1>1. /\ post[t] # None /\ post[t].kind = "clear" /\ NoPublication
        /\ post' = [post EXCEPT ![t].reply = "failed"]
        /\ UNCHANGED <<row, turn, claims, said, breaks, pend>>
    BY DEF ClearRefused, server
  <1>2. SameClaims /\ turn' \in Turn \cup {None} /\ ~Waits(post[t])
    BY <1>1, ClaimFacts, Facts DEF SameClaims, Waits
  <1> QED BY <1>1, <1>2, RequestStep

LEMMA ClearEndsStep == \A t \in Tab : IInv /\ ClearEnds(t) => IInv'
  <1> SUFFICES ASSUME NEW t \in Tab, IInv, ClearEnds(t) PROVE IInv'
    OBVIOUS
  <1> DEFINE c(i) == [claims[i] EXCEPT !.cleared = TRUE]
  <1>1. /\ post[t] # None /\ post[t].kind = "clear" /\ row.here /\ HasId
        /\ said' = said \cup {FreshId} /\ breaks' = breaks \cup {FreshId}
        /\ row' = [row EXCEPT !.running = FALSE, !.awaiting = FALSE]
        /\ turn' = (IF turn = None THEN None ELSE [turn EXCEPT !.cleared = TRUE])
        /\ claims' = [i \in DOMAIN claims |-> c(i)]
        /\ pend' = <<>>
        /\ Publish(<<Coarse("updated", row', None)>>, Dequeue)
        /\ \E r \in {"ok", "failed"} :
             post' = [post EXCEPT ![t].reply = r, ![t].break = FreshId]
    BY DEF ClearEnds
  <1>2. FreshId \in Msg /\ post[t] \in Post
    BY <1>1, Facts
  <1>3. row' \in Row /\ row'.here = row.here /\ turn' \in Turn \cup {None}
    BY <1>1, Facts DEF Row, Turn
  <1>4. SameClaims
    <2>1. \A i \in 1 .. Len(claims) : c(i) \in Claim /\ c(i).by = claims[i].by
      BY ClaimFacts DEF Claim
    <2> HIDE DEF c
    <2>2. claims' \in Seq(Claim) /\ Len(claims') = Len(claims)
          /\ \A i \in 1 .. Len(claims) : claims'[i] = c(i)
      BY <1>1, <2>1, ClaimFacts
    <2> QED BY <2>1, <2>2 DEF SameClaims
  <1> HIDE DEF c
  <1>5. Dequeue \in Seq(FeedEvent) /\ <<Coarse("updated", row', None)>> \in Seq(CoarseEvent)
    BY <1>3, Facts, DequeueIs, CoarseType
  <1>6. Told(Dequeue)
    BY <1>1, <1>5, Facts, Published
  <1>7. /\ post' \in [Tab -> Post \cup {None}]
        /\ \A u \in Tab : u # t => post'[u] = post[u]
        /\ post'[t].break = FreshId
    <2>1. PICK r \in {"ok", "failed"} :
            post' = [post EXCEPT ![t].reply = r, ![t].break = FreshId]
      BY <1>1
    <2> DEFINE p == [post[t] EXCEPT !.reply = r, !.break = FreshId]
    <2>2. p \in Post /\ p.break = FreshId
      BY <1>2 DEF Post
    <2>3. post' = [post EXCEPT ![t] = p]
      BY <1>2, <2>1, Facts
    <2> HIDE DEF p
    <2> QED BY <2>2, <2>3, Facts
  <1>8. BreakIsSaid'
    <2>1. view' = view
      BY <1>6 DEF Told
    <2> QED BY <1>1, <1>2, <1>3, <1>7, <2>1, Facts DEF BreakIsSaid
  <1>9. claims' \in Seq(Claim) /\ ClaimsWait'
    <2>1. OthersWait({})
      BY <1>1, <1>7 DEF OthersWait, Waits
    <2> QED BY <1>4, <2>1, ClaimsStay
  <1>10. ASSUME NEW f \in Seq(FeedEvent), NEW v \in Shown, InTune(f, v, QueuedIds, said, breaks)
         PROVE  InTune(f \o Dequeue, v, QueuedIds', said', breaks')
    <2>1. /\ f \o Dequeue \in Seq(FeedEvent) /\ QueuedIds' = {}
          /\ InTune(f \o Dequeue, v, QueuedIds', said, breaks)
      BY <1>1, <1>10, DropTunes
    <2>2. QueuedIds' \in SUBSET Msg
      BY <2>1
    <2>3. InTune(f \o Dequeue, v, QueuedIds', said \cup {FreshId}, breaks \cup {FreshId})
      BY <1>2, <2>1, <2>2, Facts, BreakTunes
    <2> QED BY <1>1, <2>3
  <1>11. breaks' \subseteq said' /\ said' \subseteq Msg
    BY <1>1, <1>2, Facts
  <1>12. pend' \in Seq(Prompt) /\ \A i, j \in DOMAIN pend' : pend'[i].id = pend'[j].id => i = j
    BY <1>1, EmptyQueue
  <1> QED BY <1>3, <1>5, <1>6, <1>7, <1>8, <1>9, <1>10, <1>11, <1>12, ServerStep

(* The server answers a tab that is gone. *)
LEMMA PostForgottenStep == \A t \in Tab : IInv /\ PostForgotten(t) => IInv'
  <1> SUFFICES ASSUME NEW t \in Tab, IInv, PostForgotten(t) PROVE IInv'
    OBVIOUS
  <1>1. /\ post[t].reply \in {"ok", "failed"} /\ post' = [post EXCEPT ![t] = None]
        /\ UNCHANGED <<leader, conn, wire, chan, tab, feed, view, fetch, mended>>
        /\ UNCHANGED <<row, turn, claims, said, breaks, pend>>
    BY DEF PostForgotten, server, stream
  <1>2. /\ post' \in [Tab -> Post \cup {None}] /\ post'[t] = None
        /\ \A u \in Tab : u # t => post'[u] = post[u]
    BY <1>1, Facts
  <1>3. claims' \in Seq(Claim) /\ ClaimsWait'
    <2>1. OthersWait({})
      BY <1>1, <1>2 DEF OthersWait, Waits
    <2> QED BY <1>1, <2>1, ClaimsKept
  <1>4. BreakIsSaid'
    BY <1>1, <1>2, Facts DEF BreakIsSaid
  <1>5. \A u \in Tab : post[u] = None => post'[u] = None
    BY <1>2
  <1> QED BY <1>1, <1>2, <1>3, <1>4, <1>5, Facts, SilentStep

--------------------------------------------------------------------------
(* The tabs' steps. *)

LEMMA ServerStays ==
  ASSUME IInv, UNCHANGED server
  PROVE  /\ UNCHANGED <<row, turn, claims, said, breaks, pend>>
         /\ QueuedIds' = QueuedIds
         /\ PromptsDiffer' /\ claims' \in Seq(Claim)
         /\ row' \in Row /\ turn' \in Turn \cup {None}
         /\ breaks' \subseteq said' /\ said' \subseteq Msg /\ pend' \in Seq(Prompt)
         /\ OthersWait({}) => ClaimsWait'
         /\ post' = post => ClaimsWait' /\ (view' = view => BreakIsSaid')
         /\ feed' = feed /\ view' = view => StreamCompletes'
  <1>1. UNCHANGED <<row, turn, claims, said, breaks, pend>>
    BY DEF server
  <1>2. QueuedIds' = QueuedIds /\ PromptsDiffer'
    BY <1>1 DEF QueuedIds, PromptsDiffer, IInv
  <1>3. post' = post /\ view' = view => BreakIsSaid'
    BY <1>1 DEF IInv, BreakIsSaid
  <1>5. OthersWait({}) => ClaimsWait'
    BY <1>1, ClaimsKept
  <1>6. post' = post => OthersWait({})
    BY DEF OthersWait
  <1>4. feed' = feed /\ view' = view => StreamCompletes'
    BY <1>1, <1>2 DEF IInv, StreamCompletes
  <1> QED BY <1>1, <1>2, <1>3, <1>4, <1>5, <1>6, ClaimFacts, Facts

(* What a tab holds. *)
LEMMA TabFacts ==
  ASSUME IInv, NEW t \in Tab
  PROVE  /\ tab[t] \in TabState /\ fetch[t] \subseteq Request
         /\ feed[t] \in Seq(FeedEvent) \cup {None} /\ view[t] \in Shown
         /\ post[t] \in Post \cup {None} /\ chan[t] \in Seq(CoarseEvent)
         /\ ~tab[t].on => /\ tab[t] = Closed /\ leader # t /\ fetch[t] = {}
                          /\ feed[t] = None
         /\ Mends(t) => NothingStale(t) /\ MendsTheRest(t)
         /\ feed[t] # None /\ row.here => InTune(feed[t], view[t], QueuedIds, said, breaks)
  BY DEF IInv, TypeOK, Types, Mending, StreamCompletes

LEMMA BootStep == \A t \in Tab : IInv /\ Boot(t) => IInv'
  <1> SUFFICES ASSUME NEW t \in Tab, IInv, Boot(t) PROVE IInv'
    OBVIOUS
  <1> DEFINE s == [Closed EXCEPT !.on = TRUE]
  <1>1. /\ ~tab[t].on /\ tab' = [tab EXCEPT ![t] = s]
        /\ fetch' = [fetch EXCEPT ![t] = {Get("tasks")}]
        /\ UNCHANGED server
        /\ UNCHANGED <<leader, conn, wire, chan, feed, view, post, drops, mended, steps>>
    BY DEF Boot, stream
  <1>2. s \in TabState /\ s.on
    BY DEF Closed, TabState
  <1>3. {Get("tasks")} \subseteq Request
    BY DEF Get, Request
  <1> HIDE DEF s
  <1>4. /\ tab' \in [Tab -> TabState] /\ tab'[t].on
        /\ \A u \in Tab : u # t => tab'[u] = tab[u] /\ fetch'[u] = fetch[u]
        /\ fetch' \in [Tab -> SUBSET Request]
    BY <1>1, <1>2, <1>3 DEF IInv, Types
  <1>5. ~Mends(t)
    BY <1>1, TabFacts DEF NothingStale
  <1>6. TypeOK' /\ Types'
    BY <1>1, <1>4, ServerStays, TabTypes DEF IInv, TypeOK, Types
  <1>7. Mending'
    BY <1>1, <1>4, <1>5, ServerStays DEF IInv, Mending, Mends, NothingStale, MendsTheRest
  <1> QED BY <1>1, <1>6, <1>7, ServerStays DEF IInv

LEMMA CloseTabStep == \A t \in Tab : IInv /\ CloseTab(t) => IInv'
  <1> SUFFICES ASSUME NEW t \in Tab, IInv, CloseTab(t) PROVE IInv'
    OBVIOUS
  <1> DEFINE p == Left(post[t])
  <1>1. /\ tab[t].on
        /\ tab' = [tab EXCEPT ![t] = Closed]
        /\ chan' = [chan EXCEPT ![t] = <<>>]
        /\ fetch' = [fetch EXCEPT ![t] = {}]
        /\ feed' = [feed EXCEPT ![t] = None]
        /\ view' = [view EXCEPT ![t] = Empty]
        /\ post' = [post EXCEPT ![t] = p]
        /\ mended' = [mended EXCEPT ![t] = FALSE]
        /\ UNCHANGED server
    BY DEF CloseTab
  <1>2. \/ leader = t /\ leader' = None /\ conn' = "none" /\ wire' = <<>>
        \/ leader # t /\ UNCHANGED <<leader, conn, wire>>
    BY DEF CloseTab
  <1>3. /\ Empty \in Shown /\ p \in Post \cup {None} /\ (Waits(post[t]) => p = post[t])
        /\ (p = post[t] \/ p = None) /\ (p # None => p.reply = "served")
    BY TabFacts DEF Empty, Shown, Left, Waits
  <1> HIDE DEF p
  <1>4. /\ tab' \in [Tab -> TabState] /\ chan' \in [Tab -> Seq(CoarseEvent)]
        /\ fetch' \in [Tab -> SUBSET Request] /\ feed' \in [Tab -> Seq(FeedEvent) \cup {None}]
        /\ view' \in [Tab -> Shown] /\ post' \in [Tab -> Post \cup {None}]
        /\ mended' \in [Tab -> BOOLEAN] /\ wire' \in Seq(CoarseEvent)
    <2>1. tab' \in [Tab -> TabState] /\ mended' \in [Tab -> BOOLEAN]
      BY <1>1, TabTypes DEF IInv, Types
    <2>2. <<>> \in Seq(CoarseEvent)
      OBVIOUS
    <2>3. wire' \in Seq(CoarseEvent)
      BY <1>2, <2>2 DEF IInv, Types
    <2>4. chan' \in [Tab -> Seq(CoarseEvent)]
      BY <1>1, <2>2 DEF IInv, Types
    <2>5. fetch' \in [Tab -> SUBSET Request] /\ post' \in [Tab -> Post \cup {None}]
      BY <1>1, <1>3 DEF IInv, Types
    <2>6. feed' \in [Tab -> Seq(FeedEvent) \cup {None}] /\ view' \in [Tab -> Shown]
      BY <1>1, <1>3 DEF IInv, Types, TypeOK
    <2> QED BY <2>1, <2>3, <2>4, <2>5, <2>6
  <1>5. /\ tab'[t] = Closed /\ fetch'[t] = {} /\ feed'[t] = None /\ post'[t] = p
        /\ view'[t] = Empty /\ ~mended'[t]
        /\ \A u \in Tab : u # t => /\ tab'[u] = tab[u] /\ fetch'[u] = fetch[u]
                                   /\ feed'[u] = feed[u] /\ view'[u] = view[u]
                                   /\ chan'[u] = chan[u] /\ post'[u] = post[u]
                                   /\ mended'[u] = mended[u]
    BY <1>1 DEF IInv, Types, TypeOK
  <1>6. TypeOK'
    <2>1. leader' \in Tab \cup {None} /\ conn' \in {"none", "connecting", "open"}
          /\ (leader' = None) = (conn' = "none") /\ leader' # t
      BY <1>2, ClientAssumption DEF IInv, TypeOK
    <2>2. \A u \in Tab : leader # u => leader' # u
      BY <1>2, ClientAssumption
    <2> QED BY <1>1, <1>4, <1>5, <2>1, <2>2, ServerStays, TabTypes DEF IInv, TypeOK
  <1>7. Types'
    BY <1>1, <1>4, <1>5, ServerStays DEF IInv, Types
  <1>8. BreakIsSaid' /\ ClaimsWait'
    <2>1. OthersWait({})
      BY <1>3, <1>5 DEF OthersWait
    <2>2. BreakIsSaid'
      BY <1>1, <1>3, <1>5, ServerStays DEF IInv, BreakIsSaid, Empty
    <2> QED BY <1>1, <2>1, <2>2, ServerStays
  <1>9. StreamCompletes'
    BY <1>1, <1>5, ServerStays DEF IInv, StreamCompletes
  <1>10. Mending'
    <2>1. DOMAIN wire' = {} \/ wire' = wire
      BY <1>2
    <2> QED BY <1>1, <1>5, <2>1, ServerStays DEF IInv, Mending, Mends, NothingStale, MendsTheRest
  <1> QED BY <1>1, <1>6, <1>7, <1>8, <1>9, <1>10, ServerStays DEF IInv

LEMMA GrantLockStep == \A t \in Tab : IInv /\ GrantLock(t) => IInv'
  <1> SUFFICES ASSUME NEW t \in Tab, IInv, GrantLock(t) PROVE IInv'
    OBVIOUS
  <1>1. /\ tab[t].on /\ leader' = t /\ conn' = "connecting"
        /\ UNCHANGED server
        /\ UNCHANGED <<wire, chan, tab, feed, view, fetch, post, drops, mended, steps>>
    BY DEF GrantLock
  <1>2. TypeOK' /\ Types'
    BY <1>1, ServerStays, ClientAssumption DEF IInv, TypeOK, Types
  <1>3. Mending'
    BY <1>1, ServerStays DEF IInv, Mending, Mends, NothingStale, MendsTheRest
  <1> QED BY <1>1, <1>2, <1>3, ServerStays DEF IInv

LEMMA StreamStep == IInv /\ (StreamOpens \/ StreamDrops) => IInv'
  <1> SUFFICES ASSUME IInv, StreamOpens \/ StreamDrops PROVE IInv'
    OBVIOUS
  <1>1. /\ conn \in {"connecting", "open"} /\ conn' \in {"connecting", "open"}
        /\ wire' = <<Coarse("open", row, None)>> \/ wire' = <<>>
        /\ UNCHANGED server
        /\ UNCHANGED <<leader, chan, tab, feed, view, fetch, post, mended>>
    BY DEF StreamOpens, StreamDrops
  <1>2. <<Coarse("open", row, None)>> \in Seq(CoarseEvent)
    BY Facts, CoarseType
  <1>3. /\ wire' \in Seq(CoarseEvent)
        /\ \A i \in DOMAIN wire' : wire'[i].type = "open"
    <2>1. DOMAIN <<Coarse("open", row, None)>> = {1} /\ Coarse("open", row, None).type = "open"
      BY DEF Coarse
    <2>2. CASE wire' = <<Coarse("open", row, None)>>
      <3>1. \A i \in DOMAIN wire' : i = 1
        BY <2>1, <2>2
      <3>2. wire'[1].type = "open"
        BY <2>1, <2>2
      <3> QED BY <1>2, <2>2, <3>1, <3>2
    <2>3. CASE wire' = <<>>
      BY <2>3
    <2> QED BY <1>1, <2>2, <2>3
  <1>4. TypeOK' /\ Types'
    BY <1>1, <1>3, ServerStays DEF IInv, TypeOK, Types
  <1>5. Mending'
    BY <1>1, <1>3, ServerStays DEF IInv, Mending, Mends, NothingStale, MendsTheRest
  <1> QED BY <1>1, <1>4, <1>5, ServerStays DEF IInv

LEMMA AppliedIs ==
  ASSUME NEW s \in TabState, NEW e \in CoarseEvent
  PROVE  /\ Applied(s, e) \in TabState /\ Applied(s, e).on = s.on
         /\ e.type = "open" => Applied(s, e) = [s EXCEPT !.opened = TRUE]
  <1>1. CASE e.type = "open"
    <2>1. Applied(s, e) = [s EXCEPT !.opened = TRUE]
      BY <1>1 DEF Applied
    <2> QED BY <2>1 DEF TabState
  <1>2. CASE e.type = "deleted"
    <2>1. Applied(s, e) = [s EXCEPT !.running = FALSE, !.dot = FALSE, !.has = FALSE]
      BY <1>2 DEF Applied
    <2> QED BY <1>2, <2>1 DEF TabState
  <1>3. CASE e.type \notin {"open", "deleted"}
    <2>1. Applied(s, e) = [s EXCEPT !.running = e.row.running, !.dot = e.row.running,
                             !.awaiting = IF s.has THEN e.row.awaiting ELSE s.awaiting]
      BY <1>3 DEF Applied
    <2>2. e.row \in Row
      BY DEF CoarseEvent
    <2> QED BY <1>3, <2>1, <2>2 DEF TabState, Row
  <1> QED BY <1>1, <1>2, <1>3

(* What handling a coarse event does to the tab, and what it asks of the server.  *)
LEMMA Handled ==
  ASSUME IInv, NEW t \in Tab, tab[t].on, NEW e \in CoarseEvent, NEW far \in BOOLEAN,
         Handles(t, e, far)
  PROVE  /\ tab' \in [Tab -> TabState] /\ tab'[t].on
         /\ post' \in [Tab -> Post \cup {None}] /\ fetch' \in [Tab -> SUBSET Request]
         /\ mended' \in [Tab -> BOOLEAN]
         /\ \A u \in Tab : u # t => /\ tab'[u] = tab[u] /\ post'[u] = post[u]
                                    /\ fetch'[u] = fetch[u] /\ mended'[u] = mended[u]
         /\ post'[t] # post[t] =>
              post[t] = None /\ post'[t].kind = "clear" /\ post'[t].reply = None
  <1> DEFINE s == [tab[t] EXCEPT !.remote = @ \/ far]
             done == ClearsAt(s, e)
             p == ClearPost(e.of)
  <1>1. s \in TabState /\ s.on
    BY TabFacts DEF TabState
  <1>2. /\ done => post[t] = None
        /\ tab' = [tab EXCEPT ![t] = [Applied(s, e) EXCEPT !.doc = @ /\ ~done]]
        /\ post' = IF done THEN [post EXCEPT ![t] = p] ELSE post
        /\ fetch' = IF e.type = "open" THEN [fetch EXCEPT ![t] = @ \cup CatchUp(s)] ELSE fetch
        /\ \/ mended' = mended
           \/ \E b \in BOOLEAN : mended' = [mended EXCEPT ![t] = b]
    BY DEF Handles
  <1>3. done \in BOOLEAN
    BY <1>1 DEF ClearsAt, TabState
  <1>4. CatchUp(s) \subseteq Request
    BY DEF CatchUp, Get, Request
  <1>5. p \in Post /\ p.kind = "clear" /\ p.reply = None
    BY DEF ClearPost, Post, CoarseEvent
  <1>6. Applied(s, e) \in TabState /\ Applied(s, e).on
    BY <1>1, AppliedIs
  <1> HIDE DEF s, done, p
  <1>7. tab' \in [Tab -> TabState] /\ tab'[t].on
    <2>1. [Applied(s, e) EXCEPT !.doc = @ /\ ~done] \in TabState
          /\ [Applied(s, e) EXCEPT !.doc = @ /\ ~done].on
      BY <1>3, <1>6 DEF TabState
    <2> QED BY <1>2, <2>1 DEF IInv, Types
  <1>8. post' \in [Tab -> Post \cup {None}]
    BY <1>2, <1>5 DEF IInv, Types
  <1>9. fetch' \in [Tab -> SUBSET Request]
    BY <1>2, <1>4 DEF IInv, Types
  <1>10. mended' \in [Tab -> BOOLEAN]
    BY <1>2 DEF IInv, Types
  <1>11. \A u \in Tab : u # t => /\ tab'[u] = tab[u] /\ post'[u] = post[u]
                                 /\ fetch'[u] = fetch[u] /\ mended'[u] = mended[u]
    BY <1>2 DEF IInv, Types
  <1>12. post'[t] # post[t] =>
           post[t] = None /\ post'[t].kind = "clear" /\ post'[t].reply = None
    BY <1>2, <1>5 DEF IInv, Types
  <1> QED BY <1>7, <1>8, <1>9, <1>10, <1>11, <1>12 DEF IInv

LEMMA TailIs ==
  ASSUME NEW s \in Seq(CoarseEvent), s # <<>>
  PROVE  /\ Head(s) \in CoarseEvent /\ Tail(s) \in Seq(CoarseEvent) /\ 1 \in DOMAIN s
         /\ Head(s) = s[1]
         /\ \A i \in DOMAIN Tail(s) : i + 1 \in DOMAIN s /\ Tail(s)[i] = s[i + 1]
         /\ ~(Len(s) > 1) => Tail(s) = <<>>
  OBVIOUS

(* Handling an event leaves nothing stale, to a tab that it mends and to the others. *)
LEMMA HearStep ==
  ASSUME IInv, NEW t \in Tab, tab[t].on, NEW e \in CoarseEvent, NEW far \in BOOLEAN,
         Handles(t, e, far),
         UNCHANGED server, UNCHANGED <<leader, conn, feed, view>>,
         wire' \in Seq(CoarseEvent), chan' \in [Tab -> Seq(CoarseEvent)],
         \A u \in Tab : ~tab[u].on => chan'[u] = chan[u],
         \A u \in Tab : NothingStale(u) =>
           /\ u = t => e.type = "open"
           /\ \A i \in DOMAIN wire' : wire'[i].type = "open"
           /\ \A i \in DOMAIN chan'[u] : chan'[u][i].type = "open",
         far => (wire = <<>> /\ ~(Len(chan[t]) > 1) => wire' = <<>> /\ chan'[t] = <<>>),
         ~far => (~(Len(wire) > 1) /\ chan[t] = <<>> => wire' = <<>> /\ chan'[t] = <<>>)
  PROVE  IInv'
  <1>1. /\ tab' \in [Tab -> TabState] /\ tab'[t].on
        /\ post' \in [Tab -> Post \cup {None}] /\ fetch' \in [Tab -> SUBSET Request]
        /\ mended' \in [Tab -> BOOLEAN]
        /\ \A u \in Tab : u # t => /\ tab'[u] = tab[u] /\ post'[u] = post[u]
                                   /\ fetch'[u] = fetch[u] /\ mended'[u] = mended[u]
        /\ post'[t] # post[t] =>
             post[t] = None /\ post'[t].kind = "clear" /\ post'[t].reply = None
    BY Handled
  <1>2. TypeOK'
    BY <1>1, ServerStays, TabTypes DEF IInv, TypeOK
  <1>3. Types'
    BY <1>1, ServerStays DEF IInv, Types
  <1>4. BreakIsSaid' /\ ClaimsWait'
    <2>1. OthersWait({})
      BY <1>1 DEF OthersWait, Waits
    <2>2. ASSUME NEW u \in Tab, post'[u] # None, post'[u].kind = "clear", post'[u].reply = "ok"
          PROVE  post'[u].break \in Msg /\ (row'.here => post'[u].break \in breaks')
      <3>1. post'[u] = post[u]
        BY <1>1, <2>2, NoPost
      <3> QED BY <2>2, <3>1, ServerStays DEF IInv, BreakIsSaid
    <2>3. \A u \in Tab : row'.here => view'[u].local \subseteq breaks' \cup {None}
      BY ServerStays DEF IInv, BreakIsSaid
    <2> QED BY <2>1, <2>2, <2>3, ServerStays DEF BreakIsSaid
  <1>5. ASSUME NEW u \in Tab, u # t, Mends(u)'
        PROVE  NothingStale(u)' /\ MendsTheRest(u)'
    <2>1. Mends(u)
      BY <1>1, <1>5 DEF Mends
    <2>2. NothingStale(u) /\ MendsTheRest(u)
      BY <2>1, TabFacts
    <2>5. /\ tab'[u] = tab[u] /\ post'[u] = post[u] /\ fetch'[u] = fetch[u]
          /\ row' = row /\ feed' = feed
      BY <1>1, <1>5, ServerStays
    <2>6. /\ \A i \in DOMAIN wire' : wire'[i].type = "open"
          /\ \A i \in DOMAIN chan'[u] : chan'[u][i].type = "open"
      BY <2>2
    <2>3. NothingStale(u)'
      BY <2>2, <2>5, <2>6 DEF NothingStale
    <2>4. MendsTheRest(u)'
      BY <2>2, <2>5 DEF MendsTheRest
    <2> QED BY <2>3, <2>4
  <1>6. ASSUME Mends(t)'
        PROVE  NothingStale(t)' /\ MendsTheRest(t)'
    <2> DEFINE s == [tab[t] EXCEPT !.remote = @ \/ far]
               m == ~SkipsOpen(s) /\ ~Newer(t, far) /\ (Older(t, far) => "answers" \in Late)
    <2>1. e.type = "open"
      <3>1. SUFFICES ASSUME e.type # "open" PROVE FALSE
        OBVIOUS
      <3>2. mended' = mended
        BY <3>1 DEF Handles
      <3>3. NothingStale(t)
        BY <1>6, <3>2, TabFacts DEF Mends
      <3> QED BY <3>1, <3>3
    <2>2. /\ mended' = [mended EXCEPT ![t] = m]
          /\ fetch' = [fetch EXCEPT ![t] = @ \cup CatchUp(s)]
          /\ post' = post
      BY <2>1 DEF Handles, ClearsAt
    <2>3. ~SkipsOpen(s) /\ ~Older(t, far) /\ ~Newer(t, far)
      <3>1. m /\ Late = {}
        <4> HIDE DEF m
        <4> QED BY <1>6, <2>2 DEF IInv, Types, Mends
      <3> QED BY <3>1
    <2>4. fetch'[t] = {Get("tasks"), Get("running")}
      <3>1. fetch[t] = {} /\ CatchUp(s) = {Get("tasks"), Get("running")}
        BY <2>3 DEF CatchUp, Older
      <3> HIDE DEF s
      <3> QED BY <2>2, <3>1 DEF IInv, Types
    <2>5. post'[t] = None /\ feed[t] \in {None, <<>>} /\ wire' = <<>> /\ chan'[t] = <<>>
      BY <2>2, <2>3 DEF Older, Newer
    <2>6. NothingStale(t)'
      BY <1>1, <2>4, <2>5 DEF NothingStale, Get
    <2>7. MendsTheRest(t)'
      BY <2>4 DEF MendsTheRest, Get
    <2> QED BY <2>6, <2>7
  <1>7. Mending'
    BY <1>5, <1>6 DEF Mending
  <1> QED BY <1>2, <1>3, <1>4, <1>7, ServerStays DEF IInv

LEMMA LeaderHearsStep == IInv /\ LeaderHears => IInv'
  <1> SUFFICES ASSUME IInv, LeaderHears PROVE IInv'
    OBVIOUS
  <1>1. /\ conn = "open" /\ wire # <<>>
        /\ Handles(leader, Head(wire), FALSE)
        /\ wire' = Tail(wire)
        /\ chan' = [t \in Tab |-> IF tab[t].on /\ t # leader
                                  THEN Append(chan[t], Head(wire)) ELSE chan[t]]
        /\ UNCHANGED server
        /\ UNCHANGED <<leader, conn, feed, view, drops, steps>>
    BY DEF LeaderHears
  <1>2. leader \in Tab /\ tab[leader].on
    BY <1>1 DEF IInv, TypeOK
  <1>3. wire \in Seq(CoarseEvent) /\ chan \in [Tab -> Seq(CoarseEvent)]
    BY DEF IInv, Types
  <1>4. /\ Head(wire) \in CoarseEvent /\ wire' \in Seq(CoarseEvent) /\ Head(wire) = wire[1]
        /\ 1 \in DOMAIN wire
        /\ \A i \in DOMAIN wire' : i + 1 \in DOMAIN wire /\ wire'[i] = wire[i + 1]
        /\ ~(Len(wire) > 1) => wire' = <<>>
    BY <1>1, <1>3, TailIs
  <1>5. chan' \in [Tab -> Seq(CoarseEvent)]
    BY <1>1, <1>3, <1>4
  <1>6. \A u \in Tab : (u = leader \/ ~tab[u].on) => chan'[u] = chan[u]
    BY <1>1
  <1>7. ASSUME NEW u \in Tab, NothingStale(u)
        PROVE  /\ Head(wire).type = "open"
               /\ \A i \in DOMAIN wire' : wire'[i].type = "open"
               /\ \A i \in DOMAIN chan'[u] : chan'[u][i].type = "open"
    <2>1. /\ \A i \in DOMAIN wire : wire[i].type = "open"
          /\ \A i \in DOMAIN chan[u] : chan[u][i].type = "open"
      BY <1>7 DEF NothingStale
    <2>2. Head(wire).type = "open" /\ \A i \in DOMAIN wire' : wire'[i].type = "open"
      BY <1>4, <2>1
    <2>3. chan'[u] = chan[u] \/ chan'[u] = Append(chan[u], Head(wire))
      BY <1>1
    <2> DEFINE c == chan[u]
               h == Head(wire)
    <2>4. c \in Seq(CoarseEvent) /\ h \in CoarseEvent
      BY <1>3, <1>4
    <2> HIDE DEF c, h
    <2>5. \A i \in DOMAIN Append(c, h) : \/ i \in DOMAIN c /\ Append(c, h)[i] = c[i]
                                         \/ Append(c, h)[i] = h
      BY <2>4
    <2>6. ASSUME NEW i \in DOMAIN chan'[u] PROVE chan'[u][i].type = "open"
      <3>1. CASE chan'[u] = chan[u]
        BY <2>1, <2>6, <3>1
      <3>2. CASE chan'[u] = Append(chan[u], Head(wire))
        BY <2>1, <2>2, <2>5, <2>6, <3>2 DEF c, h
      <3> QED BY <2>3, <3>1, <3>2
    <2> QED BY <2>2, <2>6
  <1>8. ~(Len(wire) > 1) /\ chan[leader] = <<>> => wire' = <<>> /\ chan'[leader] = <<>>
    BY <1>2, <1>4, <1>6
  <1>9. UNCHANGED <<leader, conn, feed, view>> /\ UNCHANGED server
    BY <1>1
  <1>10. Handles(leader, Head(wire), FALSE)
    BY <1>1
  <1>11. \A u \in Tab : ~tab[u].on => chan'[u] = chan[u]
    BY <1>6
  <1>12. Head(wire) \in CoarseEvent /\ wire' \in Seq(CoarseEvent)
    BY <1>4
  <1>13. \A u \in Tab : NothingStale(u) =>
           /\ u = leader => Head(wire).type = "open"
           /\ \A i \in DOMAIN wire' : wire'[i].type = "open"
           /\ \A i \in DOMAIN chan'[u] : chan'[u][i].type = "open"
    BY <1>7
  <1> QED BY <1>2, <1>5, <1>8, <1>9, <1>10, <1>11, <1>12, <1>13, HearStep

LEMMA FollowerHearsStep == \A t \in Tab : IInv /\ FollowerHears(t) => IInv'
  <1> SUFFICES ASSUME NEW t \in Tab, IInv, FollowerHears(t) PROVE IInv'
    OBVIOUS
  <1>1. /\ tab[t].on /\ chan[t] # <<>>
        /\ Handles(t, Head(chan[t]), TRUE)
        /\ chan' = [chan EXCEPT ![t] = Tail(@)]
        /\ UNCHANGED server
        /\ UNCHANGED <<leader, conn, wire, feed, view, drops, steps>>
    BY DEF FollowerHears
  <1>2. wire \in Seq(CoarseEvent) /\ chan \in [Tab -> Seq(CoarseEvent)]
    BY DEF IInv, Types
  <1>3. /\ Head(chan[t]) \in CoarseEvent /\ Tail(chan[t]) \in Seq(CoarseEvent)
        /\ Head(chan[t]) = chan[t][1] /\ 1 \in DOMAIN chan[t]
        /\ \A i \in DOMAIN Tail(chan[t]) :
             i + 1 \in DOMAIN chan[t] /\ Tail(chan[t])[i] = chan[t][i + 1]
        /\ ~(Len(chan[t]) > 1) => Tail(chan[t]) = <<>>
    BY <1>1, <1>2, TailIs
  <1>4. /\ chan' \in [Tab -> Seq(CoarseEvent)] /\ chan'[t] = Tail(chan[t])
        /\ \A u \in Tab : u # t => chan'[u] = chan[u]
    BY <1>1, <1>2, <1>3
  <1>5. ASSUME NEW u \in Tab, NothingStale(u)
        PROVE  /\ u = t => Head(chan[t]).type = "open"
               /\ \A i \in DOMAIN wire' : wire'[i].type = "open"
               /\ \A i \in DOMAIN chan'[u] : chan'[u][i].type = "open"
    <2>1. /\ \A i \in DOMAIN wire : wire[i].type = "open"
          /\ \A i \in DOMAIN chan[u] : chan[u][i].type = "open"
      BY <1>5 DEF NothingStale
    <2> QED BY <1>1, <1>3, <1>4, <2>1
  <1> QED BY <1>1, <1>2, <1>3, <1>4, <1>5, HearStep

LEMMA FeedOpensStep == \A t \in Tab : IInv /\ FeedOpens(t) => IInv'
  <1> SUFFICES ASSUME NEW t \in Tab, IInv, FeedOpens(t) PROVE IInv'
    OBVIOUS
  <1>1. /\ tab[t].on /\ feed[t] = None
        /\ feed' = [feed EXCEPT ![t] = <<Snapshot>>]
        /\ UNCHANGED server
        /\ mended' = [mended EXCEPT ![t] = @ /\ (HasTurn = row.running \/ "claims" \in Late)]
        /\ UNCHANGED <<leader, conn, wire, chan, tab, view, fetch, post, drops, steps>>
    BY DEF FeedOpens, stream
  <1>2. /\ Snapshot \in FeedEvent /\ Snapshot.type = "snapshot"
        /\ Snapshot.queued = QueuedIds /\ Snapshot.said = said /\ Snapshot.running = HasTurn
    <2>1. HasTurn \in BOOLEAN
      BY DEF HasTurn, Live, Claimed
    <2> QED BY <2>1, Facts DEF Snapshot, FeedEvent
  <1>3. /\ feed' \in [Tab -> Seq(FeedEvent) \cup {None}]
        /\ feed'[t] = <<Snapshot>>
        /\ \A u \in Tab : u # t => feed'[u] = feed[u]
    BY <1>1, <1>2 DEF IInv, Types
  <1> DEFINE m == mended[t] /\ (HasTurn = row.running \/ "claims" \in Late)
  <1>7. /\ mended' \in [Tab -> BOOLEAN] /\ mended'[t] = m
        /\ \A u \in Tab : u # t => mended'[u] = mended[u]
    <2>1. m \in BOOLEAN /\ mended' = [mended EXCEPT ![t] = m]
      BY <1>1 DEF IInv, Types
    <2> HIDE DEF m
    <2> QED BY <2>1 DEF IInv, Types
  <1>4. TypeOK' /\ Types'
    BY <1>1, <1>3, <1>7, ServerStays DEF IInv, TypeOK, Types
  <1>5. StreamCompletes'
    <2> SUFFICES ASSUME NEW u \in Tab, feed'[u] # None, row'.here
                 PROVE  InTune(feed'[u], view'[u], QueuedIds', said', breaks')
      BY DEF StreamCompletes
    <2>1. CASE u = t
      <3>1. InTune(<<Snapshot>>, view[t], QueuedIds, said, breaks)
        BY <1>2, Facts, TabFacts, SnapshotTunes
      <3> QED BY <1>1, <1>3, <2>1, <3>1, ServerStays
    <2>2. CASE u # t
      BY <1>1, <1>3, <2>2, ServerStays DEF IInv, StreamCompletes
    <2> QED BY <2>1, <2>2
  <1>6. ASSUME NEW u \in Tab, Mends(u)' PROVE NothingStale(u)' /\ MendsTheRest(u)'
    <2>5. Mends(u) /\ (u = t => HasTurn = row.running)
      BY <1>6, <1>7 DEF Mends
    <2>1. NothingStale(u) /\ MendsTheRest(u)
      BY <2>5, TabFacts
    <2>2. MendsTheRest(u)'
      BY <1>1, <2>1, ServerStays DEF MendsTheRest
    <2>3. feed'[u] # None =>
            \A i \in DOMAIN feed'[u] :
              feed'[u][i].type = "snapshot" /\ feed'[u][i].running = row.running
      <3>1. CASE u = t
        <4>1. DOMAIN <<Snapshot>> = {1} /\ <<Snapshot>>[1] = Snapshot
          OBVIOUS
        <4> QED BY <1>2, <1>3, <2>5, <3>1, <4>1
      <3>2. CASE u # t
        BY <1>3, <2>1, <3>2 DEF NothingStale
      <3> QED BY <3>1, <3>2
    <2>4. NothingStale(u)'
      BY <1>1, <2>1, <2>3, ServerStays DEF NothingStale
    <2> QED BY <2>2, <2>4
  <1> QED BY <1>1, <1>4, <1>5, <1>6, ServerStays DEF IInv, Mending, Mends

LEMMA FeedDropsStep == \A t \in Tab : IInv /\ FeedDrops(t) => IInv'
  <1> SUFFICES ASSUME NEW t \in Tab, IInv, FeedDrops(t) PROVE IInv'
    OBVIOUS
  <1>1. /\ feed' = [feed EXCEPT ![t] = None]
        /\ UNCHANGED server
        /\ UNCHANGED <<leader, conn, wire, chan, tab, view, fetch, post, mended, steps>>
    BY DEF FeedDrops, stream
  <1>2. /\ feed' \in [Tab -> Seq(FeedEvent) \cup {None}] /\ feed'[t] = None
        /\ \A u \in Tab : u # t => feed'[u] = feed[u]
    BY <1>1 DEF IInv, Types
  <1>3. TypeOK' /\ Types'
    BY <1>1, <1>2, ServerStays DEF IInv, TypeOK, Types
  <1>4. StreamCompletes'
    BY <1>1, <1>2, ServerStays DEF IInv, StreamCompletes
  <1>5. Mending'
    BY <1>1, <1>2, ServerStays DEF IInv, Mending, Mends, NothingStale, MendsTheRest
  <1> QED BY <1>1, <1>3, <1>4, <1>5, ServerStays DEF IInv

(* The first event of a transcript stream, and the rest. *)
LEMMA FeedTailIs ==
  ASSUME NEW s \in Seq(FeedEvent), s # <<>>
  PROVE  /\ Head(s) \in FeedEvent /\ Tail(s) \in Seq(FeedEvent) /\ 1 \in DOMAIN s
         /\ Head(s) = s[1]
         /\ \A i \in DOMAIN Tail(s) : i + 1 \in DOMAIN s /\ Tail(s)[i] = s[i + 1]
  OBVIOUS

LEMMA FeedHearsStep == \A t \in Tab : IInv /\ FeedHears(t) => IInv'
  <1> SUFFICES ASSUME NEW t \in Tab, IInv, FeedHears(t) PROVE IInv'
    OBVIOUS
  <1> DEFINE e == Head(feed[t])
             w == ShownAfter(view[t], e)
  <1>1. /\ feed[t] \notin {None, <<>>}
        /\ view' = [view EXCEPT ![t] = w]
        /\ feed' = [feed EXCEPT ![t] = Tail(@)]
        /\ fetch' = IF e.type = "end" THEN [fetch EXCEPT ![t] = @ \cup {Get("task")}]
                                      ELSE fetch
        /\ UNCHANGED server
        /\ UNCHANGED <<leader, conn, wire, chan, post, drops, mended, steps>>
    BY DEF FeedHears, stream
  <1>2. /\ feed[t] \in Seq(FeedEvent) /\ feed[t] # <<>> /\ view[t] \in Shown
        /\ tab[t] \in TabState /\ tab[t].on
    BY <1>1, TabFacts
  <1>3. /\ e \in FeedEvent /\ Tail(feed[t]) \in Seq(FeedEvent) /\ e = feed[t][1]
        /\ 1 \in DOMAIN feed[t]
        /\ \A i \in DOMAIN Tail(feed[t]) :
             i + 1 \in DOMAIN feed[t] /\ Tail(feed[t])[i] = feed[t][i + 1]
    BY <1>2, FeedTailIs
  <1>4. w \in Shown
    BY <1>2, <1>3, ShownType
  <1>5. PICK waits \in BOOLEAN :
          tab' = [tab EXCEPT ![t] =
            CASE e.type = "snapshot" -> [@ EXCEPT !.running = e.running]
              [] e.type = "ask" -> [@ EXCEPT !.awaiting = @ \/ tab[t].has]
              [] e.type = "answered" -> [@ EXCEPT !.awaiting = @ /\ waits]
              [] e.type = "end" -> [@ EXCEPT !.running = FALSE]
              [] OTHER -> @]
    BY DEF FeedHears
  <1>6. /\ tab'[t] \in TabState /\ tab'[t].on
        /\ e.type = "snapshot" => tab'[t] = [tab[t] EXCEPT !.running = e.running]
    <2> DEFINE s == tab[t]
               r == CASE e.type = "snapshot" -> [s EXCEPT !.running = e.running]
                      [] e.type = "ask" -> [s EXCEPT !.awaiting = @ \/ s.has]
                      [] e.type = "answered" -> [s EXCEPT !.awaiting = @ /\ waits]
                      [] e.type = "end" -> [s EXCEPT !.running = FALSE]
                      [] OTHER -> s
    <2>1. tab' = [tab EXCEPT ![t] = r]
      BY <1>5
    <2>2. CASE e.type = "snapshot"
      <3>1. r = [s EXCEPT !.running = e.running]
        BY <2>2
      <3>2. e.running \in BOOLEAN
        BY <1>3, <2>2 DEF FeedEvent
      <3>3. r \in TabState /\ r.on
        BY <1>2, <3>1, <3>2 DEF TabState
      <3> HIDE DEF r
      <3> QED BY <2>1, <3>1, <3>3 DEF IInv, Types
    <2>3. CASE e.type \in {"ask", "answered"}
      <3>1. r = [s EXCEPT !.awaiting = s.awaiting \/ s.has]
            \/ r = [s EXCEPT !.awaiting = s.awaiting /\ waits]
        BY <2>3, Zenon
      <3>2. (s.awaiting \/ s.has) \in BOOLEAN /\ (s.awaiting /\ waits) \in BOOLEAN
        OBVIOUS
      <3>3. r \in TabState /\ r.on
        <4> HIDE DEF r
        <4> QED BY <1>2, <3>1, <3>2 DEF TabState
      <3> HIDE DEF r
      <3> QED BY <2>1, <2>3, <3>3 DEF IInv, Types
    <2>4. CASE e.type = "end"
      <3>1. r = [s EXCEPT !.running = FALSE]
        BY <2>4
      <3>2. r \in TabState /\ r.on
        BY <1>2, <3>1 DEF TabState
      <3> HIDE DEF r
      <3> QED BY <2>1, <2>4, <3>2 DEF IInv, Types
    <2>5. CASE e.type \notin {"snapshot", "ask", "answered", "end"}
      <3>1. r = s
        BY <2>5
      <3> HIDE DEF r
      <3> QED BY <1>2, <2>1, <2>5, <3>1 DEF IInv, Types
    <2> QED BY <2>2, <2>3, <2>4, <2>5
  <1>7. /\ tab' \in [Tab -> TabState]
        /\ \A u \in Tab : u # t => tab'[u] = tab[u]
    <2>1. DOMAIN tab' = Tab /\ \A u \in Tab : u # t => tab'[u] = tab[u]
      BY <1>5 DEF IInv, Types
    <2>2. tab' = [u \in Tab |-> tab'[u]]
      BY <1>5 DEF IInv, Types
    <2>3. \A u \in Tab : tab'[u] \in TabState
      BY <1>6, <2>1 DEF IInv, Types
    <2> QED BY <2>1, <2>2, <2>3
  <1>8. /\ fetch' \in [Tab -> SUBSET Request]
        /\ \A u \in Tab : u # t => fetch'[u] = fetch[u]
        /\ e.type # "end" => fetch' = fetch
    <2>1. Get("task") \in Request
      BY DEF Get, Request
    <2> QED BY <1>1, <2>1 DEF IInv, Types
  <1> HIDE DEF e, w
  <1>9. /\ feed' \in [Tab -> Seq(FeedEvent) \cup {None}]
        /\ feed'[t] = Tail(feed[t]) /\ \A u \in Tab : u # t => feed'[u] = feed[u]
        /\ view' \in [Tab -> Shown]
        /\ view'[t] = w /\ \A u \in Tab : u # t => view'[u] = view[u]
    BY <1>1, <1>3, <1>4 DEF IInv, Types, TypeOK
  <1>10. TypeOK'
    <2>1. \A u \in Tab : DOMAIN tab'[u] = DOMAIN Closed
      BY <1>7, TabTypes
    <2>2. \A u \in Tab : ~tab'[u].on => u # t /\ ~tab[u].on /\ tab'[u] = Closed
      BY <1>6, <1>7, TabFacts
    <2>3. \A u \in Tab : ~tab'[u].on =>
            /\ tab'[u] = Closed /\ leader # u /\ fetch'[u] = {} /\ feed'[u] = None
      BY <1>8, <1>9, <2>2, TabFacts
    <2> QED BY <1>1, <1>9, <2>1, <2>3, ServerStays DEF IInv, TypeOK
  <1>11. Types'
    BY <1>1, <1>6, <1>7, <1>8, <1>9, ServerStays DEF IInv, Types
  <1>12. StreamCompletes'
    <2> SUFFICES ASSUME NEW u \in Tab, feed'[u] # None, row'.here
                 PROVE  InTune(feed'[u], view'[u], QueuedIds', said', breaks')
      BY DEF StreamCompletes
    <2>1. CASE u = t
      <3>1. InTune(feed[t], view[t], QueuedIds, said, breaks)
        BY <1>1, TabFacts, ServerStays
      <3>2. InTune(Tail(feed[t]), w, QueuedIds, said, breaks)
        BY <1>2, <3>1, HeadTunes DEF w, e
      <3> QED BY <1>1, <1>9, <2>1, <3>2, ServerStays
    <2>2. CASE u # t
      BY <1>1, <1>9, <2>2, ServerStays DEF IInv, StreamCompletes
    <2> QED BY <2>1, <2>2
  <1>14. BreakIsSaid'
    <2>1. w.local = {} \/ w.local = view[t].local
      BY <1>2, <1>3 DEF ShownAfter, Shown, FeedEvent, w
    <2> QED BY <1>1, <1>9, <2>1, ServerStays DEF IInv, BreakIsSaid
  <1>13. ASSUME NEW u \in Tab, Mends(u)' PROVE NothingStale(u)' /\ MendsTheRest(u)'
    <2>1. NothingStale(u) /\ MendsTheRest(u)
      BY <1>1, <1>13, TabFacts DEF Mends
    <2>2. CASE u = t
      <3>1. \A i \in DOMAIN feed[t] : feed[t][i].type = "snapshot" /\ feed[t][i].running = row.running
        BY <1>1, <2>1, <2>2 DEF NothingStale
      <3>2. e.type = "snapshot" /\ e.running = row.running
        BY <1>3, <3>1
      <3>3. /\ \A i \in DOMAIN feed'[t] :
                 feed'[t][i].type = "snapshot" /\ feed'[t][i].running = row.running
            /\ fetch' = fetch
        BY <1>3, <1>8, <1>9, <3>1, <3>2
      <3>4. tab'[t] = [tab[t] EXCEPT !.running = row.running]
        BY <1>6, <3>2
      <3>5. /\ tab'[t].has = tab[t].has /\ tab'[t].awaiting = tab[t].awaiting
            /\ tab'[t].dot = tab[t].dot /\ tab'[t].running = row.running
        BY <1>2, <3>4 DEF TabState
      <3>6. NothingStale(t)'
        BY <1>1, <1>6, <2>1, <2>2, <3>3, ServerStays DEF NothingStale
      <3>7. MendsTheRest(t)'
        BY <1>1, <2>1, <2>2, <3>3, <3>5, ServerStays DEF MendsTheRest
      <3> QED BY <2>2, <3>6, <3>7
    <2>3. CASE u # t
      BY <1>1, <1>7, <1>8, <1>9, <2>1, <2>3, ServerStays DEF NothingStale, MendsTheRest
    <2> QED BY <2>2, <2>3
  <1> QED BY <1>1, <1>10, <1>11, <1>12, <1>13, <1>14, ServerStays DEF IInv, Mending, Mends

LEMMA FetchReadStep == \A t \in Tab : IInv /\ FetchRead(t) => IInv'
  <1> SUFFICES ASSUME NEW t \in Tab, IInv, FetchRead(t) PROVE IInv'
    OBVIOUS
  <1>1. PICK f \in fetch[t] :
          fetch' = [fetch EXCEPT ![t] = (@ \ {f}) \cup {[f EXCEPT !.reply = row]}]
    BY DEF FetchRead
  <1>2. /\ UNCHANGED server
        /\ UNCHANGED <<leader, conn, wire, chan, tab, feed, view, post, mended>>
    BY DEF FetchRead, stream
  <1> DEFINE g == [f EXCEPT !.reply = row]
  <1>3. f \in Request /\ g \in Request /\ g.kind = f.kind /\ g.reply = row
    <2>1. f \in Request /\ row \in Row
      BY Facts, TabFacts
    <2> QED BY <2>1 DEF Request
  <1> HIDE DEF g
  <1>4. /\ fetch' \in [Tab -> SUBSET Request]
        /\ fetch'[t] = (fetch[t] \ {f}) \cup {g}
        /\ \A u \in Tab : u # t => fetch'[u] = fetch[u]
    BY <1>1, <1>3 DEF IInv, Types, g
  <1>5. tab[t].on
    BY <1>1, TabFacts
  <1>6. TypeOK' /\ Types'
    BY <1>2, <1>4, <1>5, ServerStays DEF IInv, TypeOK, Types
  <1>7. ASSUME NEW u \in Tab, Mends(u)' PROVE NothingStale(u)' /\ MendsTheRest(u)'
    <2>1. NothingStale(u) /\ MendsTheRest(u)
      BY <1>2, <1>7, TabFacts DEF Mends
    <2>2. \A x \in fetch'[u] : x.kind \in {"tasks", "running"} /\ x.reply \in {row, None}
      BY <1>3, <1>4, <2>1 DEF NothingStale
    <2>3. \A k : (\A x \in fetch'[u] : x.kind # k) => \A x \in fetch[u] : x.kind # k
      BY <1>3, <1>4
    <2>4. NothingStale(u)'
      BY <1>2, <2>1, <2>2, ServerStays DEF NothingStale
    <2>5. MendsTheRest(u)'
      BY <1>2, <2>1, <2>3, ServerStays DEF MendsTheRest
    <2> QED BY <2>4, <2>5
  <1> QED BY <1>2, <1>6, <1>7, ServerStays DEF IInv, Mending, Mends

LEMMA LoadedIs ==
  ASSUME NEW s \in TabState, NEW f \in Request, NEW r \in Row, f.reply = r
  PROVE  /\ Loaded(s, f) \in TabState /\ Loaded(s, f).on = s.on
         /\ f.kind = "tasks" =>
              /\ Loaded(s, f).has = r.here /\ Loaded(s, f).awaiting = r.awaiting
              /\ Loaded(s, f).dot = s.dot
              /\ Loaded(s, f).running = IF r.here THEN r.running ELSE s.running
         /\ f.kind = "running" =>
              /\ Loaded(s, f).has = s.has /\ Loaded(s, f).awaiting = s.awaiting
              /\ Loaded(s, f).dot = r.running /\ Loaded(s, f).running = r.running
  <1>1. CASE f.kind = "tasks"
    <2>1. Loaded(s, f) = [s EXCEPT !.has = r.here, !.awaiting = r.awaiting,
                                   !.running = IF r.here THEN r.running ELSE @]
      BY <1>1 DEF Loaded
    <2> QED BY <1>1, <2>1 DEF TabState, Row
  <1>2. CASE f.kind = "running"
    <2>1. Loaded(s, f) = [s EXCEPT !.running = r.running, !.dot = r.running]
      BY <1>2 DEF Loaded
    <2> QED BY <1>2, <2>1 DEF TabState, Row
  <1>3. CASE f.kind \notin {"tasks", "running"}
    <2> DEFINE a == IF r.here /\ s.has THEN r.awaiting ELSE s.awaiting
               b == s.running /\ f.kind # "cleared"
    <2>1. Loaded(s, f) = [s EXCEPT !.awaiting = a, !.running = b]
      BY <1>3, Zenon DEF Loaded
    <2>2. a \in BOOLEAN /\ b \in BOOLEAN
      BY DEF TabState, Row
    <2> HIDE DEF a, b
    <2> QED BY <1>3, <2>1, <2>2 DEF TabState
  <1> QED BY <1>1, <1>2, <1>3

LEMMA FetchArrivesStep == \A t \in Tab : IInv /\ FetchArrives(t) => IInv'
  <1> SUFFICES ASSUME NEW t \in Tab, IInv, FetchArrives(t) PROVE IInv'
    OBVIOUS
  <1>1. PICK f \in fetch[t] :
          /\ f.reply # None
          /\ tab' = [tab EXCEPT ![t] = Loaded(@, f)]
          /\ fetch' = [fetch EXCEPT ![t] = @ \ {f}]
    BY DEF FetchArrives
  <1>2. /\ UNCHANGED server
        /\ UNCHANGED <<leader, conn, wire, chan, feed, view, post, mended>>
    BY DEF FetchArrives, stream
  <1>3. tab[t] \in TabState /\ tab[t].on /\ f \in Request /\ f.reply \in Row
    BY <1>1, TabFacts DEF Request
  <1> DEFINE s == Loaded(tab[t], f)
  <1>4. /\ s \in TabState /\ s.on
        /\ f.kind = "tasks" =>
             /\ s.has = f.reply.here /\ s.awaiting = f.reply.awaiting
             /\ s.dot = tab[t].dot
             /\ s.running = IF f.reply.here THEN f.reply.running ELSE tab[t].running
        /\ f.kind = "running" =>
             /\ s.has = tab[t].has /\ s.awaiting = tab[t].awaiting
             /\ s.dot = f.reply.running /\ s.running = f.reply.running
    BY <1>3, LoadedIs
  <1> HIDE DEF s
  <1>5. /\ tab' \in [Tab -> TabState] /\ tab'[t] = s
        /\ fetch' \in [Tab -> SUBSET Request] /\ fetch'[t] = fetch[t] \ {f}
        /\ \A u \in Tab : u # t => tab'[u] = tab[u] /\ fetch'[u] = fetch[u]
    BY <1>1, <1>4 DEF IInv, Types, s
  <1>6. TypeOK'
    <2>1. \A u \in Tab : DOMAIN tab'[u] = DOMAIN Closed
      BY <1>5, TabTypes
    <2>2. \A u \in Tab : ~tab'[u].on => u # t /\ ~tab[u].on /\ tab'[u] = Closed
      BY <1>4, <1>5, TabFacts
    <2>3. \A u \in Tab : ~tab'[u].on =>
            /\ tab'[u] = Closed /\ leader # u /\ fetch'[u] = {} /\ feed[u] = None
      BY <1>5, <2>2, TabFacts
    <2> QED BY <1>2, <2>1, <2>3, ServerStays DEF IInv, TypeOK
  <1>7. Types'
    BY <1>2, <1>4, <1>5, ServerStays DEF IInv, Types
  <1>8. ASSUME NEW u \in Tab, Mends(u)' PROVE NothingStale(u)' /\ MendsTheRest(u)'
    <2>1. NothingStale(u) /\ MendsTheRest(u)
      BY <1>2, <1>8, TabFacts DEF Mends
    <2>2. CASE u = t
      <3>1. f.kind \in {"tasks", "running"} /\ f.reply = row
        BY <1>1, <2>1, <2>2 DEF NothingStale
      <3>2. NothingStale(t)'
        BY <1>2, <1>4, <1>5, <2>1, <2>2, ServerStays DEF NothingStale
      <3>3. CASE f.kind = "tasks"
        <4>1. (\A x \in fetch'[t] : x.kind # "running") => \A x \in fetch[t] : x.kind # "running"
          BY <1>5, <3>3
        <4> QED BY <1>2, <1>4, <1>5, <2>1, <2>2, <3>1, <3>2, <3>3, <4>1, ServerStays
                DEF MendsTheRest
      <3>4. CASE f.kind = "running"
        <4>1. (\A x \in fetch'[t] : x.kind # "tasks") => \A x \in fetch[t] : x.kind # "tasks"
          BY <1>5, <3>4
        <4> QED BY <1>2, <1>4, <1>5, <2>1, <2>2, <3>1, <3>2, <3>4, <4>1, ServerStays
                DEF MendsTheRest
      <3> QED BY <3>1, <3>3, <3>4
    <2>3. CASE u # t
      BY <1>2, <1>5, <2>1, <2>3, ServerStays DEF NothingStale, MendsTheRest
    <2> QED BY <2>2, <2>3
  <1> QED BY <1>2, <1>6, <1>7, <1>8, ServerStays DEF IInv, Mending, Mends

(* The user's requests. *)
LEMMA AskServerStep ==
  ASSUME IInv, NEW t \in Tab, tab[t].on, post[t] = None,
         NEW s \in TabState, s.on, tab' = [tab EXCEPT ![t] = s],
         NEW p \in Post, p.reply = None, post' = [post EXCEPT ![t] = p],
         mended' = [mended EXCEPT ![t] = FALSE],
         UNCHANGED server, UNCHANGED <<leader, conn, wire, chan, feed, view, fetch, drops>>
  PROVE  IInv'
  <1>1. /\ tab' \in [Tab -> TabState] /\ tab'[t].on
        /\ post' \in [Tab -> Post \cup {None}] /\ post'[t].reply = None
        /\ mended' \in [Tab -> BOOLEAN] /\ ~mended'[t]
        /\ \A u \in Tab : u # t => /\ tab'[u] = tab[u] /\ post'[u] = post[u]
                                   /\ mended'[u] = mended[u]
    BY DEF IInv, Types
  <1>2. TypeOK' /\ Types'
    BY <1>1, ServerStays, TabTypes DEF IInv, TypeOK, Types
  <1>3. BreakIsSaid' /\ ClaimsWait'
    <2>1. OthersWait({})
      BY <1>1 DEF OthersWait, Waits
    <2>2. BreakIsSaid'
      BY <1>1, ServerStays, NoPost DEF IInv, BreakIsSaid
    <2> QED BY <2>1, <2>2, ServerStays
  <1>4. Mending'
    BY <1>1, ServerStays DEF IInv, Mending, Mends, NothingStale, MendsTheRest
  <1> QED BY <1>2, <1>3, <1>4, ServerStays DEF IInv

LEMMA SendStep == \A t \in Tab, doc \in BOOLEAN : IInv /\ Send(t, doc) => IInv'
  <1> SUFFICES ASSUME NEW t \in Tab, NEW doc \in BOOLEAN, IInv, Send(t, doc) PROVE IInv'
    OBVIOUS
  <1> DEFINE s == [tab[t] EXCEPT !.running = TRUE, !.awaiting = FALSE, !.doc = @ \/ doc]
             p == SendPost(doc)
  <1>1. /\ tab[t].on /\ post[t] = None
        /\ tab' = [tab EXCEPT ![t].running = TRUE, ![t].awaiting = FALSE, ![t].doc = @ \/ doc]
        /\ post' = [post EXCEPT ![t] = p]
        /\ mended' = [mended EXCEPT ![t] = FALSE]
        /\ UNCHANGED server
        /\ UNCHANGED <<leader, conn, wire, chan, feed, view, fetch, drops>>
    BY DEF Send, stream
  <1>2. p \in Post /\ p.reply = None
    BY DEF SendPost, Post
  <1>3. s \in TabState /\ s.on
    <2>1. tab[t] \in TabState /\ (tab[t].doc \/ doc) \in BOOLEAN
      BY TabFacts
    <2> DEFINE d == tab[t].doc \/ doc
    <2>2. s = [tab[t] EXCEPT !.running = TRUE, !.awaiting = FALSE, !.doc = d] /\ d \in BOOLEAN
      BY <2>1
    <2> HIDE DEF s, d
    <2> QED BY <1>1, <2>1, <2>2 DEF TabState
  <1>4. tab' = [tab EXCEPT ![t] = s]
    BY <1>1 DEF IInv, Types
  <1> HIDE DEF s, p
  <1> QED BY <1>1, <1>2, <1>3, <1>4, AskServerStep

LEMMA ClearStep == \A t \in Tab : IInv /\ Clear(t) => IInv'
  <1> SUFFICES ASSUME NEW t \in Tab, IInv, Clear(t) PROVE IInv'
    OBVIOUS
  <1> DEFINE s == [tab[t] EXCEPT !.running = TRUE]
             p == ClearPost(None)
  <1>1. /\ tab[t].on /\ post[t] = None
        /\ tab' = [tab EXCEPT ![t].running = TRUE]
        /\ post' = [post EXCEPT ![t] = p]
        /\ mended' = [mended EXCEPT ![t] = FALSE]
        /\ UNCHANGED server
        /\ UNCHANGED <<leader, conn, wire, chan, feed, view, fetch, drops>>
    BY DEF Clear, stream
  <1>2. p \in Post /\ p.reply = None
    BY DEF ClearPost, Post
  <1>3. s \in TabState /\ s.on
    BY <1>1, TabFacts DEF TabState
  <1>4. tab' = [tab EXCEPT ![t] = s]
    BY <1>1 DEF IInv, Types
  <1> HIDE DEF s, p
  <1> QED BY <1>1, <1>2, <1>3, <1>4, AskServerStep

LEMMA PostRepliedStep == \A t \in Tab : IInv /\ PostReplied(t) => IInv'
  <1> SUFFICES ASSUME NEW t \in Tab, IInv, PostReplied(t) PROVE IInv'
    OBVIOUS
  <1> DEFINE failed == post[t].reply = "failed"
             cleared == ~failed /\ post[t].kind = "clear"
             refused == failed /\ post[t].kind = "send"
             d == tab[t].running /\ ~failed
             s == [tab[t] EXCEPT !.running = d]
             more == IF cleared THEN {post[t].break} ELSE IF refused THEN {None} ELSE {}
             asked == IF cleared THEN {Get("cleared")} ELSE IF refused THEN {Get("task")} ELSE {}
             w == [view[t] EXCEPT !.local = @ \cup more]
  <1>1. /\ tab[t].on /\ post[t] # None /\ post[t].reply \in {"ok", "failed"}
        /\ tab' = [tab EXCEPT ![t].running = @ /\ ~failed]
        /\ view' = [view EXCEPT ![t].local = @ \cup more]
        /\ fetch' = [fetch EXCEPT ![t] = @ \cup asked]
        /\ post' = [post EXCEPT ![t] = None]
        /\ UNCHANGED server
        /\ UNCHANGED <<leader, conn, wire, chan, feed, drops, mended, steps>>
    BY DEF PostReplied, stream
  <1>2. tab[t] \in TabState /\ view[t] \in Shown /\ ~Mends(t)
    BY <1>1, TabFacts DEF NothingStale
  <1>3. s \in TabState /\ s.on
    <2>1. d \in BOOLEAN
      OBVIOUS
    <2> HIDE DEF d
    <2> QED BY <1>1, <1>2, <2>1 DEF TabState
  <1>4. tab' = [tab EXCEPT ![t] = s] /\ view' = [view EXCEPT ![t] = w]
    BY <1>1, <1>2 DEF IInv, Types, TypeOK
  <1>5. more \subseteq Msg \cup {None} /\ (row.here => more \subseteq breaks \cup {None})
    BY <1>1 DEF IInv, BreakIsSaid
  <1>6. asked \subseteq Request
    BY DEF Get, Request
  <1> HIDE DEF failed, cleared, refused, d, s, more, asked
  <1>7. /\ tab' \in [Tab -> TabState] /\ tab'[t].on
        /\ post' \in [Tab -> Post \cup {None}] /\ post'[t] = None
        /\ fetch' \in [Tab -> SUBSET Request]
        /\ \A u \in Tab : u # t => /\ tab'[u] = tab[u] /\ post'[u] = post[u]
                                   /\ fetch'[u] = fetch[u]
    BY <1>1, <1>3, <1>4, <1>6 DEF IInv, Types
  <1>8. /\ w \in Shown /\ w.said = view[t].said /\ w.queued = view[t].queued
        /\ w.local = view[t].local \cup more
    BY <1>2, <1>5 DEF Shown
  <1> HIDE DEF w
  <1>9. /\ view' \in [Tab -> Shown] /\ view'[t] = w
        /\ \A u \in Tab : u # t => view'[u] = view[u]
    BY <1>4, <1>8 DEF IInv, TypeOK
  <1>10. TypeOK' /\ Types'
    BY <1>1, <1>2, <1>7, <1>9, ServerStays, TabTypes DEF IInv, TypeOK, Types
  <1>11. BreakIsSaid' /\ ClaimsWait'
    <2>1. OthersWait({})
      BY <1>1, <1>7 DEF OthersWait, Waits
    <2>2. BreakIsSaid'
      BY <1>1, <1>5, <1>7, <1>8, <1>9, ServerStays DEF IInv, BreakIsSaid
    <2> QED BY <1>1, <2>1, <2>2, ServerStays
  <1>12. StreamCompletes'
    <2> SUFFICES ASSUME NEW u \in Tab, feed'[u] # None, row'.here
                 PROVE  InTune(feed'[u], view'[u], QueuedIds', said', breaks')
      BY DEF StreamCompletes
    <2>1. InTune(feed[u], view[u], QueuedIds, said, breaks)
      BY <1>1, TabFacts, ServerStays
    <2>2. view'[u].said = view[u].said /\ view'[u].queued = view[u].queued
      BY <1>8, <1>9
    <2> QED BY <1>1, <2>1, <2>2, ServerStays DEF InTune
  <1>13. Mending'
    BY <1>1, <1>2, <1>7, ServerStays DEF IInv, Mending, Mends, NothingStale, MendsTheRest
  <1> QED BY <1>1, <1>10, <1>11, <1>12, <1>13, ServerStays DEF IInv

LEMMA StutterStep == IInv /\ UNCHANGED vars => IInv'
  <1> SUFFICES ASSUME IInv, UNCHANGED vars PROVE IInv'
    OBVIOUS
  <1>1. /\ UNCHANGED server
        /\ UNCHANGED <<leader, conn, wire, chan, tab, feed, view, fetch, post, mended>>
    BY DEF vars, server
  <1>2. TypeOK' /\ Types'
    BY <1>1, ServerStays DEF IInv, TypeOK, Types
  <1>3. Mending'
    BY <1>1, ServerStays DEF IInv, Mending, Mends, NothingStale, MendsTheRest
  <1> QED BY <1>1, <1>2, <1>3, ServerStays DEF IInv

--------------------------------------------------------------------------
(* The specification. *)

LEMMA InitIsIn == Init => IInv
  <1> SUFFICES ASSUME Init PROVE IInv
    OBVIOUS
  <1>1. <<>> \in Seq(Prompt) /\ <<>> \in Seq(CoarseEvent)
    OBVIOUS
  <1>2. Closed \in TabState
    BY DEF Closed, TabState
  <1>3. TypeOK
    BY ClientAssumption DEF Init, TypeOK, Row, Shown, Empty, Closed
  <1>4. Types
    BY <1>1, <1>2 DEF Init, Types
  <1>5. PromptsDiffer /\ ClaimsWait /\ StreamCompletes /\ Mending
    BY DEF Init, PromptsDiffer, ClaimsWait, StreamCompletes, Mending, Mends
  <1>6. BreakIsSaid
    BY DEF Init, BreakIsSaid, Empty
  <1> QED BY <1>3, <1>4, <1>5, <1>6 DEF IInv

LEMMA NextKeeps == IInv /\ [Next]_vars => IInv'
  <1> SUFFICES ASSUME IInv, [Next]_vars PROVE IInv'
    OBVIOUS
  <1>1. CASE Server
    BY <1>1, SessionOpensStep, SpeakStep, AskStep, TurnHandsOffStep, TurnEndsStep,
       TurnSupersededStep, FollowUpLaunchesStep, FollowUpDroppedStep, FollowUpFailsStep,
       UnqueueStep, SettleStep, DeleteStep DEF Server
  <1>2. CASE StreamOpens \/ StreamDrops \/ LeaderHears
    BY <1>2, StreamStep, LeaderHearsStep
  <1>3. ASSUME NEW t \in Tab,
               \/ SendClaims(t) \/ SendArrives(t) \/ SendLaunches(t) \/ SendRefused(t)
               \/ ClearArrives(t) \/ ClearEnds(t) \/ ClearRefused(t) \/ Stop(t)
        PROVE  IInv'
    BY <1>3, SendClaimsStep, SendArrivesStep, SendLaunchesStep, SendRefusedStep,
       ClearArrivesStep, ClearEndsStep, ClearRefusedStep, StopStep
  <1>4. ASSUME NEW t \in Tab,
               \/ Boot(t) \/ CloseTab(t) \/ GrantLock(t) \/ FollowerHears(t)
               \/ FeedOpens(t) \/ FeedDrops(t) \/ FeedHears(t)
        PROVE  IInv'
    BY <1>4, BootStep, CloseTabStep, GrantLockStep, FollowerHearsStep, FeedOpensStep,
       FeedDropsStep, FeedHearsStep
  <1>7. ASSUME NEW t \in Tab,
               \/ FetchRead(t) \/ FetchArrives(t) \/ PostReplied(t) \/ PostForgotten(t)
               \/ Clear(t)
        PROVE  IInv'
    BY <1>7, FetchReadStep, FetchArrivesStep, PostRepliedStep, PostForgottenStep, ClearStep
  <1>5. ASSUME NEW t \in Tab, NEW doc \in BOOLEAN, Send(t, doc) PROVE IInv'
    BY <1>5, SendStep
  <1>6. CASE UNCHANGED vars
    BY <1>6, StutterStep
  <1> QED BY <1>1, <1>2, <1>3, <1>4, <1>5, <1>6, <1>7 DEF Next

(* The inductive invariant holds in every state of every behaviour. *)
THEOREM Invariance == Spec => []IInv
  BY InitIsIn, NextKeeps, PTL DEF Spec

(* The variables keep their types, and a closed tab, which neither leads nor *)
(* listens, knows nothing (ClientSync's TypeOK).                             *)
THEOREM TypeCorrect == Spec => []TypeOK
  <1>1. IInv => TypeOK
    BY DEF IInv
  <1> QED BY <1>1, Invariance, PTL

(* Once a tab has handled what its transcript stream sent, it shows the     *)
(* persisted messages and the queued prompts of the task, breaks left aside: *)
(* none is lost between the snapshot and the tail of the messages route, none *)
(* stays that is gone.  What the tab shows under ids of its own, beside, are  *)
(* errors of its POSTs and copies of breaks that are recorded.                *)
THEOREM TranscriptIsCaughtUp == Spec => []TranscriptCaughtUp
  <1>1. IInv => TranscriptCaughtUp
    <2> SUFFICES ASSUME IInv, NEW t \in Tab, feed[t] = <<>>, row.here
                 PROVE  /\ said \ breaks \subseteq view[t].said /\ view[t].said \subseteq said
                        /\ view[t].queued = QueuedIds
                        /\ view[t].local \subseteq breaks \cup {None}
      BY DEF TranscriptCaughtUp
    <2>1. <<>> \in Seq(FeedEvent)
      OBVIOUS
    <2>2. feed[t] # None
      BY <2>1
    <2>3. InTune(<<>>, view[t], QueuedIds, said, breaks) /\ view[t] \in Shown
      BY <2>2, TabFacts
    <2>4. view[t].queued \in SUBSET Msg /\ view[t].said \in SUBSET Msg
      BY <2>3 DEF Shown
    <2>5. QueueAfter(<<>>, view[t].queued) = view[t].queued
      BY <2>4, NothingAfter
    <2>6. SaidAfter(<<>>, view[t].said) = view[t].said
      BY <2>4, NothingAfter
    <2>7. view[t].local \subseteq breaks \cup {None}
      BY DEF IInv, BreakIsSaid
    <2> QED BY <2>3, <2>5, <2>6, <2>7 DEF InTune
  <1> QED BY <1>1, Invariance, PTL

(* A repeated open of the coarse stream that met nothing else under way to the *)
(* tab leaves it, once its refetches are in and while the task does not change, *)
(* with the task's row, spinner and dot included, whatever was lost before      *)
(* (onCatchUp of useOrchestrator.ts).  With Late # {}, which lets an older      *)
(* answer, or a snapshot taken while a launch waits, come in between, it does   *)
(* not.                                                                         *)
THEOREM ReopenRepairsHolds == ASSUME Late = {} PROVE Spec => []ReopenRepairs
  <1>1. IInv => ReopenRepairs
    <2> SUFFICES ASSUME IInv, NEW t \in Tab, mended[t], fetch[t] = {}
                 PROVE  /\ tab[t].running = row.running /\ tab[t].dot = row.running
                        /\ tab[t].has = row.here
                        /\ row.here => tab[t].awaiting = row.awaiting
      BY DEF ReopenRepairs
    <2>1. MendsTheRest(t)
      BY TabFacts DEF Mends
    <2> QED BY <2>1 DEF MendsTheRest
  <1> QED BY <1>1, Invariance, PTL
=============================================================================
