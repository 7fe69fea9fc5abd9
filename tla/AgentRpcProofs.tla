--------------------------- MODULE AgentRpcProofs ---------------------------
(*****************************************************************************)
(* AgentRpc, for every set of worker processes, both agents and whatever the *)
(* agent does: no request is left waiting, a prompt that failed is reported, *)
(* and a stop leaves nothing of the tree it saw.  The invariant says what    *)
(* each stage of the turn and of the stop already knows of the requests and  *)
(* of the processes.                                                         *)
(*****************************************************************************)
EXTENDS AgentRpc, TLAPS

(* Before the launch there is no child, so nothing was asked and nothing stops. *)
NothingYet ==
  turn.at = "new" =>
    /\ proc[Root] = "unborn" /\ ~client.exit
    /\ stop.at = "none" /\ \A r \in Request : req[r] = "unsent"

Over == {"after", "stats", "settle", "done"}
Told == aborted \/ turn.erred

(* dsh opens its session before the prompt; nobody goes past a prompt that is not *)
(* settled; and what failed was told before the turn went on.                     *)
FailureTold ==
  /\ kind = "dsh" /\ turn.at \in {"new", "probe"} => req["prompt"] = "unsent"
  /\ kind = "prime" => turn.at # "probe"
  /\ kind = "dsh" /\ turn.at \in {"drain", "prompt", "after", "stats"} => req["probe"] = "ok"
  /\ kind = "dsh" /\ turn.at \in {"settle", "done"} => req["probe"] = "ok" \/ Told
  /\ turn.at \in Over =>
       \/ req["prompt"] = "ok"
       \/ req["prompt"] = "failed" /\ Told
       \/ kind = "dsh" /\ req["prompt"] = "unsent" /\ Told

(* The root is in every tree a stop saw, and all of it was born; once the stop *)
(* sweeps all of it is dead, and when it is done its group cannot fork.        *)
TreeGone ==
  /\ stop.tree # {} => Root \in stop.tree
  /\ \A p \in stop.tree : proc[p] # "unborn"
  /\ stop.at \in {"sweep", "resweep", "done"} => \A p \in stop.tree : proc[p] = "dead"
  /\ stop.at = "done" /\ stop.tree # {} => \A w \in Grouped : proc[w] # "alive"
  /\ turn.at = "done" => stop.at = "done"

IInv == TypeOK /\ NothingYet /\ FailureTold /\ TreeGone

USE ProcAssumption

LEMMA InitHolds == Init => IInv
  <1> SUFFICES ASSUME Init PROVE IInv
    OBVIOUS
  <1>1. TypeOK
    BY DEF Init, TypeOK
  <1>2. NothingYet /\ FailureTold /\ TreeGone
    BY DEF Init, NothingYet, FailureTold, TreeGone, Request, Over, Told, Proc, Worker
  <1> QED BY <1>1, <1>2 DEF IInv

----------------------------------------------------------------------------
(* Requests settle for good *)

Reqs == [Request -> {"unsent", "pending", "ok", "failed"}]

(* A request moves from unsent over pending to ok or failed, or not at all. *)
Onward(rs) ==
  /\ rs \in Reqs
  /\ \A r \in Request : req[r] \in {"ok", "failed"} => rs[r] = req[r]

LEMMA SentOnward ==
  ASSUME NEW r \in Request, NEW rs \in Reqs, NEW failure \in BOOLEAN, TypeOK
  PROVE  /\ Sent(r, rs, failure) \in Reqs
         /\ \A q \in Request \ {r} : Sent(r, rs, failure)[q] = rs[q]
         /\ client.exit => Sent(r, rs, failure)[r] = "failed"
         /\ Sent(r, rs, failure)[r] \in {"pending", "failed"}
  BY DEF Sent, Reqs

LEMMA FailAllOnward ==
  ASSUME NEW rs \in Reqs
  PROVE  /\ FailAll(rs) \in Reqs
         /\ \A r \in Request : FailAll(rs)[r] # "pending"
         /\ \A r \in Request : rs[r] # "pending" => FailAll(rs)[r] = rs[r]
  BY DEF FailAll, Reqs

LEMMA RequestNames ==
  /\ \A r \in Request : r \in {"probe", "prompt", "stats", "abort"}
  /\ "probe" \in Request /\ "prompt" \in Request /\ "stats" \in Request /\ "abort" \in Request
  BY DEF Request

Stops == [at : {"none", "abort", "end", "term", "kill", "sweep", "resweep", "done"},
          tree : SUBSET Proc]

LEMMA TreeFacts ==
  ASSUME TypeOK
  PROVE  /\ ProcessTree \subseteq Proc
         /\ ProcessTree # {} => Root \in ProcessTree
         /\ \A p \in ProcessTree : proc[p] # "unborn"
         /\ proc[Root] # "unborn" => \A w \in Grouped : Alive(w) => w \in ProcessTree
  BY DEF TypeOK, ProcessTree, Proc, Worker, Alive

(* What a stop does up to its first wait. *)
LEMMA BegunFacts ==
  ASSUME TypeOK, NEW rs \in Reqs, NEW failure \in BOOLEAN, NEW b, b = Begun(rs, failure)
  PROVE  /\ b.rs \in Reqs /\ \A q \in Request \ {"abort"} : b.rs[q] = rs[q]
         /\ client.exit /\ rs["abort"] # "pending" => b.rs["abort"] # "pending"
         /\ stop.at # "none" => b.st = stop
         /\ stop.at = "none" =>
              \/ b.st = [at |-> "done", tree |-> {}]
              \/ b.st = [at |-> "abort", tree |-> ProcessTree]
              \/ b.st = [at |-> "term", tree |-> ProcessTree]
  <1>2. CASE stop.at # "none"
    <2>1. b.st = stop /\ b.rs = rs
      BY <1>2 DEF Begun
    <2> QED BY <1>2, <2>1
  <1>3. CASE stop.at = "none" /\ client.exit
    <2>1. b.st = [at |-> "done", tree |-> {}] /\ b.rs = rs
      BY <1>3 DEF Begun
    <2> QED BY <1>3, <2>1
  <1>4. CASE stop.at = "none" /\ ~client.exit /\ kind = "prime"
    <2>1. b.st = [at |-> "abort", tree |-> ProcessTree] /\ b.rs = Sent("abort", rs, failure)
      BY <1>4 DEF Begun
    <2>2. b.rs \in Reqs /\ \A q \in Request \ {"abort"} : b.rs[q] = rs[q]
      BY <2>1, SentOnward, RequestNames
    <2> QED BY <1>4, <2>1, <2>2
  <1>5. CASE stop.at = "none" /\ ~client.exit /\ kind = "dsh"
    <2>1. b.st = [at |-> "term", tree |-> ProcessTree] /\ b.rs = rs
      BY <1>5 DEF Begun
    <2> QED BY <1>5, <2>1
  <1> QED BY <1>2, <1>3, <1>4, <1>5 DEF TypeOK

----------------------------------------------------------------------------
(* What a step leaves as it was *)

LEMMA FailureKept ==
  ASSUME IInv, kind' = kind, turn'.at = turn.at, Told => Told', Onward(req'),
         req["prompt"] = "unsent" => req'["prompt"] = "unsent"
  PROVE  FailureTold'
  BY RequestNames DEF IInv, FailureTold, Onward, Over

LEMMA TreeKept ==
  ASSUME IInv, stop' = stop, turn'.at # "done" \/ turn'.at = turn.at,
         \A p \in Proc : /\ proc[p] # "unborn" => proc'[p] # "unborn"
                         /\ proc[p] = "dead" => proc'[p] = "dead"
                         /\ proc[p] # "alive" => proc'[p] # "alive"
  PROVE  TreeGone'
  BY DEF IInv, TypeOK, TreeGone, Proc, Worker

LEMMA StopBeginsFacts ==
  ASSUME IInv, NEW rs \in Reqs, NEW failure \in BOOLEAN, StopBegins(rs, failure),
         proc' = proc, turn'.at # "done" \/ turn'.at = turn.at
  PROVE  /\ stop' \in Stops /\ TreeGone'
         /\ req' \in Reqs /\ \A q \in Request \ {"abort"} : req'[q] = rs[q]
         /\ client.exit /\ rs["abort"] # "pending" => req'["abort"] # "pending"
  <1>1. PICK b : b = Begun(rs, failure)
    OBVIOUS
  <1>2. stop' = b.st /\ req' = b.rs
    BY <1>1 DEF StopBegins
  <1>3. /\ req' \in Reqs /\ \A q \in Request \ {"abort"} : req'[q] = rs[q]
        /\ client.exit /\ rs["abort"] # "pending" => req'["abort"] # "pending"
    BY <1>1, <1>2, BegunFacts DEF IInv
  <1>4. CASE stop.at # "none"
    <2>1. stop' = stop
      BY <1>1, <1>2, <1>4, BegunFacts DEF IInv
    <2> QED BY <1>3, <2>1, TreeKept DEF IInv, TypeOK, Stops
  <1>5. CASE stop.at = "none"
    <2>1. turn'.at # "done"
      BY <1>5 DEF IInv, TreeGone
    <2>2. \/ stop' = [at |-> "done", tree |-> {}]
          \/ stop' = [at |-> "abort", tree |-> ProcessTree]
          \/ stop' = [at |-> "term", tree |-> ProcessTree]
      BY <1>1, <1>2, <1>5, BegunFacts DEF IInv
    <2> QED BY <1>3, <2>1, <2>2, TreeFacts DEF IInv, TreeGone, Stops
  <1> QED BY <1>4, <1>5

----------------------------------------------------------------------------
(* Steps *)

LEMMA ProcSteps ==
  ASSUME IInv, (\E w \in Worker : Fork(w)) \/ (\E p \in Proc : Dies(p))
  PROVE  IInv'
  <1>1. UNCHANGED <<kind, client, req, stop, aborted, queue, turn>>
    BY DEF Fork, Dies
  <1>2. FailureTold'
    BY <1>1 DEF IInv, FailureTold, Told
  <1>3. ASSUME NEW w \in Worker, Fork(w)
        PROVE  TypeOK' /\ NothingYet' /\ TreeGone'
    <2>1. proc[w] = "unborn" /\ proc' = [proc EXCEPT ![w] = "alive"] /\ w # Root /\ w \in Proc
      BY <1>3 DEF Fork, Proc
    <2>2. TypeOK'
      BY <1>1, <2>1 DEF IInv, TypeOK
    <2>3. NothingYet'
      BY <1>1, <2>1 DEF IInv, TypeOK, NothingYet
    <2>4. TreeGone'
      <3>1. ~(stop.at = "done" /\ stop.tree # {})
        BY <1>3 DEF Fork, Forks, Worker, Proc, IInv, TypeOK, TreeGone
      <3> QED BY <1>1, <2>1, <3>1 DEF IInv, TypeOK, TreeGone
    <2> QED BY <2>2, <2>3, <2>4
  <1>4. ASSUME NEW p \in Proc, Dies(p)
        PROVE  TypeOK' /\ NothingYet' /\ TreeGone'
    <2>1. Alive(p) /\ proc' = [proc EXCEPT ![p] = "dead"]
      BY <1>4 DEF Dies
    <2>2. TypeOK'
      BY <1>1, <2>1 DEF IInv, TypeOK
    <2>3. NothingYet'
      BY <1>1, <2>1 DEF IInv, TypeOK, NothingYet, Alive
    <2>4. TreeGone'
      BY <1>1, <2>1, TreeKept DEF IInv, TypeOK
    <2> QED BY <2>2, <2>3, <2>4
  <1> QED BY <1>2, <1>3, <1>4 DEF IInv

LEMMA AnswerSteps ==
  ASSUME IInv, NEW r \in Request, Answer(r) \/ TimesOut(r)
  PROVE  IInv'
  <1>1. PICK result \in {"ok", "failed"} : Settles(r, result)
    BY DEF Answer, TimesOut
  <1> USE <1>1 DEF Settles
  <1>2. queue' \in [open : BOOLEAN, error : BOOLEAN]
    BY DEF ClosedBy, IInv, TypeOK
  <1>3. req' \in Reqs /\ Onward(req') /\ \A q \in Request : req'[q] = "pending" => req[q] = "pending"
    BY DEF IInv, TypeOK, Reqs, Onward
  <1>4. TypeOK'
    BY <1>2, <1>3 DEF IInv, TypeOK, Reqs
  <1>5. NothingYet' /\ (req["prompt"] = "unsent" => req'["prompt"] = "unsent")
    BY RequestNames DEF IInv, TypeOK, NothingYet
  <1>6. FailureTold'
    BY <1>3, <1>5, FailureKept DEF Told
  <1>7. TreeGone'
    BY TreeKept
  <1> QED BY <1>4, <1>5, <1>6, <1>7 DEF IInv

LEMMA SigKilledFacts ==
  ASSUME TypeOK, NEW ps \in SUBSET Proc
  PROVE  /\ SigKilled(ps) \in [Proc -> {"unborn", "alive", "doomed", "dead"}]
         /\ \A p \in Proc : /\ proc[p] # "unborn" => SigKilled(ps)[p] # "unborn"
                            /\ proc[p] = "unborn" => SigKilled(ps)[p] = "unborn"
                            /\ proc[p] = "dead" => SigKilled(ps)[p] = "dead"
                            /\ proc[p] # "alive" => SigKilled(ps)[p] # "alive"
         /\ \A p \in ps : SigKilled(ps)[p] # "alive"
  BY DEF SigKilled, TypeOK, Alive

LEMMA StopStepsHold ==
  ASSUME IInv, StopSteps
  PROVE  IInv'
  <1>1. /\ UNCHANGED <<kind, client, req, aborted, queue, turn>>
        /\ stop.at \in {"abort", "end", "term", "kill", "sweep", "resweep"}
    BY DEF StopSteps, StopAsked, StopTerms, StopKills, StopKilled, StopSweeps
  <1>2. FailureTold'
    BY <1>1 DEF IInv, FailureTold, Told
  <1>3. turn.at # "new" /\ turn.at # "done"
    BY <1>1 DEF IInv, NothingYet, TreeGone
  <1>4. NothingYet'
    BY <1>1, <1>3 DEF NothingYet
  <1>5. stop \in Stops
    BY DEF IInv, TypeOK, Stops
  <1>6. ASSUME stop' \in Stops, TreeGone',
               proc' \in [Proc -> {"unborn", "alive", "doomed", "dead"}]
        PROVE  IInv'
    BY <1>1, <1>2, <1>4, <1>6 DEF IInv, TypeOK, Stops
  <1>7. ASSUME NEW ps \in SUBSET Proc, ~Leftover(ps), \A p \in ps : proc[p] # "unborn"
        PROVE  \A p \in ps : proc[p] = "dead"
    BY <1>7 DEF Leftover, AnyAlive, Alive, IInv, TypeOK
  <1>8. CASE StopAsked
    <2>1. stop' \in Stops /\ stop'.at = "end" /\ stop'.tree = stop.tree /\ proc' = proc
      BY <1>5, <1>8 DEF StopAsked, Stops
    <2> QED BY <1>1, <1>3, <1>6, <2>1 DEF IInv, TypeOK, TreeGone
  <1>9. CASE StopTerms
    <2> DEFINE tree == stop.tree \cup ProcessTree
    <2>1. /\ tree \in SUBSET Proc /\ (tree # {} => Root \in tree)
          /\ \A p \in tree : proc[p] # "unborn"
      BY <1>5, TreeFacts DEF IInv, TreeGone, Stops
    <2>2. stop' = [at |-> IF Leftover(tree) THEN "term" ELSE "sweep", tree |-> tree] /\ proc' = proc
      BY <1>9 DEF StopTerms
    <2> HIDE DEF tree
    <2>3. stop' \in Stops /\ stop'.tree = tree
          /\ stop'.at = (IF Leftover(tree) THEN "term" ELSE "sweep")
      BY <2>1, <2>2 DEF Stops
    <2>4. stop'.at # "term" => \A p \in tree : proc[p] = "dead"
      BY <1>7, <2>1, <2>3
    <2>5. TreeGone'
      BY <1>1, <1>3, <2>1, <2>2, <2>3, <2>4 DEF TreeGone
    <2> QED BY <1>6, <2>2, <2>3, <2>5 DEF IInv, TypeOK
  <1>10. CASE StopKills
    <2>1. CASE Leftover(stop.tree)
      <3>1. stop.tree \cup ProcessTree \in SUBSET Proc
        BY <1>5, TreeFacts DEF IInv, Stops
      <3>2. stop' \in Stops /\ stop'.at = "kill" /\ stop'.tree = stop.tree
        BY <1>5, <1>10, <2>1 DEF StopKills, Stops
      <3>3. /\ proc' \in [Proc -> {"unborn", "alive", "doomed", "dead"}]
            /\ \A p \in Proc : proc[p] # "unborn" => proc'[p] # "unborn"
        BY <1>10, <2>1, <3>1, SigKilledFacts DEF StopKills, IInv
      <3>4. TreeGone'
        BY <1>1, <1>3, <1>5, <3>2, <3>3 DEF IInv, TreeGone, Stops
      <3> QED BY <1>6, <3>2, <3>3, <3>4
    <2>2. CASE ~Leftover(stop.tree)
      <3>1. stop' \in Stops /\ stop'.at = "sweep" /\ stop'.tree = stop.tree /\ proc' = proc
        BY <1>5, <1>10, <2>2 DEF StopKills, Stops
      <3>2. \A p \in stop.tree : proc[p] = "dead"
        BY <1>5, <1>7, <2>2 DEF Stops, IInv, TreeGone
      <3> QED BY <1>1, <1>3, <1>6, <3>1, <3>2 DEF IInv, TypeOK, TreeGone
    <2> QED BY <2>1, <2>2
  <1>11. CASE StopKilled
    <2>1. stop' \in Stops /\ stop'.at = "sweep" /\ stop'.tree = stop.tree /\ proc' = proc
      BY <1>5, <1>11 DEF StopKilled, Stops
    <2>2. \A p \in stop.tree : proc[p] = "dead"
      BY <1>5, <1>7, <1>11 DEF StopKilled, Leftover, Stops, IInv, TreeGone
    <2> QED BY <1>1, <1>3, <1>6, <2>1, <2>2 DEF IInv, TypeOK, TreeGone
  <1>12. CASE StopSweeps
    <2>1. Stragglers \in SUBSET Proc
      BY TreeFacts DEF Stragglers, IInv
    <2>2. stop' \in Stops /\ stop'.tree = stop.tree /\ stop'.at \in {"resweep", "done"}
      BY <1>5, <1>12 DEF StopSweeps, Stops
    <2>3. stop.tree # {} => \A w \in Grouped : proc[w] = "alive" => w \in Stragglers
      BY TreeFacts DEF Stragglers, Alive, IInv, TreeGone, Worker
    <2>4. /\ proc' \in [Proc -> {"unborn", "alive", "doomed", "dead"}]
          /\ \A p \in Proc : /\ proc[p] # "unborn" => proc'[p] # "unborn"
                             /\ proc[p] = "dead" => proc'[p] = "dead"
                             /\ proc[p] # "alive" => proc'[p] # "alive"
          /\ \A p \in Stragglers : proc'[p] # "alive"
      BY <1>12, <2>1, SigKilledFacts DEF StopSweeps, IInv, TypeOK
    <2>5. TreeGone'
      BY <1>1, <1>3, <1>5, <1>12, <2>2, <2>3, <2>4
         DEF StopSweeps, IInv, TreeGone, Stops, Proc, Worker
    <2> QED BY <1>6, <2>2, <2>4, <2>5
  <1> QED BY <1>8, <1>9, <1>10, <1>11, <1>12 DEF StopSteps

LEMMA ExitStep ==
  ASSUME IInv, ExitSeen
  PROVE  IInv'
  <1> USE DEF ExitSeen
  <1>1. turn.at # "new"
    BY DEF IInv, NothingYet
  <1>2. req' \in Reqs /\ Onward(req') /\ (\A r \in Request : req'[r] # "pending")
        /\ (req["prompt"] = "unsent" => req'["prompt"] = "unsent")
    BY FailAllOnward, RequestNames DEF IInv, TypeOK, Reqs, Onward
  <1>3. client' \in [failure : BOOLEAN, exit : BOOLEAN]
        /\ queue' \in [open : BOOLEAN, error : BOOLEAN]
    BY DEF IInv, TypeOK
  <1>4. TypeOK'
    BY <1>2, <1>3 DEF IInv, TypeOK, Reqs
  <1>5. NothingYet'
    BY <1>1 DEF NothingYet
  <1>6. FailureTold'
    BY <1>2, FailureKept DEF Told
  <1>7. TreeGone'
    BY TreeKept
  <1> QED BY <1>4, <1>5, <1>6, <1>7 DEF IInv

Turns ==
  [at : {"new", "probe", "drain", "prompt", "after", "stats", "settle", "done"},
   ended : BOOLEAN, own : BOOLEAN, erred : BOOLEAN]

LEMMA HearSteps ==
  ASSUME IInv, Hear
  PROVE  IInv'
  <1>1. CASE ErrorEvent \/ EndEvent \/ MessageEnd
    <2>1. UNCHANGED <<kind, proc, client, req, stop, aborted>>
      BY <1>1 DEF ErrorEvent, EndEvent, MessageEnd
    <2>2. turn \in Turns /\ queue \in [open : BOOLEAN, error : BOOLEAN]
      BY DEF IInv, TypeOK, Turns
    <2>3. turn' \in Turns /\ turn'.at = turn.at /\ turn'.erred = turn.erred
          /\ queue' \in [open : BOOLEAN, error : BOOLEAN]
      <3>1. CASE ErrorEvent
        BY <2>2, <3>1 DEF ErrorEvent, Turns
      <3>2. CASE EndEvent
        <4>1. PICK own \in {turn.own, kind = "dsh"} :
                turn' = [turn EXCEPT !.ended = TRUE, !.own = own]
          BY <3>2 DEF EndEvent
        <4>2. own \in BOOLEAN
          BY <2>2, <4>1 DEF Turns
        <4> QED BY <2>2, <3>2, <4>1, <4>2 DEF EndEvent, Turns
      <3>3. CASE MessageEnd
        BY <2>2, <3>3 DEF MessageEnd, Turns
      <3> QED BY <1>1, <3>1, <3>2, <3>3
    <2>4. TypeOK'
      BY <2>1, <2>3 DEF IInv, TypeOK, Turns
    <2>5. NothingYet'
      BY <2>1, <2>3 DEF IInv, NothingYet
    <2>6. FailureTold'
      BY <2>1, <2>3 DEF IInv, FailureTold, Told
    <2>7. TreeGone'
      BY <2>1, <2>3, TreeKept
    <2> QED BY <2>4, <2>5, <2>6, <2>7 DEF IInv
  <1>2. CASE ProtocolFailure
    <2> USE <1>2 DEF ProtocolFailure
    <2>1. FailAll(req) \in Reqs /\ (\A r \in Request : FailAll(req)[r] # "pending")
          /\ (\A r \in Request : req[r] # "pending" => FailAll(req)[r] = req[r])
      BY FailAllOnward DEF IInv, TypeOK, Reqs
    <2>2. /\ stop' \in Stops /\ TreeGone' /\ req' \in Reqs
          /\ \A q \in Request \ {"abort"} : req'[q] = FailAll(req)[q]
          /\ client.exit => req'["abort"] # "pending"
      BY <2>1, StopBeginsFacts, RequestNames
    <2>3. client' \in [failure : BOOLEAN, exit : BOOLEAN] /\ client'.exit = client.exit
      BY DEF IInv, TypeOK
    <2>4. queue' \in [open : BOOLEAN, error : BOOLEAN]
      BY DEF ClosedBy, IInv, TypeOK
    <2>5. TypeOK'
      BY <2>1, <2>2, <2>3, <2>4, RequestNames DEF IInv, TypeOK, Stops, Reqs
    <2>6. NothingYet'
      BY DEF IInv, NothingYet
    <2>7. /\ req["prompt"] \in {"unsent", "ok", "failed"} => req'["prompt"] = req["prompt"]
          /\ req["probe"] = "ok" => req'["probe"] = "ok"
      BY <2>1, <2>2, RequestNames
    <2>8. FailureTold'
      BY <2>7 DEF IInv, FailureTold, Told, Over
    <2> QED BY <2>2, <2>5, <2>6, <2>8 DEF IInv
  <1> QED BY <1>1, <1>2 DEF Hear

LEMMA AbortStep ==
  ASSUME IInv, Abort
  PROVE  IInv'
  <1> USE DEF Abort
  <1>1. CASE turn.at = "new"
    BY <1>1, TreeKept DEF IInv, TypeOK, NothingYet, FailureTold, Told
  <1>2. CASE turn.at # "new"
    <2>1. req \in Reqs /\ client.failure \in BOOLEAN
          /\ (client.exit => \A r \in Request : req[r] # "pending")
      BY DEF IInv, TypeOK, Reqs
    <2>2. /\ stop' \in Stops /\ TreeGone' /\ req' \in Reqs
          /\ \A q \in Request \ {"abort"} : req'[q] = req[q]
          /\ client.exit => req'["abort"] # "pending"
      BY <1>2, <2>1, StopBeginsFacts, RequestNames
    <2>3. TypeOK'
      BY <2>1, <2>2, RequestNames DEF IInv, TypeOK, Stops, Reqs
    <2>4. NothingYet'
      BY <1>2 DEF NothingYet
    <2>5. req'["prompt"] = req["prompt"] /\ req'["probe"] = req["probe"]
      BY <2>2, RequestNames
    <2>6. FailureTold'
      BY <2>5 DEF IInv, FailureTold, Told, Over
    <2> QED BY <2>2, <2>3, <2>4, <2>6 DEF IInv
  <1> QED BY <1>1, <1>2

LEMMA LaunchStep ==
  ASSUME IInv, Launch
  PROVE  IInv'
  <1> USE DEF Launch
  <1>1. /\ proc[Root] = "unborn" /\ ~client.exit /\ stop.at = "none" /\ stop.tree = {}
        /\ req["prompt"] = "unsent"
    BY RequestNames DEF IInv, NothingYet, TreeGone
  <1>2. turn' \in Turns /\ turn'.at \in {"drain", "probe"} /\ turn'.erred = turn.erred
        /\ (turn'.at = "probe" <=> kind # "prime")
    BY DEF IInv, TypeOK, Turns
  <1>3. PICK spawned \in BOOLEAN :
          /\ proc' = IF spawned THEN [proc EXCEPT ![Root] = "alive"] ELSE proc
          /\ LET first == [req EXCEPT !["probe"] = "pending"]
                 tree == IF spawned THEN {Root} ELSE {}
             IN  IF aborted
                 THEN /\ stop' = [at |-> IF kind = "prime" THEN "abort" ELSE "term", tree |-> tree]
                      /\ req' = IF kind = "prime" THEN [first EXCEPT !["abort"] = "pending"]
                                ELSE first
                 ELSE req' = first /\ UNCHANGED stop
    OBVIOUS
  <1>4. proc' \in [Proc -> {"unborn", "alive", "doomed", "dead"}]
        /\ (spawned => proc'[Root] = "alive")
    BY <1>3 DEF IInv, TypeOK, Proc
  <1>5. req' \in Reqs /\ req'["prompt"] = "unsent"
    BY <1>1, <1>3, RequestNames DEF IInv, TypeOK, Reqs
  <1>6. /\ stop' \in Stops /\ stop'.at \in {"none", "abort", "term"}
        /\ stop'.tree = {} \/ (spawned /\ stop'.tree = {Root})
    BY <1>1, <1>3 DEF IInv, TypeOK, Stops, Proc
  <1>7. TypeOK'
    BY <1>1, <1>2, <1>4, <1>5, <1>6 DEF IInv, TypeOK, Turns, Stops, Reqs
  <1>8. NothingYet'
    BY <1>2 DEF NothingYet
  <1>9. FailureTold'
    BY <1>2, <1>5 DEF FailureTold, Over
  <1>10. TreeGone'
    BY <1>2, <1>4, <1>6 DEF TreeGone
  <1> QED BY <1>7, <1>8, <1>9, <1>10 DEF IInv

LEMMA PromptSteps ==
  ASSUME IInv, PromptAfterProbe \/ Initialized
  PROVE  IInv'
  <1>1. /\ SendPrompt /\ req["prompt"] = "unsent" /\ turn.at \notin Over \cup {"new"}
        /\ turn' \in Turns /\ turn'.erred = turn.erred
        /\ turn'.at = turn.at \/ turn'.at = "drain"
        /\ kind = "dsh" => turn'.at = "drain" /\ req["probe"] = "ok"
    <2>1. CASE PromptAfterProbe
      BY <2>1, RequestNames
         DEF PromptAfterProbe, IInv, TypeOK, NothingYet, FailureTold, Turns, Over
    <2>2. CASE Initialized
      BY <2>2, RequestNames
         DEF Initialized, IInv, TypeOK, NothingYet, FailureTold, Turns, Over
    <2> QED BY <2>1, <2>2
  <1>2. UNCHANGED <<kind, proc, client, stop, aborted>>
    BY <1>1 DEF SendPrompt
  <1>3. /\ req' \in Reqs /\ \A q \in Request \ {"prompt"} : req'[q] = req[q]
        /\ client.exit => req'["prompt"] # "pending"
    BY <1>1, SentOnward, RequestNames DEF SendPrompt, IInv, TypeOK, Reqs
  <1>4. queue' \in [open : BOOLEAN, error : BOOLEAN]
    BY <1>1 DEF SendPrompt, ClosedBy, IInv, TypeOK
  <1>5. TypeOK'
    BY <1>1, <1>2, <1>3, <1>4, RequestNames DEF IInv, TypeOK, Turns, Reqs
  <1>6. NothingYet'
    BY <1>1 DEF NothingYet
  <1>7. FailureTold'
    BY <1>1, <1>2, <1>3, RequestNames DEF IInv, FailureTold, Over
  <1>8. TreeGone'
    BY <1>1, <1>2, TreeKept
  <1> QED BY <1>5, <1>6, <1>7, <1>8 DEF IInv

(* The steps that begin the stop before the turn is done. *)
LEMMA SettleSteps ==
  ASSUME IInv, NotInitialized \/ Settle
  PROVE  IInv'
  <1>1. /\ turn \in Turns /\ req \in Reqs /\ client.failure \in BOOLEAN
        /\ client.exit => \A r \in Request : req[r] # "pending"
    BY DEF IInv, TypeOK, Turns, Reqs
  <1>2. /\ StopBegins(req, client.failure)
        /\ UNCHANGED <<kind, proc, client, aborted, queue>>
        /\ turn' \in Turns /\ turn'.at = "settle" /\ (turn.erred => turn'.erred)
        /\ NotInitialized => turn'.erred \/ aborted
    <2>1. CASE NotInitialized
      BY <1>1, <2>1 DEF NotInitialized, Turns, IInv, TypeOK
    <2>2. CASE Settle /\ ~NotInitialized
      BY <1>1, <2>2 DEF Settle, Turns
    <2> QED BY <2>1, <2>2
  <1>3. /\ stop' \in Stops /\ TreeGone' /\ req' \in Reqs
        /\ \A q \in Request \ {"abort"} : req'[q] = req[q]
        /\ client.exit => req'["abort"] # "pending"
    BY <1>1, <1>2, StopBeginsFacts, RequestNames
  <1>4. TypeOK'
    BY <1>1, <1>2, <1>3, RequestNames DEF IInv, TypeOK, Turns, Stops, Reqs
  <1>5. NothingYet'
    BY <1>2 DEF NothingYet
  <1>6. req'["prompt"] = req["prompt"] /\ req'["probe"] = req["probe"]
    BY <1>3, RequestNames
  <1>7. FailureTold'
    <2>1. CASE NotInitialized
      BY <1>2, <1>6, <2>1 DEF NotInitialized, IInv, TypeOK, FailureTold, Told, Over
    <2>2. CASE Settle
      BY <1>2, <1>6, <2>2 DEF Settle, IInv, TypeOK, FailureTold, Told, Over
    <2> QED BY <2>1, <2>2
  <1> QED BY <1>3, <1>4, <1>5, <1>7 DEF IInv

LEMMA TurnSteps ==
  ASSUME IInv, YieldError \/ Drained \/ PromptSettled \/ AskStats \/ Done
  PROVE  IInv'
  <1>1. /\ turn \in Turns /\ req \in Reqs /\ queue \in [open : BOOLEAN, error : BOOLEAN]
        /\ aborted \in BOOLEAN /\ client.failure \in BOOLEAN
    BY DEF IInv, TypeOK, Turns, Reqs
  <1>2. /\ UNCHANGED <<kind, proc, client, stop, aborted>>
        /\ queue' \in [open : BOOLEAN, error : BOOLEAN]
        /\ turn.at # "new"
    BY <1>1 DEF YieldError, Drained, PromptSettled, AskStats, Done
  <1>3. turn' \in Turns /\ turn'.at # "new" /\ (turn.erred => turn'.erred)
    <2>1. CASE YieldError
      BY <1>1, <2>1 DEF YieldError, Turns
    <2>2. CASE Drained \/ AskStats \/ Done
      BY <1>1, <2>2 DEF Drained, AskStats, Done, Turns
    <2>3. CASE PromptSettled
      BY <1>1, <2>3 DEF PromptSettled, Turns
    <2> QED BY <2>1, <2>2, <2>3
  <1>4. /\ req' \in Reqs /\ req'["prompt"] = req["prompt"] /\ req'["probe"] = req["probe"]
        /\ client.exit => \A r \in Request : req'[r] # "pending"
    <2>1. CASE AskStats
      <3>1. /\ req' \in Reqs /\ \A q \in Request \ {"stats"} : req'[q] = req[q]
            /\ client.exit => req'["stats"] # "pending"
        BY <2>1, SentOnward, RequestNames DEF AskStats, IInv, TypeOK, Reqs
      <3>2. client.exit => \A r \in Request : req[r] # "pending"
        BY DEF IInv, TypeOK
      <3> QED BY <3>1, <3>2, RequestNames
    <2>2. CASE req' = req
      BY <1>1, <2>2 DEF IInv, TypeOK
    <2>3. AskStats \/ req' = req
      BY DEF YieldError, Drained, PromptSettled, Done
    <2> QED BY <2>1, <2>2, <2>3
  <1>5. TypeOK'
    BY <1>2, <1>3, <1>4 DEF IInv, TypeOK, Turns, Reqs
  <1>6. NothingYet'
    BY <1>3 DEF NothingYet
  <1>7. FailureTold'
    <2>1. Told => Told'
      BY <1>2, <1>3 DEF Told
    <2>2. CASE YieldError \/ Drained \/ AskStats \/ Done
      <3>1. \/ turn.at = "drain" /\ turn'.at \in {"drain", "prompt"}
            \/ turn.at = "after" /\ turn'.at = "stats" /\ kind = "prime"
            \/ turn.at = "settle" /\ turn'.at = "done"
        BY <1>1, <2>2 DEF YieldError, Drained, AskStats, WantsStats, Done, Turns
      <3> QED BY <1>2, <1>4, <2>1, <3>1 DEF IInv, FailureTold, Over
    <2>3. CASE PromptSettled
      <3>1. turn.at = "prompt" /\ turn'.at = "after" /\ req["prompt"] \in {"ok", "failed"}
            /\ (req["prompt"] = "failed" => turn'.erred \/ aborted)
        BY <1>1, <2>3 DEF PromptSettled, PromptDone, Turns
      <3> QED BY <1>2, <1>4, <3>1 DEF IInv, FailureTold, Told, Over
    <2> QED BY <2>2, <2>3
  <1>8. TreeGone'
    <2>1. CASE Done
      BY <1>2, <2>1 DEF Done, Stopped, IInv, TreeGone
    <2>2. CASE YieldError \/ Drained \/ PromptSettled \/ AskStats
      <3>1. turn'.at # "done"
        BY <1>1, <2>2 DEF YieldError, Drained, PromptSettled, AskStats, Turns
      <3> QED BY <1>2, <3>1, TreeKept
    <2> QED BY <2>1, <2>2
  <1> QED BY <1>5, <1>6, <1>7, <1>8 DEF IInv

LEMMA StepHolds == IInv /\ [Next]_vars => IInv'
  <1> SUFFICES ASSUME IInv, [Next]_vars PROVE IInv'
    OBVIOUS
  <1>1. CASE UNCHANGED vars
    BY <1>1 DEF vars, IInv, TypeOK, NothingYet, FailureTold, TreeGone, Told
  <1>2. CASE Next
    BY <1>2, ProcSteps, AnswerSteps, StopStepsHold, ExitStep, HearSteps, AbortStep, LaunchStep,
       PromptSteps, SettleSteps, TurnSteps
       DEF Next, Drive
  <1> QED BY <1>1, <1>2

----------------------------------------------------------------------------
(* Theorems *)

(* The invariant holds, for any workers, either agent and any answers. *)
THEOREM Invariance == Spec => []IInv
  BY InitHolds, StepHolds, PTL DEF Spec

(* The types, and that no request is left waiting for a child that exited. *)
THEOREM TypeCorrect == Spec => []TypeOK
  <1>1. IInv => TypeOK
    BY DEF IInv
  <1> QED BY <1>1, Invariance, PTL

(* A prompt the agent did not take, or a session it could not open, was reported *)
(* when the turn is done, unless the turn was aborted.                           *)
THEOREM FailuresAreTold == Spec => []FailureIsReported
  <1>1. IInv => FailureIsReported
    BY DEF IInv, TypeOK, FailureTold, Told, Over, FailureIsReported
  <1> QED BY <1>1, Invariance, PTL

(* When the turn is done the tree its stop saw is dead, and nothing of the root's *)
(* group is left that was not killed, whatever forked meanwhile.                  *)
THEOREM TreesAreSwept == Spec => []TurnLeavesNoTree
  <1>1. IInv => TurnLeavesNoTree
    BY DEF IInv, TreeGone, TurnLeavesNoTree, AnyAlive, Alive
  <1> QED BY <1>1, Invariance, PTL
=============================================================================
