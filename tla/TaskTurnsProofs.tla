-------------------------- MODULE TaskTurnsProofs --------------------------
(*****************************************************************************)
(* TaskTurns, for every set of messages, git requests and /clear requests    *)
(* and every choice of Ops.  The inductive        *)
(* invariant IInv adds to the properties of TaskTurns what they rest on:     *)
(* who holds the lock, whose session a turn may write back, and that the     *)
(* slot stays free while a task is being removed.                            *)
(*****************************************************************************)
EXTENDS TaskTurns, SequenceTheorems, TLAPS

(* Whoever awaits git under the lock is the lock's holder. *)
LockIsHeld ==
  /\ \A m \in Msg : phase[m] \in Launching => Holds(m)
  /\ \A g \in GitOp : git[g] = "working" => Holds(g)

(* No turn that has not been stopped shares the worktree with git. *)
GitIsAlone ==
  (\E g \in GitOp : git[g] = "working") => \A m \in Msg : ~ActiveTurn(m)

(* Generations count what the clears wrote and epochs the clears, so none is ahead *)
(* of the epochs; and a turn reads its row no earlier than its generation.         *)
GenerationsLag ==
  /\ row.generation <= epoch
  /\ \A c \in Clear : cgen[c] <= epoch
  /\ \A m \in Msg : gen[m] <= epoch /\ read[m] <= epoch
  /\ \A m \in Msg : phase[m] \in Launching \cup {"streaming"} => gen[m] <= read[m]

(* What a turn of the last epoch writes back was opened in that epoch. *)
TurnSessionIsCurrent ==
  \A m \in Msg : phase[m] \in Launching \cup {"streaming"} /\ gen[m] = epoch =>
                  sess[m] \in {0, epoch}

Epochs == GenerationsLag /\ ClearedStaysCleared /\ TurnSessionIsCurrent

(* A removal starts on a free slot and keeps it free. *)
RemovalKeepsSlotFree ==
  /\ deletion = "removing" => slot = None
  /\ ~row.exists => \A m \in Msg : ~ActiveTurn(m)

Safe ==
  /\ LiveTurnIsReachable /\ SlotIsNeverOrphaned
  /\ LockIsHeld /\ GitIsAlone
  /\ RemovalKeepsSlotFree

IInv == Types /\ Safe /\ Epochs

USE NoneAssumption, ProcAssumption

----------------------------------------------------------------------------
(* Sequences: what joining and leaving a queue does to its head and type. *)

LEMMA JoinQueue ==
  ASSUME NEW S, NEW q \in Seq(S), NEW e \in S
  PROVE  /\ Append(q, e) \in Seq(S)
         /\ Append(q, e) # <<>>
         /\ q # <<>> => Head(Append(q, e)) = Head(q)
  BY AppendProperties, HeadTailProperties

LEMMA LeaveQueue ==
  ASSUME NEW S, NEW q \in Seq(S), q # <<>>
  PROVE  Head(q) \in S /\ Tail(q) \in Seq(S)
  BY HeadTailProperties

LEMMA CutQueue ==
  ASSUME NEW S, NEW q \in Seq(S), NEW i \in 1 .. Len(q)
  PROVE  Without(q, i) \in Seq(S)
  <1>1. SubSeq(q, 1, i - 1) \in Seq(S)
    BY SubSeqProperties, LenProperties
  <1>2. SubSeq(q, i + 1, Len(q)) \in Seq(S)
    BY SubSeqProperties, LenProperties
  <1> QED BY <1>1, <1>2, ConcatProperties DEF Without

LEMMA QueueFacts ==
  ASSUME Types
  PROVE  /\ \A p \in Msg \cup GitOp :
              /\ Append(lock, p) \in Seq(Msg \cup GitOp)
              /\ Append(lock, p) # <<>>
              /\ lock # <<>> => Head(Append(lock, p)) = Head(lock)
         /\ lock # <<>> => Tail(lock) \in Seq(Msg \cup GitOp)
         /\ \A p \in Msg : Append(pending, p) \in Seq(Msg)
         /\ pending # <<>> => Head(pending) \in Msg /\ Tail(pending) \in Seq(Msg)
         /\ \A i \in 1 .. Len(pending) : Without(pending, i) \in Seq(Msg)
         /\ <<>> \in Seq(Msg) /\ <<>> \in Seq(Msg \cup GitOp)
  BY JoinQueue, LeaveQueue, CutQueue, EmptySeq DEF Types

----------------------------------------------------------------------------
(* Type correctness.  Only the holder leaves the lock, which is why LockIsHeld *)
(* is needed to see that Tail is applied to a queue that is not empty.         *)

LEMMA TypeInit == Init => Types
  BY EmptySeq DEF Init, Types, Row, Phase, ClearPhase

LEMMA TypeStep ==
  ASSUME IInv, [Next]_vars
  PROVE  Types'
  <1> USE QueueFacts
      DEF IInv, Types, Phase, ClearPhase, Row, ReadRow, PopPending, Goto, Unregister,
          ReleaseLock, AwaitLock, Holds, turnVars, clearVars
  <1>1. ASSUME NEW m \in Msg, PostArrive(m) PROVE Types'
    BY <1>1 DEF PostArrive
  <1>2. ASSUME NEW m \in Msg, PostClaim(m) PROVE Types'
    BY <1>2 DEF PostClaim, ClaimTurn
  <1>3. ASSUME NEW m \in Msg, PostQueue(m) PROVE Types'
    BY <1>3 DEF PostQueue
  <1>4. ASSUME NEW m \in Msg, PostReject(m) PROVE Types'
    BY <1>4 DEF PostReject
  <1>5. ASSUME NEW m \in Msg, PostRefuse(m) PROVE Types'
    BY <1>5 DEF PostRefuse
  <1>6. ASSUME NEW m \in Msg, PostPrepare(m) PROVE Types'
    BY <1>6 DEF PostPrepare
  <1>7. ASSUME NEW m \in Msg, Launch(m) PROVE Types'
    BY <1>7 DEF Launch, Safe, LockIsHeld, Launching
  <1>8. ASSUME NEW m \in Msg, PostFail(m) PROVE Types'
    BY <1>8 DEF PostFail, Safe, LockIsHeld, Launching
  <1>9. ASSUME NEW m \in Msg, RunSession(m) PROVE Types'
    BY <1>9 DEF RunSession
  <1>10. ASSUME NEW m \in Msg, RunSuperseded(m) PROVE Types'
    BY <1>10 DEF RunSuperseded
  <1>11. ASSUME NEW m \in Msg, RunDiscards(m) PROVE Types'
    BY <1>11 DEF RunDiscards, SettleRow, ClearPending, DropQueued
  <1>12. ASSUME NEW m \in Msg, RunParks(m) PROVE Types'
    BY <1>12 DEF RunParks, SettleRow
  <1>13. ASSUME NEW m \in Msg, RunEnds(m) PROVE Types'
    BY <1>13 DEF RunEnds, SettleRow
  <1>14. ASSUME NEW m \in Msg, RunHandsOff(m) PROVE Types'
    BY <1>14 DEF RunHandsOff, PopPending, SettleRow, CanHandOff
  <1>15. ASSUME NEW m \in Msg, DrainDrop(m) PROVE Types'
    BY <1>15 DEF DrainDrop
  <1>16. ASSUME NEW m \in Msg, DrainResume(m) PROVE Types'
    BY <1>16 DEF DrainResume
  <1>17. ASSUME NEW m \in Msg, DrainFail(m) PROVE Types'
    BY <1>17 DEF DrainFail, Safe, LockIsHeld, Launching
  <1>18. ASSUME NEW m \in Msg, Unqueue(m) PROVE Types'
    <2>1. PICK i \in 1 .. Len(pending) : pending' = Without(pending, i)
      BY <1>18 DEF Unqueue
    <2>2. pending' \in Seq(Msg)
      BY <2>1
    <2> QED BY <1>18, <2>2 DEF Unqueue
  <1>19. ASSUME NEW g \in GitOp, GitBegin(g) PROVE Types'
    BY <1>19 DEF GitBegin
  <1>20. ASSUME NEW g \in GitOp, GitWork(g) PROVE Types'
    BY <1>20 DEF GitWork
  <1>21. ASSUME NEW g \in GitOp, GitRefuse(g) PROVE Types'
    BY <1>21 DEF GitRefuse
  <1>22. ASSUME NEW g \in GitOp, GitEnd(g) PROVE Types'
    BY <1>22 DEF GitEnd, Safe, LockIsHeld
  <1>23. ASSUME NEW c \in Clear, ClearAbort(c) PROVE Types'
    BY <1>23 DEF ClearAbort, AbortTurn, TripOwner
  <1>40. ASSUME NEW c \in Clear, ClearArrive(c) PROVE Types'
    BY <1>40 DEF ClearArrive
  <1>41. ASSUME NEW c \in Clear, ClearRefuse(c) PROVE Types'
    BY <1>41 DEF ClearRefuse
  <1>24. ASSUME NEW c \in Clear, ClearEnd(c) PROVE Types'
    <2>1. CASE row.exists
      <3>1. cgen[c] + 1 \in Nat /\ epoch + 1 \in Nat
        OBVIOUS
      <3>2. FreshGeneration(cgen[c]) \in Row
        BY <3>1 DEF FreshGeneration
      <3> QED BY <1>24, <2>1, <3>1, <3>2 DEF ClearEnd, ClearPending, DropQueued
    <2>2. CASE ~row.exists
      BY <1>24, <2>2 DEF ClearEnd
    <2> QED BY <2>1, <2>2
  <1>25. CASE Stop
    BY <1>25 DEF Stop, AbortTurn, TripOwner, ClearPending, DropQueued
  <1>26. CASE Cancel
    BY <1>26 DEF Cancel, AbortTurn, TripOwner
  <1>27. CASE DeleteBegin
    BY <1>27 DEF DeleteBegin, TripOwner
  <1>28. CASE DeleteSettled
    BY <1>28 DEF DeleteSettled
  <1>29. CASE DeleteTimeout
    BY <1>29 DEF DeleteTimeout
  <1>30. CASE DeleteFinish
    BY <1>30 DEF DeleteFinish, ClearPending, DropQueued
  <1>31. CASE Restart
    <2>1. row' \in Row
      BY <1>31 DEF Restart
    <2>3. clear' \in [Clear -> ClearPhase]
      BY <1>31 DEF Restart
    <2>2. phase' \in [Msg -> Phase] /\ git' \in [GitOp -> {"idle", "waiting", "working"}]
      BY <1>31 DEF Restart
    <2> QED BY <1>31, <2>1, <2>2, <2>3 DEF Restart
  <1>32. CASE UNCHANGED vars
    BY <1>32 DEF vars, turnVars, clearVars
  <1> QED
    BY <1>1, <1>2, <1>3, <1>4, <1>5, <1>6, <1>7, <1>8, <1>9, <1>10, <1>11,
       <1>12, <1>13, <1>14, <1>15, <1>16, <1>17, <1>18, <1>19, <1>20, <1>21, <1>22,
       <1>23, <1>40, <1>41, <1>24, <1>25, <1>26, <1>27, <1>28, <1>29, <1>30, <1>31, <1>32
    DEF Next, Post, Run, RunFinish, Drain, GitStep, ClearStep, Delete

----------------------------------------------------------------------------
(* The slot, the lock, the sessions and the removal.  What carries the proof: *)
(*   - PostClaim and GitWork find the slot free, and then no live turn is     *)
(*     unstopped; PostPrepare and GitWork hold the lock, and so nobody else   *)
(*     launches or works;                                                     *)
(*   - Unregister touches the slot only of its own controller;                *)
(*   - SettleRow writes a session only into the generation it was opened in;  *)
(*   - nothing claims a slot, or is handed one, while the task is deleted.    *)

LEMMA SafeInit == Init => Safe
  BY DEF Init, Safe, LiveTurnIsReachable, SlotIsNeverOrphaned, HasTurn, Live, LivePhase,
         Launching, LockIsHeld, GitIsAlone, ActiveTurn,
         RemovalKeepsSlotFree

LEMMA SafeStep ==
  ASSUME IInv, [Next]_vars
  PROVE  Safe'
  <1> USE QueueFacts
      DEF IInv, Types, Phase, Row, Safe, LiveTurnIsReachable, SlotIsNeverOrphaned,
          LockIsHeld, GitIsAlone,
          RemovalKeepsSlotFree, Live, LivePhase, Launching, ActiveTurn, HasTurn,
          Deleting, Superseded, GenerationAdvanced, DrainStale, GitBusy,
          Goto, Unregister, ReleaseLock, AwaitLock, Holds, turnVars, clearVars
  <1>1. ASSUME NEW m \in Msg, PostArrive(m) PROVE Safe'
    BY <1>1 DEF PostArrive
  <1>2. ASSUME NEW m \in Msg, PostClaim(m) PROVE Safe'
    <2>1. /\ slot = None /\ slot' = m /\ deletion = "idle"
          /\ phase' = [phase EXCEPT ![m] = "claimed"] /\ lock' = Append(lock, m)
          /\ UNCHANGED <<row, deletion, aborted, git>>
      BY <1>2 DEF PostClaim, ClaimTurn
    <2>2. \A n \in Msg : Live(n) => aborted[n]
      BY <2>1
    <2>3. LiveTurnIsReachable' /\ SlotIsNeverOrphaned'
      BY <2>1, <2>2
    <2>4. LockIsHeld'
      BY <2>1
    <2>5. GitIsAlone' /\ RemovalKeepsSlotFree'
      BY <2>1, <2>2
    <2> QED BY <2>3, <2>4, <2>5
  <1>3. ASSUME NEW m \in Msg, PostQueue(m) PROVE Safe'
    BY <1>3 DEF PostQueue
  <1>4. ASSUME NEW m \in Msg, PostReject(m) PROVE Safe'
    BY <1>4 DEF PostReject
  <1>5. ASSUME NEW m \in Msg, PostRefuse(m) PROVE Safe'
    BY <1>5 DEF PostRefuse
  <1>6. ASSUME NEW m \in Msg, PostPrepare(m) PROVE Safe'
    BY <1>6 DEF PostPrepare
  <1>7. ASSUME NEW m \in Msg, Launch(m) PROVE Safe'
    BY <1>7 DEF Launch
  <1>8. ASSUME NEW m \in Msg, PostFail(m) PROVE Safe'
    BY <1>8 DEF PostFail
  <1>9. ASSUME NEW m \in Msg, RunSession(m) PROVE Safe'
    BY <1>9 DEF RunSession
  <1>10. ASSUME NEW m \in Msg, RunSuperseded(m) PROVE Safe'
    BY <1>10 DEF RunSuperseded
  <1>11. ASSUME NEW m \in Msg, RunDiscards(m) PROVE Safe'
    BY <1>11 DEF RunDiscards, SettleRow, ClearPending, DropQueued
  <1>12. ASSUME NEW m \in Msg, RunParks(m) PROVE Safe'
    BY <1>12 DEF RunParks, SettleRow
  <1>13. ASSUME NEW m \in Msg, RunEnds(m) PROVE Safe'
    BY <1>13 DEF RunEnds, SettleRow
  <1>14. ASSUME NEW m \in Msg, RunHandsOff(m) PROVE Safe'
    BY <1>14 DEF RunHandsOff, PopPending, SettleRow, CanHandOff
  <1>15. ASSUME NEW m \in Msg, DrainDrop(m) PROVE Safe'
    BY <1>15 DEF DrainDrop
  <1>16. ASSUME NEW m \in Msg, DrainResume(m) PROVE Safe'
    BY <1>16 DEF DrainResume
  <1>17. ASSUME NEW m \in Msg, DrainFail(m) PROVE Safe'
    BY <1>17 DEF DrainFail
  <1>18. ASSUME NEW m \in Msg, Unqueue(m) PROVE Safe'
    BY <1>18 DEF Unqueue
  <1>19. ASSUME NEW g \in GitOp, GitBegin(g) PROVE Safe'
    BY <1>19 DEF GitBegin
  <1>20. ASSUME NEW g \in GitOp, GitWork(g) PROVE Safe'
    BY <1>20 DEF GitWork
  <1>21. ASSUME NEW g \in GitOp, GitRefuse(g) PROVE Safe'
    BY <1>21 DEF GitRefuse
  <1>22. ASSUME NEW g \in GitOp, GitEnd(g) PROVE Safe'
    BY <1>22 DEF GitEnd
  <1>23. ASSUME NEW c \in Clear, ClearAbort(c) PROVE Safe'
    BY <1>23 DEF ClearAbort, AbortTurn, TripOwner
  <1>40. ASSUME NEW c \in Clear, ClearArrive(c) PROVE Safe'
    BY <1>40 DEF ClearArrive
  <1>41. ASSUME NEW c \in Clear, ClearRefuse(c) PROVE Safe'
    BY <1>41 DEF ClearRefuse
  <1>24. ASSUME NEW c \in Clear, ClearEnd(c) PROVE Safe'
    <2>1. CASE row.exists
      <3>1. /\ row' = FreshGeneration(cgen[c])
            /\ phase' = DropQueued(phase)
            /\ UNCHANGED <<slot, deletion, lock, aborted, gen, sess, git>>
        BY <1>24, <2>1 DEF ClearEnd, ClearPending
      <3>2. row'.exists
        BY <3>1, <2>1 DEF FreshGeneration
      <3> QED BY <3>1, <3>2 DEF DropQueued
    <2>2. CASE ~row.exists
      BY <1>24, <2>2 DEF ClearEnd
    <2> QED BY <2>1, <2>2
  <1>25. CASE Stop
    BY <1>25 DEF Stop, AbortTurn, TripOwner, ClearPending, DropQueued
  <1>26. CASE Cancel
    BY <1>26 DEF Cancel, AbortTurn, TripOwner
  <1>27. CASE DeleteBegin
    BY <1>27 DEF DeleteBegin, TripOwner
  <1>28. CASE DeleteSettled
    BY <1>28 DEF DeleteSettled
  <1>29. CASE DeleteTimeout
    BY <1>29 DEF DeleteTimeout
  <1>30. CASE DeleteFinish
    BY <1>30 DEF DeleteFinish, ClearPending, DropQueued
  <1>31. CASE Restart
    BY <1>31 DEF Restart
  <1>32. CASE UNCHANGED vars
    BY <1>32 DEF vars, turnVars, clearVars
  <1> QED
    BY <1>1, <1>2, <1>3, <1>4, <1>5, <1>6, <1>7, <1>8, <1>9, <1>10, <1>11,
       <1>12, <1>13, <1>14, <1>15, <1>16, <1>17, <1>18, <1>19, <1>20, <1>21, <1>22,
       <1>23, <1>40, <1>41, <1>24, <1>25, <1>26, <1>27, <1>28, <1>29, <1>30, <1>31, <1>32
    DEF Next, Post, Run, RunFinish, Drain, GitStep, ClearStep, Delete


----------------------------------------------------------------------------
(* Epochs: a clear opens one in which no turn has read its row yet, and a turn *)
(* settles its session only into the generation it captured.                   *)

LEMMA EpochInit == Init => Epochs
  BY DEF Init, Epochs, GenerationsLag, ClearedStaysCleared, TurnSessionIsCurrent, Launching

LEMMA EpochStep ==
  ASSUME IInv, [Next]_vars
  PROVE  Epochs'
  <1> USE DEF IInv, Types, Phase, ClearPhase, Row, Epochs, GenerationsLag,
              ClearedStaysCleared, TurnSessionIsCurrent, Launching, GenerationAdvanced,
              Goto, turnVars, clearVars
  <1>1. ASSUME NEW m \in Msg, PostArrive(m) PROVE Epochs'
    BY <1>1 DEF PostArrive
  <1>2. ASSUME NEW m \in Msg, PostClaim(m) PROVE Epochs'
    BY <1>2 DEF PostClaim
  <1>3. ASSUME NEW m \in Msg, PostQueue(m) PROVE Epochs'
    BY <1>3 DEF PostQueue
  <1>4. ASSUME NEW m \in Msg, PostReject(m) PROVE Epochs'
    BY <1>4 DEF PostReject
  <1>5. ASSUME NEW m \in Msg, PostRefuse(m) PROVE Epochs'
    BY <1>5 DEF PostRefuse
  <1>6. ASSUME NEW m \in Msg, PostPrepare(m) PROVE Epochs'
    BY <1>6 DEF PostPrepare, ReadRow
  <1>7. ASSUME NEW m \in Msg, Launch(m) PROVE Epochs'
    BY <1>7 DEF Launch
  <1>8. ASSUME NEW m \in Msg, PostFail(m) PROVE Epochs'
    BY <1>8 DEF PostFail
  <1>9. ASSUME NEW m \in Msg, RunSession(m) PROVE Epochs'
    BY <1>9 DEF RunSession
  <1>10. ASSUME NEW m \in Msg, RunSuperseded(m) PROVE Epochs'
    BY <1>10 DEF RunSuperseded
  <1>11. ASSUME NEW m \in Msg, RunDiscards(m) PROVE Epochs'
    BY <1>11 DEF RunDiscards, SettleRow, ClearPending, DropQueued
  <1>12. ASSUME NEW m \in Msg, RunParks(m) PROVE Epochs'
    BY <1>12 DEF RunParks, SettleRow
  <1>13. ASSUME NEW m \in Msg, RunEnds(m) PROVE Epochs'
    BY <1>13 DEF RunEnds, SettleRow
  <1>14. ASSUME NEW m \in Msg, RunHandsOff(m) PROVE Epochs'
    BY <1>14 DEF RunHandsOff, PopPending, SettleRow
  <1>15. ASSUME NEW m \in Msg, DrainDrop(m) PROVE Epochs'
    BY <1>15 DEF DrainDrop
  <1>16. ASSUME NEW m \in Msg, DrainResume(m) PROVE Epochs'
    BY <1>16 DEF DrainResume, ReadRow, DrainStale
  <1>17. ASSUME NEW m \in Msg, DrainFail(m) PROVE Epochs'
    BY <1>17 DEF DrainFail
  <1>18. ASSUME NEW m \in Msg, Unqueue(m) PROVE Epochs'
    BY <1>18 DEF Unqueue
  <1>19. ASSUME NEW g \in GitOp, GitBegin(g) PROVE Epochs'
    BY <1>19 DEF GitBegin
  <1>20. ASSUME NEW g \in GitOp, GitWork(g) PROVE Epochs'
    BY <1>20 DEF GitWork
  <1>21. ASSUME NEW g \in GitOp, GitRefuse(g) PROVE Epochs'
    BY <1>21 DEF GitRefuse
  <1>22. ASSUME NEW g \in GitOp, GitEnd(g) PROVE Epochs'
    BY <1>22 DEF GitEnd
  <1>23. ASSUME NEW c \in Clear, ClearAbort(c) PROVE Epochs'
    BY <1>23 DEF ClearAbort
  <1>40. ASSUME NEW c \in Clear, ClearArrive(c) PROVE Epochs'
    BY <1>40 DEF ClearArrive
  <1>41. ASSUME NEW c \in Clear, ClearRefuse(c) PROVE Epochs'
    BY <1>41 DEF ClearRefuse
  <1>24. ASSUME NEW c \in Clear, ClearEnd(c) PROVE Epochs'
    <2>1. CASE row.exists
      <3>1. /\ row' = FreshGeneration(cgen[c]) /\ epoch' = epoch + 1
            /\ phase' = DropQueued(phase)
            /\ UNCHANGED <<gen, sess, read, cgen>>
        BY <1>24, <2>1 DEF ClearEnd, ClearPending
      <3>2. row'.session = 0 /\ row'.generation = cgen[c] + 1
        BY <3>1 DEF FreshGeneration
      <3> QED BY <3>1, <3>2 DEF DropQueued
    <2>2. CASE ~row.exists
      BY <1>24, <2>2 DEF ClearEnd
    <2> QED BY <2>1, <2>2
  <1>25. CASE Stop
    BY <1>25 DEF Stop, ClearPending, DropQueued
  <1>26. CASE Cancel
    BY <1>26 DEF Cancel
  <1>27. CASE DeleteBegin
    BY <1>27 DEF DeleteBegin
  <1>28. CASE DeleteSettled
    BY <1>28 DEF DeleteSettled
  <1>29. CASE DeleteTimeout
    BY <1>29 DEF DeleteTimeout
  <1>30. CASE DeleteFinish
    BY <1>30 DEF DeleteFinish, ClearPending, DropQueued
  <1>31. CASE Restart
    BY <1>31 DEF Restart
  <1>32. CASE UNCHANGED vars
    BY <1>32 DEF vars, turnVars, clearVars
  <1> QED
    BY <1>1, <1>2, <1>3, <1>4, <1>5, <1>6, <1>7, <1>8, <1>9, <1>10, <1>11,
       <1>12, <1>13, <1>14, <1>15, <1>16, <1>17, <1>18, <1>19, <1>20, <1>21, <1>22,
       <1>23, <1>40, <1>41, <1>24, <1>25, <1>26, <1>27, <1>28, <1>29, <1>30, <1>31, <1>32
    DEF Next, Post, Run, RunFinish, Drain, GitStep, ClearStep, Delete

----------------------------------------------------------------------------
(* Theorems. *)

(* The inductive invariant holds in every reachable state. *)
THEOREM Invariance == Spec => []IInv
  <1>1. Init => IInv
    BY TypeInit, SafeInit, EpochInit DEF IInv
  <1>2. IInv /\ [Next]_vars => IInv'
    BY TypeStep, SafeStep, EpochStep DEF IInv
  <1> QED BY <1>1, <1>2, PTL DEF Spec

(* Stop, DELETE and the merge guard can reach every turn that was not stopped *)
(* (lib/abort.ts: claimTurn, handoffTurn, unregisterTurn).                    *)
THEOREM Reachability == Spec => []LiveTurnIsReachable
  <1>1. IInv => LiveTurnIsReachable
    BY DEF IInv, Safe
  <1> QED BY <1>1, Invariance, PTL

(* Whoever occupies the slot still runs code that frees it or hands it over.   *)
THEOREM NoOrphanedSlot == Spec => []SlotIsNeverOrphaned
  <1>1. IInv => SlotIsNeverOrphaned
    BY DEF IInv, Safe
  <1> QED BY <1>1, Invariance, PTL

(* While the clears came one after the other, the row names no session that a *)
(* clear has nulled (clear/route.ts and the guard of run()'s finally).         *)
THEOREM ClearedForGood == Spec => []ClearedStaysCleared
  <1>1. IInv => ClearedStaysCleared
    BY DEF IInv, Epochs
  <1> QED BY <1>1, Invariance, PTL

(* Nothing acts on a task whose worktree is being removed or whose row is gone. *)
THEOREM QuietRemoval == Spec => []RemovedTaskIsQuiet
  <1>1. IInv => RemovedTaskIsQuiet
    <2> SUFFICES ASSUME IInv, NEW m \in Msg, ActiveTurn(m),
                        deletion = "removing" \/ ~row.exists
                 PROVE  FALSE
      BY DEF RemovedTaskIsQuiet
    <2>1. slot = m
      BY DEF IInv, Safe, LiveTurnIsReachable, ActiveTurn, Live, LivePhase
    <2>2. slot # None
      BY <2>1
    <2> QED BY <2>2 DEF IInv, Safe, RemovalKeepsSlotFree
  <1> QED BY <1>1, Invariance, PTL

(* A worktree has one user: two turns would both occupy the slot, two git    *)
(* operations would both hold the lock, and a turn beside git is excluded by *)
(* GitIsAlone.                                                               *)
LEMMA OneUser ==
  ASSUME IInv
  PROVE  WorktreeHasOneUser
  <1> SUFFICES ASSUME NEW x \in WorktreeUsers, NEW y \in WorktreeUsers
               PROVE  x = y
    BY DEF WorktreeHasOneUser
  <1> USE DEF IInv, Safe
  <1>1. CASE x \in Msg /\ y \in Msg
    BY <1>1, ProcAssumption
    DEF WorktreeUsers, LiveTurnIsReachable, ActiveTurn, Live, LivePhase
  <1>2. CASE x \in GitOp /\ y \in GitOp
    BY <1>2, ProcAssumption DEF WorktreeUsers, LockIsHeld, Holds
  <1>3. CASE (x \in Msg /\ y \in GitOp) \/ (x \in GitOp /\ y \in Msg)
    BY <1>3, ProcAssumption DEF WorktreeUsers, GitIsAlone
  <1> QED BY <1>1, <1>2, <1>3 DEF WorktreeUsers

THEOREM OneWorktreeUser == Spec => []WorktreeHasOneUser
  BY OneUser, Invariance, PTL

----------------------------------------------------------------------------
(* The refinement of WorktreeMutex. *)

(* A step after which nobody new uses the worktree is a departure or a stutter. *)
LEMMA LeaveStep ==
  ASSUME IInv, WorktreeUsers' \subseteq WorktreeUsers
  PROVE  [Worktree!Next]_WorktreeUsers
  <1>1. CASE WorktreeUsers' = {}
    BY <1>1 DEF Worktree!Next, Worktree!Leave
  <1>2. CASE WorktreeUsers' # {}
    <2>1. PICK x \in WorktreeUsers' : x \in WorktreeUsers
      BY <1>2
    <2>2. \A y \in WorktreeUsers : y = x
      BY <2>1, OneUser DEF WorktreeHasOneUser
    <2> QED BY <2>1, <2>2
  <1> QED BY <1>1, <1>2

(* A newcomer finds the worktree empty. *)
LEMMA EnterStep ==
  ASSUME NEW u \in Msg \cup GitOp, WorktreeUsers = {}, WorktreeUsers' \subseteq {u}
  PROVE  [Worktree!Next]_WorktreeUsers
  BY DEF Worktree!Next, Worktree!Enter

LEMMA WorktreeStep ==
  ASSUME IInv, [Next]_vars
  PROVE  [Worktree!Next]_WorktreeUsers
  <1> USE DEF WorktreeUsers, ActiveTurn, Launching, Goto, turnVars, clearVars
  <1> DEFINE NobodyEnters == WorktreeUsers' \subseteq WorktreeUsers
  <1> Types /\ Safe
    BY DEF IInv
  <1> phase \in [Msg -> Phase] /\ aborted \in [Msg -> BOOLEAN]
      /\ git \in [GitOp -> {"idle", "waiting", "working"}]
    BY DEF Types
  <1>1. ASSUME NEW m \in Msg, PostArrive(m) PROVE NobodyEnters
    BY <1>1 DEF PostArrive
  <1>2. ASSUME NEW m \in Msg, PostClaim(m) PROVE NobodyEnters
    BY <1>2 DEF PostClaim
  <1>3. ASSUME NEW m \in Msg, PostQueue(m) PROVE NobodyEnters
    BY <1>3 DEF PostQueue
  <1>4. ASSUME NEW m \in Msg, PostReject(m) PROVE NobodyEnters
    BY <1>4 DEF PostReject
  <1>5. ASSUME NEW m \in Msg, PostRefuse(m) PROVE NobodyEnters
    BY <1>5 DEF PostRefuse
  <1>6. ASSUME NEW m \in Msg, PostPrepare(m) PROVE [Worktree!Next]_WorktreeUsers
    <2>1. CASE aborted[m]
      <3>1. NobodyEnters
        BY <1>6, <2>1 DEF PostPrepare
      <3> QED BY <3>1, LeaveStep
    <2>2. CASE ~aborted[m]
      <3>1. slot = m /\ Holds(m)
        BY <1>6, <2>2 DEF PostPrepare, Safe, LiveTurnIsReachable, Live, LivePhase
      <3>2. \A g \in GitOp : git[g] # "working"
        BY <3>1, ProcAssumption DEF Safe, LockIsHeld, Holds
      <3>3. \A x \in Msg : ~ActiveTurn(x)
        BY <1>6, <3>1 DEF PostPrepare, Safe, LiveTurnIsReachable, Live, LivePhase
      <3>4. WorktreeUsers = {}
        BY <3>2, <3>3
      <3>5. WorktreeUsers' \subseteq {m}
        BY <1>6, <3>2, <3>3 DEF PostPrepare
      <3> QED BY <3>4, <3>5, EnterStep
    <2> QED BY <2>1, <2>2
  <1>7. ASSUME NEW m \in Msg, Launch(m) PROVE NobodyEnters
    BY <1>7 DEF Launch
  <1>8. ASSUME NEW m \in Msg, PostFail(m) PROVE NobodyEnters
    BY <1>8 DEF PostFail
  <1>9. ASSUME NEW m \in Msg, RunSession(m) PROVE NobodyEnters
    BY <1>9 DEF RunSession
  <1>10. ASSUME NEW m \in Msg, RunSuperseded(m) PROVE NobodyEnters
    BY <1>10 DEF RunSuperseded
  <1>11. ASSUME NEW m \in Msg, RunDiscards(m) PROVE NobodyEnters
    BY <1>11 DEF RunDiscards, ClearPending, DropQueued
  <1>12. ASSUME NEW m \in Msg, RunParks(m) PROVE NobodyEnters
    BY <1>12 DEF RunParks
  <1>13. ASSUME NEW m \in Msg, RunEnds(m) PROVE NobodyEnters
    BY <1>13 DEF RunEnds
  <1>14. ASSUME NEW m \in Msg, RunHandsOff(m) PROVE NobodyEnters
    BY <1>14 DEF RunHandsOff, PopPending, CanHandOff
  <1>15. ASSUME NEW m \in Msg, DrainDrop(m) PROVE NobodyEnters
    BY <1>15 DEF DrainDrop
  <1>16. ASSUME NEW m \in Msg, DrainResume(m) PROVE [Worktree!Next]_WorktreeUsers
    <2>1. CASE aborted[m]
      <3>1. NobodyEnters
        BY <1>16, <2>1 DEF DrainResume
      <3> QED BY <3>1, LeaveStep
    <2>2. CASE ~aborted[m]
      <3>1. slot = m /\ Holds(m)
        BY <1>16, <2>2 DEF DrainResume, Safe, LiveTurnIsReachable, Live, LivePhase
      <3>2. \A g \in GitOp : git[g] # "working"
        BY <3>1, ProcAssumption DEF Safe, LockIsHeld, Holds
      <3>3. \A x \in Msg : ~ActiveTurn(x)
        BY <1>16, <3>1 DEF DrainResume, Safe, LiveTurnIsReachable, Live, LivePhase
      <3>4. WorktreeUsers = {}
        BY <3>2, <3>3
      <3>5. WorktreeUsers' \subseteq {m}
        BY <1>16, <3>2, <3>3 DEF DrainResume
      <3> QED BY <3>4, <3>5, EnterStep
    <2> QED BY <2>1, <2>2
  <1>17. ASSUME NEW m \in Msg, DrainFail(m) PROVE NobodyEnters
    BY <1>17 DEF DrainFail
  <1>18. ASSUME NEW m \in Msg, Unqueue(m) PROVE NobodyEnters
    BY <1>18 DEF Unqueue
  <1>19. ASSUME NEW g \in GitOp, GitBegin(g) PROVE NobodyEnters
    BY <1>19 DEF GitBegin
  <1>20. ASSUME NEW g \in GitOp, GitWork(g) PROVE [Worktree!Next]_WorktreeUsers
    <2>1. slot = None /\ Holds(g) /\ git[g] = "waiting"
      BY <1>20 DEF GitWork, GitBusy, HasTurn
    <2>2. \A x \in Msg : ~ActiveTurn(x)
      BY <2>1, NoneAssumption DEF Safe, LiveTurnIsReachable, Live, LivePhase
    <2>3. \A h \in GitOp : git[h] # "working"
      BY <2>1 DEF Safe, LockIsHeld, Holds
    <2>4. WorktreeUsers = {}
      BY <2>2, <2>3
    <2>5. WorktreeUsers' \subseteq {g}
      BY <1>20, <2>2, <2>3 DEF GitWork
    <2> QED BY <2>4, <2>5, EnterStep
  <1>21. ASSUME NEW g \in GitOp, GitRefuse(g) PROVE NobodyEnters
    BY <1>21 DEF GitRefuse
  <1>22. ASSUME NEW g \in GitOp, GitEnd(g) PROVE NobodyEnters
    BY <1>22 DEF GitEnd
  <1>23. ASSUME NEW c \in Clear, ClearAbort(c) PROVE NobodyEnters
    BY <1>23 DEF ClearAbort, AbortTurn, TripOwner
  <1>40. ASSUME NEW c \in Clear, ClearArrive(c) PROVE NobodyEnters
    BY <1>40 DEF ClearArrive
  <1>41. ASSUME NEW c \in Clear, ClearRefuse(c) PROVE NobodyEnters
    BY <1>41 DEF ClearRefuse
  <1>24. ASSUME NEW c \in Clear, ClearEnd(c) PROVE NobodyEnters
    BY <1>24 DEF ClearEnd, ClearPending, DropQueued
  <1>25. ASSUME Stop PROVE NobodyEnters
    BY <1>25 DEF Stop, AbortTurn, TripOwner, ClearPending, DropQueued
  <1>26. ASSUME Cancel PROVE NobodyEnters
    BY <1>26 DEF Cancel, AbortTurn, TripOwner
  <1>27. ASSUME DeleteBegin PROVE NobodyEnters
    BY <1>27 DEF DeleteBegin, TripOwner
  <1>28. ASSUME DeleteSettled PROVE NobodyEnters
    BY <1>28 DEF DeleteSettled
  <1>29. ASSUME DeleteTimeout PROVE NobodyEnters
    BY <1>29 DEF DeleteTimeout
  <1>30. ASSUME DeleteFinish PROVE NobodyEnters
    BY <1>30 DEF DeleteFinish, ClearPending, DropQueued
  <1>31. ASSUME Restart PROVE NobodyEnters
    BY <1>31 DEF Restart
  <1>32. ASSUME UNCHANGED vars PROVE NobodyEnters
    BY <1>32 DEF vars, turnVars, clearVars
  <1>33. CASE NobodyEnters
    BY <1>33, LeaveStep
  <1> QED
    <2> HIDE DEF NobodyEnters
    <2> QED
      BY <1>1, <1>2, <1>3, <1>4, <1>5, <1>7, <1>8, <1>9, <1>10, <1>11,
         <1>12, <1>13, <1>14, <1>15, <1>17, <1>18, <1>19, <1>21, <1>22, <1>23, <1>40, <1>41,
         <1>24, <1>25, <1>26, <1>27, <1>28, <1>29, <1>30, <1>31, <1>32,
         <1>6, <1>16, <1>20, <1>33
      DEF Next, Post, Run, RunFinish, Drain, GitStep, ClearStep, Delete

(* TaskTurns implements WorktreeMutex. *)
THEOREM Refinement == Spec => WorktreeSpec
  <1>1. Init => Worktree!Init
    BY DEF Init, Worktree!Init, WorktreeUsers, ActiveTurn, Launching
  <1>2. IInv /\ [Next]_vars => [Worktree!Next]_WorktreeUsers
    BY WorktreeStep
  <1> QED BY <1>1, <1>2, Invariance, PTL DEF Spec, WorktreeSpec, Worktree!Spec

-----------------------------------------------------------------------------
(***************************************************************************)
(* TaskTurns without /clear, refusals and faults (README, Known to fail,   *)
(* says what each of them breaks): the running flag has a turn that resets *)
(* it, and a follow-up that waits has a turn in front of it.               *)
(***************************************************************************)

(* What may happen while the flag, and while the queue, is looked after. *)
FlagOps == Ops \cap {"clear", "refuse", "fault"} = {}
QueueOps == FlagOps /\ Ops \cap {"cancel", "limit"} = {}

Waiting == {"claimed", "handed"} \cup Launching

(* Each message that waits for its launch is once in line for the lock. *)
InLineOnce ==
  /\ \A i \in 1 .. Len(lock) : lock[i] \in Msg => phase[lock[i]] \in Waiting
  /\ \A i, j \in 1 .. Len(lock) : lock[i] = lock[j] /\ lock[i] \in Msg => i = j

(* Nobody stands in line behind the slot's turn, for whom the slot had to be free, *)
(* and nobody at all once it runs.                                                 *)
SlotIsLast ==
  HasTurn => \A i \in 1 .. Len(lock) : lock[i] \in Msg =>
               \E j \in i .. Len(lock) : lock[j] = slot

(* A follow-up that was handed the slot is the only turn in line, and the flag is *)
(* down until it launches.                                                        *)
HandedIsAlone ==
  HasTurn /\ phase[slot] = "handed" =>
    /\ ~row.running
    /\ \A i \in 1 .. Len(lock) : lock[i] \in Msg => lock[i] = slot

(* Without /clear there is one generation. *)
OneGeneration ==
  /\ \A c \in Clear : clear[c] = "unsent"
  /\ row.exists => \A m \in Msg :
       phase[m] \in {"handed", "streaming"} \cup Launching => gen[m] = row.generation

(* The flag is up while an unstopped turn streams, and while it is up there is a *)
(* turn that will reset it, or relaunch and then reset it.  A follow-up that was *)
(* handed the slot is none: it may be dropped.                                   *)
FlagHasTurn ==
  /\ row.exists /\ row.running /\ (~Deleting \/ HasTurn) =>
       \E m \in Msg : phase[m] \in LivePhase \ {"handed"}
  /\ \A m \in Msg : phase[m] = "streaming" /\ ~aborted[m] => row.running

(* Whoever frees the slot has dropped the queue, unless the task goes. *)
QueueHasSlot ==
  /\ pending # <<>> /\ ~Deleting => HasTurn
  /\ ~row.exists => pending = <<>>

Places == QueuedOnce /\ InLineOnce /\ SlotIsLast
Flagged == Places /\ HandedIsAlone /\ OneGeneration /\ FlagHasTurn

USE NoneAssumption, ProcAssumption

----------------------------------------------------------------------------
(* What joining, leaving and cutting do to the members of a queue. *)

LEMMA JoinedIs ==
  ASSUME NEW S, NEW q \in Seq(S), NEW e \in S
  PROVE  /\ Len(q) \in Nat /\ Len(Append(q, e)) = Len(q) + 1
         /\ \A i \in 1 .. Len(q) : Append(q, e)[i] = q[i] /\ q[i] \in S
         /\ Append(q, e)[Len(q) + 1] = e
  BY AppendProperties, LenProperties, ElementOfSeq

LEMMA LeftIs ==
  ASSUME NEW S, NEW q \in Seq(S), q # <<>>
  PROVE  /\ Len(q) \in Nat \ {0} /\ Len(Tail(q)) = Len(q) - 1 /\ Head(q) = q[1]
         /\ \A i \in 1 .. Len(q) - 1 : Tail(q)[i] = q[i + 1]
         /\ \A i \in 1 .. Len(q) : q[i] \in S
  BY HeadTailProperties, LenProperties, ElementOfSeq, EmptySeq

LEMMA CutIs ==
  ASSUME NEW S, NEW q \in Seq(S), NEW i \in 1 .. Len(q)
  PROVE  /\ Len(q) \in Nat /\ Len(Without(q, i)) = Len(q) - 1
         /\ \A k \in 1 .. Len(q) - 1 :
              Without(q, i)[k] = IF k < i THEN q[k] ELSE q[k + 1]
         /\ \A k \in 1 .. Len(q) : q[k] \in S
  <1> DEFINE a == SubSeq(q, 1, i - 1)
             b == SubSeq(q, i + 1, Len(q))
  <1>1. Len(q) \in Nat /\ i \in Nat
    BY LenProperties
  <1>2. a \in Seq(S) /\ Len(a) = i - 1 /\ \A k \in 1 .. i - 1 : a[k] = q[k]
    BY <1>1, SubSeqProperties
  <1>3. b \in Seq(S) /\ Len(b) = Len(q) - i /\ \A k \in 1 .. Len(q) - i : b[k] = q[i + k]
    BY <1>1, SubSeqProperties
  <1>4. Without(q, i) = a \o b
    BY DEF Without
  <1> HIDE DEF a, b
  <1>5. /\ Len(a \o b) = Len(a) + Len(b)
        /\ \A k \in 1 .. Len(a) + Len(b) :
             (a \o b)[k] = IF k <= Len(a) THEN a[k] ELSE b[k - Len(a)]
    BY <1>2, <1>3, ConcatProperties
  <1>6. Len(Without(q, i)) = Len(q) - 1
    BY <1>1, <1>2, <1>3, <1>4, <1>5
  <1>7. ASSUME NEW k \in 1 .. Len(q) - 1
        PROVE  Without(q, i)[k] = IF k < i THEN q[k] ELSE q[k + 1]
    <2>1. (a \o b)[k] = IF k <= i - 1 THEN a[k] ELSE b[k - (i - 1)]
      BY <1>1, <1>2, <1>3, <1>5
    <2>2. CASE k < i
      BY <1>1, <1>2, <1>4, <2>1, <2>2
    <2>3. CASE ~(k < i)
      <3>1. k - (i - 1) \in 1 .. Len(q) - i /\ i + (k - (i - 1)) = k + 1
        BY <1>1, <2>3
      <3>2. b[k - (i - 1)] = q[k + 1]
        BY <1>3, <3>1
      <3> QED BY <1>1, <1>4, <2>1, <2>3, <3>2
    <2> QED BY <2>2, <2>3
  <1>8. \A k \in 1 .. Len(q) : q[k] \in S
    BY ElementOfSeq
  <1> QED BY <1>1, <1>6, <1>7, <1>8

----------------------------------------------------------------------------
(* The line for the lock *)

LEMMA LineStays ==
  ASSUME InLineOnce, SlotIsLast, lock' = lock, slot' \in {slot, None},
         \A m \in Msg : phase[m] \in Waiting => phase'[m] \in Waiting
  PROVE  InLineOnce' /\ SlotIsLast'
  BY DEF InLineOnce, SlotIsLast, HasTurn

LEMMA LineGrows ==
  ASSUME Types, InLineOnce, SlotIsLast, NEW n \in Msg,
         lock' = Append(lock, n), slot' = n,
         phase[n] \notin Waiting, phase'[n] \in Waiting,
         \A m \in Msg : phase[m] \in Waiting => phase'[m] \in Waiting
  PROVE  InLineOnce' /\ SlotIsLast'
  <1>1. /\ Len(lock) \in Nat /\ Len(lock') = Len(lock) + 1
        /\ \A i \in 1 .. Len(lock) : lock'[i] = lock[i]
        /\ lock'[Len(lock) + 1] = n
    BY JoinedIs DEF Types
  <1>2. \A i \in 1 .. Len(lock) : lock[i] # n
    BY DEF InLineOnce
  <1>3. InLineOnce'
    BY <1>1, <1>2 DEF InLineOnce
  <1>4. SlotIsLast'
    <2> SUFFICES ASSUME NEW i \in 1 .. Len(lock')
                 PROVE  \E j \in i .. Len(lock') : lock'[j] = slot'
      BY DEF SlotIsLast
    <2> WITNESS Len(lock') \in i .. Len(lock')
    <2> QED BY <1>1
  <1> QED BY <1>3, <1>4

LEMMA GitJoins ==
  ASSUME Types, InLineOnce, SlotIsLast, NEW g \in GitOp,
         lock' = Append(lock, g), UNCHANGED <<slot, phase>>
  PROVE  InLineOnce' /\ SlotIsLast'
  <1>1. /\ Len(lock) \in Nat /\ Len(lock') = Len(lock) + 1
        /\ \A i \in 1 .. Len(lock) : lock'[i] = lock[i]
        /\ lock'[Len(lock) + 1] = g
    BY JoinedIs DEF Types
  <1>2. g \notin Msg
    OBVIOUS
  <1>3. InLineOnce'
    BY <1>1, <1>2 DEF InLineOnce
  <1>4. SlotIsLast'
    <2> SUFFICES ASSUME HasTurn, NEW i \in 1 .. Len(lock'), lock'[i] \in Msg
                 PROVE  \E j \in i .. Len(lock') : lock'[j] = slot
      BY DEF SlotIsLast, HasTurn
    <2>1. i \in 1 .. Len(lock)
      BY <1>1, <1>2
    <2>2. PICK j \in i .. Len(lock) : lock[j] = slot
      BY <1>1, <2>1 DEF SlotIsLast
    <2> QED BY <1>1, <2>1, <2>2
  <1> QED BY <1>3, <1>4

LEMMA LineShrinks ==
  ASSUME Types, InLineOnce, SlotIsLast, lock # <<>>, lock' = Tail(lock),
         slot' \in {slot, None},
         \A m \in Msg : phase[m] \in Waiting /\ m # Head(lock) => phase'[m] \in Waiting
  PROVE  InLineOnce' /\ SlotIsLast'
  <1>1. /\ Len(lock) \in Nat \ {0} /\ Len(lock') = Len(lock) - 1 /\ Head(lock) = lock[1]
        /\ \A i \in 1 .. Len(lock) - 1 : lock'[i] = lock[i + 1]
    BY LeftIs DEF Types
  <1>2. InLineOnce'
    BY <1>1 DEF InLineOnce
  <1>3. SlotIsLast'
    <2> SUFFICES ASSUME HasTurn, slot' = slot, NEW i \in 1 .. Len(lock'), lock'[i] \in Msg
                 PROVE  \E j \in i .. Len(lock') : lock'[j] = slot
      BY DEF SlotIsLast, HasTurn
    <2>1. i + 1 \in 1 .. Len(lock) /\ lock[i + 1] \in Msg
      BY <1>1
    <2>2. PICK j \in i + 1 .. Len(lock) : lock[j] = slot
      BY <2>1 DEF SlotIsLast
    <2>3. j - 1 \in i .. Len(lock') /\ lock'[j - 1] = slot
      BY <1>1, <2>1, <2>2
    <2> QED BY <2>3
  <1> QED BY <1>2, <1>3

LEMMA LineStep ==
  ASSUME IInv, Places, [Next]_vars
  PROVE  InLineOnce' /\ SlotIsLast'
  <1> USE LineStays, LineShrinks
      DEF IInv, Safe, LockIsHeld, Types, Phase, Places, Goto, Unregister, ReleaseLock,
          AwaitLock, Holds, Waiting, Launching, turnVars, clearVars
  <1>1. ASSUME NEW m \in Msg, PostArrive(m) PROVE InLineOnce' /\ SlotIsLast'
    BY <1>1 DEF PostArrive
  <1>2. ASSUME NEW m \in Msg, PostClaim(m) PROVE InLineOnce' /\ SlotIsLast'
    BY <1>2, LineGrows DEF PostClaim, ClaimTurn
  <1>3. ASSUME NEW m \in Msg, PostQueue(m) PROVE InLineOnce' /\ SlotIsLast'
    BY <1>3 DEF PostQueue
  <1>4. ASSUME NEW m \in Msg, PostReject(m) PROVE InLineOnce' /\ SlotIsLast'
    BY <1>4 DEF PostReject
  <1>5. ASSUME NEW m \in Msg, PostRefuse(m) PROVE InLineOnce' /\ SlotIsLast'
    BY <1>5 DEF PostRefuse
  <1>6. ASSUME NEW m \in Msg, PostPrepare(m) PROVE InLineOnce' /\ SlotIsLast'
    BY <1>6 DEF PostPrepare
  <1>7. ASSUME NEW m \in Msg, Launch(m) PROVE InLineOnce' /\ SlotIsLast'
    BY <1>7 DEF Launch
  <1>8. ASSUME NEW m \in Msg, PostFail(m) PROVE InLineOnce' /\ SlotIsLast'
    BY <1>8 DEF PostFail
  <1>9. ASSUME NEW m \in Msg, RunSession(m) PROVE InLineOnce' /\ SlotIsLast'
    BY <1>9 DEF RunSession
  <1>10. ASSUME NEW m \in Msg, RunSuperseded(m) PROVE InLineOnce' /\ SlotIsLast'
    BY <1>10 DEF RunSuperseded
  <1>11. ASSUME NEW m \in Msg, RunDiscards(m) PROVE InLineOnce' /\ SlotIsLast'
    BY <1>11 DEF RunDiscards, SettleRow, ClearPending, DropQueued
  <1>12. ASSUME NEW m \in Msg, RunParks(m) PROVE InLineOnce' /\ SlotIsLast'
    BY <1>12 DEF RunParks
  <1>13. ASSUME NEW m \in Msg, RunEnds(m) PROVE InLineOnce' /\ SlotIsLast'
    BY <1>13 DEF RunEnds
  <1>14. ASSUME NEW m \in Msg, RunHandsOff(m) PROVE InLineOnce' /\ SlotIsLast'
    <2>1. PICK n \in Msg : n = Head(pending) /\ phase[n] = "queued"
      BY <1>14, LeftIs DEF RunHandsOff, PopPending, CanHandOff, QueuedOnce
    <2> QED BY <1>14, <2>1, LineGrows DEF RunHandsOff, PopPending
  <1>15. ASSUME NEW m \in Msg, DrainDrop(m) PROVE InLineOnce' /\ SlotIsLast'
    BY <1>15 DEF DrainDrop
  <1>16. ASSUME NEW m \in Msg, DrainResume(m) PROVE InLineOnce' /\ SlotIsLast'
    BY <1>16 DEF DrainResume
  <1>17. ASSUME NEW m \in Msg, DrainFail(m) PROVE InLineOnce' /\ SlotIsLast'
    BY <1>17 DEF DrainFail
  <1>18. ASSUME NEW m \in Msg, Unqueue(m) PROVE InLineOnce' /\ SlotIsLast'
    BY <1>18 DEF Unqueue
  <1>19. ASSUME NEW g \in GitOp, GitBegin(g) PROVE InLineOnce' /\ SlotIsLast'
    BY <1>19, GitJoins DEF GitBegin
  <1>20. ASSUME NEW g \in GitOp, GitWork(g) PROVE InLineOnce' /\ SlotIsLast'
    BY <1>20 DEF GitWork
  <1>21. ASSUME NEW g \in GitOp, GitRefuse(g) PROVE InLineOnce' /\ SlotIsLast'
    BY <1>21 DEF GitRefuse
  <1>22. ASSUME NEW g \in GitOp, GitEnd(g) PROVE InLineOnce' /\ SlotIsLast'
    BY <1>22 DEF GitEnd
  <1>23. ASSUME NEW c \in Clear, ClearAbort(c) PROVE InLineOnce' /\ SlotIsLast'
    BY <1>23 DEF ClearAbort, AbortTurn
  <1>40. ASSUME NEW c \in Clear, ClearArrive(c) PROVE InLineOnce' /\ SlotIsLast'
    BY <1>40 DEF ClearArrive
  <1>41. ASSUME NEW c \in Clear, ClearRefuse(c) PROVE InLineOnce' /\ SlotIsLast'
    BY <1>41 DEF ClearRefuse
  <1>24. ASSUME NEW c \in Clear, ClearEnd(c) PROVE InLineOnce' /\ SlotIsLast'
    BY <1>24 DEF ClearEnd, ClearPending, DropQueued
  <1>25. CASE Stop
    BY <1>25 DEF Stop, AbortTurn, ClearPending, DropQueued
  <1>26. CASE Cancel
    BY <1>26 DEF Cancel, AbortTurn
  <1>27. CASE DeleteBegin
    BY <1>27 DEF DeleteBegin
  <1>28. CASE DeleteSettled
    BY <1>28 DEF DeleteSettled
  <1>29. CASE DeleteTimeout
    BY <1>29 DEF DeleteTimeout
  <1>30. CASE DeleteFinish
    BY <1>30 DEF DeleteFinish, ClearPending, DropQueued
  <1>31. CASE Restart
    BY <1>31 DEF Restart, InLineOnce, SlotIsLast, HasTurn
  <1>32. CASE UNCHANGED vars
    BY <1>32 DEF vars, turnVars, clearVars
  <1> QED
    BY <1>1, <1>2, <1>3, <1>4, <1>5, <1>6, <1>7, <1>8, <1>9, <1>10, <1>11, <1>12,
       <1>13, <1>14, <1>15, <1>16, <1>17, <1>18, <1>19, <1>20, <1>21, <1>22, <1>23, <1>40, <1>41,
       <1>24, <1>25, <1>26, <1>27, <1>28, <1>29, <1>30, <1>31, <1>32
    DEF Next, Post, Run, RunFinish, Drain, GitStep, ClearStep, Delete
----------------------------------------------------------------------------
(* The queue *)

LEMMA QueueStays ==
  ASSUME QueuedOnce, pending' = pending,
         \A m \in Msg : phase[m] = "queued" => phase'[m] = "queued", Types
  PROVE  QueuedOnce'
  <1>1. \A i \in 1 .. Len(pending) : pending[i] \in Msg
    BY ElementOfSeq DEF Types
  <1> QED BY <1>1 DEF QueuedOnce

LEMMA QueueEmpties == pending' = <<>> => QueuedOnce'
  BY DEF QueuedOnce

LEMMA QueueGrows ==
  ASSUME Types, QueuedOnce, NEW n \in Msg, pending' = Append(pending, n),
         phase[n] # "queued", phase'[n] = "queued",
         \A m \in Msg : phase[m] = "queued" => phase'[m] = "queued"
  PROVE  QueuedOnce'
  <1>1. /\ Len(pending) \in Nat /\ Len(pending') = Len(pending) + 1
        /\ \A i \in 1 .. Len(pending) : pending'[i] = pending[i] /\ pending[i] \in Msg
        /\ pending'[Len(pending) + 1] = n
    BY JoinedIs DEF Types
  <1>2. \A i \in 1 .. Len(pending) : pending[i] # n
    BY DEF QueuedOnce
  <1> QED BY <1>1, <1>2 DEF QueuedOnce

LEMMA QueueShrinks ==
  ASSUME Types, QueuedOnce, pending # <<>>, pending' = Tail(pending),
         \A m \in Msg : phase[m] = "queued" /\ m # Head(pending) => phase'[m] = "queued"
  PROVE  QueuedOnce'
  <1>1. /\ Len(pending) \in Nat \ {0} /\ Len(pending') = Len(pending) - 1
        /\ Head(pending) = pending[1]
        /\ \A i \in 1 .. Len(pending) - 1 : pending'[i] = pending[i + 1]
        /\ \A i \in 1 .. Len(pending) : pending[i] \in Msg
    BY LeftIs DEF Types
  <1> QED BY <1>1 DEF QueuedOnce

LEMMA QueueCut ==
  ASSUME Types, QueuedOnce, NEW i \in 1 .. Len(pending),
         pending' = Without(pending, i),
         \A m \in Msg : phase[m] = "queued" /\ m # pending[i] => phase'[m] = "queued"
  PROVE  QueuedOnce'
  <1>0. pending \in Seq(Msg)
    BY DEF Types
  <1>1. /\ Len(pending) \in Nat /\ Len(pending') = Len(pending) - 1
        /\ \A k \in 1 .. Len(pending) - 1 :
             pending'[k] = IF k < i THEN pending[k] ELSE pending[k + 1]
        /\ \A k \in 1 .. Len(pending) : pending[k] \in Msg
    <2>1. /\ Len(pending) \in Nat /\ Len(Without(pending, i)) = Len(pending) - 1
          /\ \A k \in 1 .. Len(pending) - 1 :
               Without(pending, i)[k] = IF k < i THEN pending[k] ELSE pending[k + 1]
          /\ \A k \in 1 .. Len(pending) : pending[k] \in Msg
      BY <1>0, CutIs
    <2> QED BY <2>1
  <1>2. \A k \in 1 .. Len(pending') : \E l \in 1 .. Len(pending) :
          /\ l # i /\ pending'[k] = pending[l]
          /\ l = IF k < i THEN k ELSE k + 1
    <2> TAKE k \in 1 .. Len(pending')
    <2>1. CASE k < i
      BY <1>1, <2>1
    <2>2. CASE ~(k < i)
      <3>1. k + 1 \in 1 .. Len(pending) /\ k + 1 # i
        BY <1>1, <2>2
      <3> QED BY <1>1, <2>2, <3>1
    <2> QED BY <2>1, <2>2
  <1> QED BY <1>1, <1>2 DEF QueuedOnce

LEMMA QueueStep ==
  ASSUME IInv, Places, [Next]_vars
  PROVE  QueuedOnce'
  <1> USE QueueStays
      DEF IInv, Types, Phase, Places, Goto, Launching, turnVars, clearVars
  <1>1. ASSUME NEW m \in Msg, PostArrive(m) PROVE QueuedOnce'
    BY <1>1 DEF PostArrive
  <1>2. ASSUME NEW m \in Msg, PostClaim(m) PROVE QueuedOnce'
    BY <1>2 DEF PostClaim
  <1>3. ASSUME NEW m \in Msg, PostQueue(m) PROVE QueuedOnce'
    BY <1>3, QueueGrows DEF PostQueue
  <1>4. ASSUME NEW m \in Msg, PostReject(m) PROVE QueuedOnce'
    BY <1>4 DEF PostReject
  <1>5. ASSUME NEW m \in Msg, PostRefuse(m) PROVE QueuedOnce'
    BY <1>5 DEF PostRefuse
  <1>6. ASSUME NEW m \in Msg, PostPrepare(m) PROVE QueuedOnce'
    BY <1>6 DEF PostPrepare
  <1>7. ASSUME NEW m \in Msg, Launch(m) PROVE QueuedOnce'
    BY <1>7 DEF Launch
  <1>8. ASSUME NEW m \in Msg, PostFail(m) PROVE QueuedOnce'
    BY <1>8 DEF PostFail
  <1>9. ASSUME NEW m \in Msg, RunSession(m) PROVE QueuedOnce'
    BY <1>9 DEF RunSession
  <1>10. ASSUME NEW m \in Msg, RunSuperseded(m) PROVE QueuedOnce'
    BY <1>10 DEF RunSuperseded
  <1>11. ASSUME NEW m \in Msg, RunDiscards(m) PROVE QueuedOnce'
    BY <1>11 DEF RunDiscards, ClearPending, QueuedOnce
  <1>12. ASSUME NEW m \in Msg, RunParks(m) PROVE QueuedOnce'
    BY <1>12 DEF RunParks
  <1>13. ASSUME NEW m \in Msg, RunEnds(m) PROVE QueuedOnce'
    BY <1>13 DEF RunEnds
  <1>14. ASSUME NEW m \in Msg, RunHandsOff(m) PROVE QueuedOnce'
    <2>1. pending # <<>> /\ phase[m] = "streaming" /\ pending' = Tail(pending)
      BY <1>14 DEF RunHandsOff, PopPending, CanHandOff
    <2>2. \A n \in Msg : phase[n] = "queued" /\ n # Head(pending) => phase'[n] = "queued"
      BY <1>14, <2>1 DEF RunHandsOff, PopPending
    <2> QED BY <2>1, <2>2, QueueShrinks
  <1>15. ASSUME NEW m \in Msg, DrainDrop(m) PROVE QueuedOnce'
    BY <1>15 DEF DrainDrop
  <1>16. ASSUME NEW m \in Msg, DrainResume(m) PROVE QueuedOnce'
    BY <1>16 DEF DrainResume
  <1>17. ASSUME NEW m \in Msg, DrainFail(m) PROVE QueuedOnce'
    BY <1>17 DEF DrainFail
  <1>18. ASSUME NEW m \in Msg, Unqueue(m) PROVE QueuedOnce'
    <2>1. PICK i \in 1 .. Len(pending) : pending[i] = m /\ pending' = Without(pending, i)
      BY <1>18 DEF Unqueue
    <2>2. \A n \in Msg : n # m => phase'[n] = phase[n]
      BY <1>18 DEF Unqueue
    <2> QED BY <2>1, <2>2, QueueCut
  <1>19. ASSUME NEW g \in GitOp, GitBegin(g) PROVE QueuedOnce'
    BY <1>19 DEF GitBegin
  <1>20. ASSUME NEW g \in GitOp, GitWork(g) PROVE QueuedOnce'
    BY <1>20 DEF GitWork
  <1>21. ASSUME NEW g \in GitOp, GitRefuse(g) PROVE QueuedOnce'
    BY <1>21 DEF GitRefuse
  <1>22. ASSUME NEW g \in GitOp, GitEnd(g) PROVE QueuedOnce'
    BY <1>22 DEF GitEnd
  <1>23. ASSUME NEW c \in Clear, ClearAbort(c) PROVE QueuedOnce'
    BY <1>23 DEF ClearAbort
  <1>40. ASSUME NEW c \in Clear, ClearArrive(c) PROVE QueuedOnce'
    BY <1>40 DEF ClearArrive
  <1>41. ASSUME NEW c \in Clear, ClearRefuse(c) PROVE QueuedOnce'
    BY <1>41 DEF ClearRefuse
  <1>24. ASSUME NEW c \in Clear, ClearEnd(c) PROVE QueuedOnce'
    <2>1. CASE row.exists
      BY <1>24, <2>1, QueueEmpties DEF ClearEnd, ClearPending
    <2>2. CASE ~row.exists
      BY <1>24, <2>2 DEF ClearEnd
    <2> QED BY <2>1, <2>2
  <1>25. CASE Stop
    BY <1>25, QueueEmpties DEF Stop, ClearPending
  <1>26. CASE Cancel
    BY <1>26 DEF Cancel
  <1>27. CASE DeleteBegin
    BY <1>27 DEF DeleteBegin
  <1>28. CASE DeleteSettled
    BY <1>28 DEF DeleteSettled
  <1>29. CASE DeleteTimeout
    BY <1>29 DEF DeleteTimeout
  <1>30. CASE DeleteFinish
    BY <1>30, QueueEmpties DEF DeleteFinish, ClearPending
  <1>31. CASE Restart
    BY <1>31, QueueEmpties DEF Restart
  <1>32. CASE UNCHANGED vars
    BY <1>32 DEF vars, turnVars, clearVars
  <1> QED
    BY <1>1, <1>2, <1>3, <1>4, <1>5, <1>6, <1>7, <1>8, <1>9, <1>10, <1>11, <1>12,
       <1>13, <1>14, <1>15, <1>16, <1>17, <1>18, <1>19, <1>20, <1>21, <1>22, <1>23, <1>40, <1>41,
       <1>24, <1>25, <1>26, <1>27, <1>28, <1>29, <1>30, <1>31, <1>32
    DEF Next, Post, Run, RunFinish, Drain, GitStep, ClearStep, Delete

(* Every variable keeps its type, and no queued message is one that was launched *)
(* (runner.ts pops what it hands over, and all that drops the queue deletes it). *)
THEOREM TypeCorrect == Spec => []TypeOK
  <1>1. Init => IInv /\ Places
    BY TypeInit, SafeInit, EpochInit
    DEF IInv, Init, Places, QueuedOnce, InLineOnce, SlotIsLast, HasTurn
  <1>2. IInv /\ Places /\ [Next]_vars => IInv' /\ Places'
    BY TypeStep, SafeStep, EpochStep, LineStep, QueueStep DEF IInv, Places
  <1>3. IInv /\ Places => TypeOK
    BY DEF IInv, Places, TypeOK
  <1> QED BY <1>1, <1>2, <1>3, PTL DEF Spec

----------------------------------------------------------------------------
(* The generation, the follow-up that was handed the slot, the flag *)

LEMMA GenerationStep ==
  ASSUME IInv, Places, OneGeneration, FlagOps, [Next]_vars
  PROVE  OneGeneration'
  <1> USE DEF IInv, Types, Row, Phase, OneGeneration, FlagOps, Goto, Launching, turnVars, clearVars
  <1>1. ASSUME NEW m \in Msg, PostArrive(m) PROVE OneGeneration'
    BY <1>1 DEF PostArrive
  <1>2. ASSUME NEW m \in Msg, PostClaim(m) PROVE OneGeneration'
    BY <1>2 DEF PostClaim
  <1>3. ASSUME NEW m \in Msg, PostQueue(m) PROVE OneGeneration'
    BY <1>3 DEF PostQueue
  <1>4. ASSUME NEW m \in Msg, PostReject(m) PROVE OneGeneration'
    BY <1>4 DEF PostReject
  <1>5. ASSUME NEW m \in Msg, PostRefuse(m) PROVE OneGeneration'
    BY <1>5 DEF PostRefuse
  <1>6. ASSUME NEW m \in Msg, PostPrepare(m) PROVE OneGeneration'
    BY <1>6 DEF PostPrepare
  <1>7. ASSUME NEW m \in Msg, Launch(m) PROVE OneGeneration'
    BY <1>7 DEF Launch
  <1>8. ASSUME NEW m \in Msg, PostFail(m) PROVE OneGeneration'
    BY <1>8 DEF PostFail
  <1>9. ASSUME NEW m \in Msg, RunSession(m) PROVE OneGeneration'
    BY <1>9 DEF RunSession
  <1>10. ASSUME NEW m \in Msg, RunSuperseded(m) PROVE OneGeneration'
    BY <1>10 DEF RunSuperseded
  <1>11. ASSUME NEW m \in Msg, RunDiscards(m) PROVE OneGeneration'
    BY <1>11 DEF RunDiscards, SettleRow, ClearPending, DropQueued
  <1>12. ASSUME NEW m \in Msg, RunParks(m) PROVE OneGeneration'
    BY <1>12 DEF RunParks, SettleRow
  <1>13. ASSUME NEW m \in Msg, RunEnds(m) PROVE OneGeneration'
    BY <1>13 DEF RunEnds, SettleRow
  <1>14. ASSUME NEW m \in Msg, RunHandsOff(m) PROVE OneGeneration'
    BY <1>14 DEF RunHandsOff, PopPending, SettleRow, GenerationAdvanced
  <1>15. ASSUME NEW m \in Msg, DrainDrop(m) PROVE OneGeneration'
    BY <1>15 DEF DrainDrop
  <1>16. ASSUME NEW m \in Msg, DrainResume(m) PROVE OneGeneration'
    BY <1>16 DEF DrainResume
  <1>17. ASSUME NEW m \in Msg, DrainFail(m) PROVE OneGeneration'
    BY <1>17 DEF DrainFail
  <1>18. ASSUME NEW m \in Msg, Unqueue(m) PROVE OneGeneration'
    BY <1>18 DEF Unqueue
  <1>19. ASSUME NEW g \in GitOp, GitBegin(g) PROVE OneGeneration'
    BY <1>19 DEF GitBegin
  <1>20. ASSUME NEW g \in GitOp, GitWork(g) PROVE OneGeneration'
    BY <1>20 DEF GitWork
  <1>21. ASSUME NEW g \in GitOp, GitRefuse(g) PROVE OneGeneration'
    BY <1>21 DEF GitRefuse
  <1>22. ASSUME NEW g \in GitOp, GitEnd(g) PROVE OneGeneration'
    BY <1>22 DEF GitEnd
  <1>23. ASSUME NEW c \in Clear, ClearAbort(c) PROVE OneGeneration'
    BY <1>23 DEF ClearAbort
  <1>40. ASSUME NEW c \in Clear, ClearArrive(c) PROVE OneGeneration'
    BY <1>40 DEF ClearArrive
  <1>41. ASSUME NEW c \in Clear, ClearRefuse(c) PROVE OneGeneration'
    BY <1>41 DEF ClearRefuse
  <1>24. ASSUME NEW c \in Clear, ClearEnd(c) PROVE OneGeneration'
    BY <1>24 DEF ClearEnd
  <1>25. CASE Stop
    BY <1>25 DEF Stop, ClearPending, DropQueued
  <1>26. CASE Cancel
    BY <1>26 DEF Cancel
  <1>27. CASE DeleteBegin
    BY <1>27 DEF DeleteBegin
  <1>28. CASE DeleteSettled
    BY <1>28 DEF DeleteSettled
  <1>29. CASE DeleteTimeout
    BY <1>29 DEF DeleteTimeout
  <1>30. CASE DeleteFinish
    BY <1>30 DEF DeleteFinish, ClearPending, DropQueued
  <1>31. CASE Restart
    BY <1>31 DEF Restart
  <1>32. CASE UNCHANGED vars
    BY <1>32 DEF vars, turnVars, clearVars
  <1> QED
    BY <1>1, <1>2, <1>3, <1>4, <1>5, <1>6, <1>7, <1>8, <1>9, <1>10, <1>11, <1>12,
       <1>13, <1>14, <1>15, <1>16, <1>17, <1>18, <1>19, <1>20, <1>21, <1>22, <1>23, <1>40, <1>41,
       <1>24, <1>25, <1>26, <1>27, <1>28, <1>29, <1>30, <1>31, <1>32
    DEF Next, Post, Run, RunFinish, Drain, GitStep, ClearStep, Delete

LEMMA HandedStep ==
  ASSUME IInv, Places, HandedIsAlone, OneGeneration, FlagOps, [Next]_vars
  PROVE  HandedIsAlone'
  <1> USE DEF IInv, Safe, LockIsHeld, Types, Row, Phase, Places, HandedIsAlone, HasTurn,
          FlagOps, Goto, Unregister, ReleaseLock, AwaitLock, Holds, Launching, turnVars, clearVars
  <1>1. ASSUME NEW m \in Msg, PostArrive(m) PROVE HandedIsAlone'
    BY <1>1 DEF PostArrive
  <1>2. ASSUME NEW m \in Msg, PostClaim(m) PROVE HandedIsAlone'
    BY <1>2 DEF PostClaim, ClaimTurn
  <1>3. ASSUME NEW m \in Msg, PostQueue(m) PROVE HandedIsAlone'
    BY <1>3 DEF PostQueue
  <1>4. ASSUME NEW m \in Msg, PostReject(m) PROVE HandedIsAlone'
    BY <1>4 DEF PostReject
  <1>5. ASSUME NEW m \in Msg, PostRefuse(m) PROVE HandedIsAlone'
    BY <1>5 DEF PostRefuse
  <1>6. ASSUME NEW m \in Msg, PostPrepare(m) PROVE HandedIsAlone'
    BY <1>6 DEF PostPrepare
  <1>7. ASSUME NEW m \in Msg, Launch(m) PROVE HandedIsAlone'
    <2>1. lock # <<>> /\ lock[1] = m
      BY <1>7, LeftIs DEF Launch
    <2>2. 1 \in 1 .. Len(lock)
      BY <2>1, LeftIs
    <2>3. HasTurn => phase[slot] # "handed"
      BY <1>7, <2>1, <2>2 DEF Launch
    <2> QED BY <1>7, <2>3 DEF Launch
  <1>8. ASSUME NEW m \in Msg, PostFail(m) PROVE HandedIsAlone'
    BY <1>8 DEF PostFail
  <1>9. ASSUME NEW m \in Msg, RunSession(m) PROVE HandedIsAlone'
    BY <1>9 DEF RunSession
  <1>10. ASSUME NEW m \in Msg, RunSuperseded(m) PROVE HandedIsAlone'
    BY <1>10 DEF RunSuperseded
  <1>11. ASSUME NEW m \in Msg, RunDiscards(m) PROVE HandedIsAlone'
    BY <1>11 DEF RunDiscards, SettleRow, ClearPending, DropQueued
  <1>12. ASSUME NEW m \in Msg, RunParks(m) PROVE HandedIsAlone'
    BY <1>12 DEF RunParks, SettleRow
  <1>13. ASSUME NEW m \in Msg, RunEnds(m) PROVE HandedIsAlone'
    BY <1>13 DEF RunEnds, SettleRow
  <1>14. ASSUME NEW m \in Msg, RunHandsOff(m) PROVE HandedIsAlone'
    <2>1. /\ slot = m /\ phase[m] = "streaming" /\ ~row'.running
          /\ \E n \in Msg : slot' = n /\ lock' = Append(lock, n)
      BY <1>14 DEF RunHandsOff, PopPending, SettleRow, CanHandOff
    <2>2. \A i \in 1 .. Len(lock) : lock[i] \notin Msg
      <3> SUFFICES ASSUME NEW i \in 1 .. Len(lock), lock[i] \in Msg PROVE FALSE
        OBVIOUS
      <3>1. PICK j \in i .. Len(lock) : lock[j] = m
        BY <2>1 DEF SlotIsLast
      <3>2. Len(lock) \in Nat
        BY LenProperties
      <3>3. j \in 1 .. Len(lock)
        BY <3>2
      <3> QED BY <2>1, <3>1, <3>3 DEF InLineOnce, Waiting
    <2>3. /\ Len(lock) \in Nat /\ Len(lock') = Len(lock) + 1
          /\ \A i \in 1 .. Len(lock) : lock'[i] = lock[i]
          /\ lock'[Len(lock) + 1] = slot'
      BY <2>1, JoinedIs
    <2> QED BY <2>1, <2>2, <2>3
  <1>15. ASSUME NEW m \in Msg, DrainDrop(m) PROVE HandedIsAlone'
    BY <1>15 DEF DrainDrop
  <1>16. ASSUME NEW m \in Msg, DrainResume(m) PROVE HandedIsAlone'
    BY <1>16 DEF DrainResume
  <1>17. ASSUME NEW m \in Msg, DrainFail(m) PROVE HandedIsAlone'
    <2>1. lock # <<>> /\ lock[1] = m
      BY <1>17, LeftIs DEF DrainFail
    <2>2. 1 \in 1 .. Len(lock)
      BY <2>1, LeftIs
    <2>3. HasTurn => phase[slot] # "handed"
      BY <1>17, <2>1, <2>2 DEF DrainFail
    <2> QED BY <1>17, <2>3 DEF DrainFail
  <1>18. ASSUME NEW m \in Msg, Unqueue(m) PROVE HandedIsAlone'
    BY <1>18 DEF Unqueue
  <1>19. ASSUME NEW g \in GitOp, GitBegin(g) PROVE HandedIsAlone'
    <2>1. lock' = Append(lock, g) /\ UNCHANGED <<slot, phase, row>>
      BY <1>19 DEF GitBegin
    <2>2. /\ Len(lock) \in Nat /\ Len(lock') = Len(lock) + 1
          /\ \A i \in 1 .. Len(lock) : lock'[i] = lock[i]
          /\ lock'[Len(lock) + 1] = g
      BY <2>1, JoinedIs
    <2>3. g \notin Msg
      OBVIOUS
    <2> QED BY <2>1, <2>2, <2>3
  <1>20. ASSUME NEW g \in GitOp, GitWork(g) PROVE HandedIsAlone'
    BY <1>20 DEF GitWork
  <1>21. ASSUME NEW g \in GitOp, GitRefuse(g) PROVE HandedIsAlone'
    BY <1>21 DEF GitRefuse
  <1>22. ASSUME NEW g \in GitOp, GitEnd(g) PROVE HandedIsAlone'
    BY <1>22 DEF GitEnd
  <1>23. ASSUME NEW c \in Clear, ClearAbort(c) PROVE HandedIsAlone'
    BY <1>23 DEF ClearAbort, AbortTurn
  <1>40. ASSUME NEW c \in Clear, ClearArrive(c) PROVE HandedIsAlone'
    BY <1>40 DEF ClearArrive, OneGeneration
  <1>41. ASSUME NEW c \in Clear, ClearRefuse(c) PROVE HandedIsAlone'
    BY <1>41 DEF ClearRefuse, OneGeneration
  <1>24. ASSUME NEW c \in Clear, ClearEnd(c) PROVE HandedIsAlone'
    BY <1>24 DEF ClearEnd, OneGeneration
  <1>25. CASE Stop
    BY <1>25 DEF Stop, AbortTurn, ClearPending, DropQueued
  <1>26. CASE Cancel
    BY <1>26 DEF Cancel, AbortTurn
  <1>27. CASE DeleteBegin
    BY <1>27 DEF DeleteBegin
  <1>28. CASE DeleteSettled
    BY <1>28 DEF DeleteSettled
  <1>29. CASE DeleteTimeout
    BY <1>29 DEF DeleteTimeout
  <1>30. CASE DeleteFinish
    BY <1>30 DEF DeleteFinish, ClearPending, DropQueued
  <1>31. CASE Restart
    BY <1>31 DEF Restart
  <1>32. CASE UNCHANGED vars
    BY <1>32 DEF vars, turnVars, clearVars
  <1> QED
    BY <1>1, <1>2, <1>3, <1>4, <1>5, <1>6, <1>7, <1>8, <1>9, <1>10, <1>11, <1>12,
       <1>13, <1>14, <1>15, <1>16, <1>17, <1>18, <1>19, <1>20, <1>21, <1>22, <1>23, <1>40, <1>41,
       <1>24, <1>25, <1>26, <1>27, <1>28, <1>29, <1>30, <1>31, <1>32
    DEF Next, Post, Run, RunFinish, Drain, GitStep, ClearStep, Delete

LEMMA FlagStep ==
  ASSUME IInv, HandedIsAlone, OneGeneration, FlagHasTurn, FlagOps, [Next]_vars
  PROVE  FlagHasTurn'
  <1> USE DEF IInv, Safe, LiveTurnIsReachable, SlotIsNeverOrphaned, RemovalKeepsSlotFree,
          Types, Row, Phase, FlagHasTurn, HandedIsAlone, OneGeneration, HasTurn,
          Deleting, FlagOps, Live, LivePhase, Launching, Superseded, GenerationAdvanced,
          Goto, Unregister, turnVars, clearVars
  <1>1. ASSUME NEW m \in Msg, PostArrive(m) PROVE FlagHasTurn'
    BY <1>1 DEF PostArrive
  <1>2. ASSUME NEW m \in Msg, PostClaim(m) PROVE FlagHasTurn'
    BY <1>2 DEF PostClaim, ClaimTurn
  <1>3. ASSUME NEW m \in Msg, PostQueue(m) PROVE FlagHasTurn'
    BY <1>3 DEF PostQueue
  <1>4. ASSUME NEW m \in Msg, PostReject(m) PROVE FlagHasTurn'
    BY <1>4 DEF PostReject
  <1>5. ASSUME NEW m \in Msg, PostRefuse(m) PROVE FlagHasTurn'
    BY <1>5 DEF PostRefuse
  <1>6. ASSUME NEW m \in Msg, PostPrepare(m) PROVE FlagHasTurn'
    BY <1>6 DEF PostPrepare
  <1>7. ASSUME NEW m \in Msg, Launch(m) PROVE FlagHasTurn'
    BY <1>7 DEF Launch
  <1>8. ASSUME NEW m \in Msg, PostFail(m) PROVE FlagHasTurn'
    BY <1>8 DEF PostFail
  <1>9. ASSUME NEW m \in Msg, RunSession(m) PROVE FlagHasTurn'
    BY <1>9 DEF RunSession
  <1>10. ASSUME NEW m \in Msg, RunSuperseded(m) PROVE FlagHasTurn'
    BY <1>10 DEF RunSuperseded
  <1>11. ASSUME NEW m \in Msg, RunDiscards(m) PROVE FlagHasTurn'
    BY <1>11 DEF RunDiscards, SettleRow, ClearPending, DropQueued
  <1>12. ASSUME NEW m \in Msg, RunParks(m) PROVE FlagHasTurn'
    BY <1>12 DEF RunParks, SettleRow
  <1>13. ASSUME NEW m \in Msg, RunEnds(m) PROVE FlagHasTurn'
    BY <1>13 DEF RunEnds, SettleRow
  <1>14. ASSUME NEW m \in Msg, RunHandsOff(m) PROVE FlagHasTurn'
    BY <1>14 DEF RunHandsOff, PopPending, SettleRow, CanHandOff
  <1>15. ASSUME NEW m \in Msg, DrainDrop(m) PROVE FlagHasTurn'
    BY <1>15 DEF DrainDrop
  <1>16. ASSUME NEW m \in Msg, DrainResume(m) PROVE FlagHasTurn'
    BY <1>16 DEF DrainResume
  <1>17. ASSUME NEW m \in Msg, DrainFail(m) PROVE FlagHasTurn'
    BY <1>17 DEF DrainFail
  <1>18. ASSUME NEW m \in Msg, Unqueue(m) PROVE FlagHasTurn'
    BY <1>18 DEF Unqueue
  <1>19. ASSUME NEW g \in GitOp, GitBegin(g) PROVE FlagHasTurn'
    BY <1>19 DEF GitBegin
  <1>20. ASSUME NEW g \in GitOp, GitWork(g) PROVE FlagHasTurn'
    BY <1>20 DEF GitWork
  <1>21. ASSUME NEW g \in GitOp, GitRefuse(g) PROVE FlagHasTurn'
    BY <1>21 DEF GitRefuse
  <1>22. ASSUME NEW g \in GitOp, GitEnd(g) PROVE FlagHasTurn'
    BY <1>22 DEF GitEnd
  <1>23. ASSUME NEW c \in Clear, ClearAbort(c) PROVE FlagHasTurn'
    BY <1>23 DEF ClearAbort
  <1>40. ASSUME NEW c \in Clear, ClearArrive(c) PROVE FlagHasTurn'
    BY <1>40 DEF ClearArrive
  <1>41. ASSUME NEW c \in Clear, ClearRefuse(c) PROVE FlagHasTurn'
    BY <1>41 DEF ClearRefuse
  <1>24. ASSUME NEW c \in Clear, ClearEnd(c) PROVE FlagHasTurn'
    BY <1>24 DEF ClearEnd
  <1>25. CASE Stop
    BY <1>25 DEF Stop, AbortTurn, TripOwner, ClearPending, DropQueued
  <1>26. CASE Cancel
    BY <1>26 DEF Cancel, AbortTurn, TripOwner
  <1>27. CASE DeleteBegin
    BY <1>27 DEF DeleteBegin, TripOwner
  <1>28. CASE DeleteSettled
    BY <1>28 DEF DeleteSettled
  <1>29. CASE DeleteTimeout
    BY <1>29 DEF DeleteTimeout
  <1>30. CASE DeleteFinish
    BY <1>30 DEF DeleteFinish, ClearPending, DropQueued
  <1>31. CASE Restart
    BY <1>31 DEF Restart
  <1>32. CASE UNCHANGED vars
    BY <1>32 DEF vars, turnVars, clearVars
  <1> QED
    BY <1>1, <1>2, <1>3, <1>4, <1>5, <1>6, <1>7, <1>8, <1>9, <1>10, <1>11, <1>12,
       <1>13, <1>14, <1>15, <1>16, <1>17, <1>18, <1>19, <1>20, <1>21, <1>22, <1>23, <1>40, <1>41,
       <1>24, <1>25, <1>26, <1>27, <1>28, <1>29, <1>30, <1>31, <1>32
    DEF Next, Post, Run, RunFinish, Drain, GitStep, ClearStep, Delete

LEMMA QueueSlotStep ==
  ASSUME IInv, OneGeneration, QueueHasSlot, QueueOps, [Next]_vars
  PROVE  QueueHasSlot'
  <1> USE DEF IInv, Safe, Types, Row, Phase, OneGeneration, QueueHasSlot, HasTurn,
          Deleting, FlagOps, QueueOps, Launching, Superseded, GenerationAdvanced, DrainStale,
          Goto, Unregister, turnVars, clearVars
  <1>1. ASSUME NEW m \in Msg, PostArrive(m) PROVE QueueHasSlot'
    BY <1>1 DEF PostArrive
  <1>2. ASSUME NEW m \in Msg, PostClaim(m) PROVE QueueHasSlot'
    BY <1>2 DEF PostClaim, ClaimTurn
  <1>3. ASSUME NEW m \in Msg, PostQueue(m) PROVE QueueHasSlot'
    BY <1>3 DEF PostQueue
  <1>4. ASSUME NEW m \in Msg, PostReject(m) PROVE QueueHasSlot'
    BY <1>4 DEF PostReject
  <1>5. ASSUME NEW m \in Msg, PostRefuse(m) PROVE QueueHasSlot'
    BY <1>5 DEF PostRefuse
  <1>6. ASSUME NEW m \in Msg, PostPrepare(m) PROVE QueueHasSlot'
    BY <1>6 DEF PostPrepare
  <1>7. ASSUME NEW m \in Msg, Launch(m) PROVE QueueHasSlot'
    BY <1>7 DEF Launch
  <1>8. ASSUME NEW m \in Msg, PostFail(m) PROVE QueueHasSlot'
    BY <1>8 DEF PostFail
  <1>9. ASSUME NEW m \in Msg, RunSession(m) PROVE QueueHasSlot'
    BY <1>9 DEF RunSession
  <1>10. ASSUME NEW m \in Msg, RunSuperseded(m) PROVE QueueHasSlot'
    BY <1>10 DEF RunSuperseded
  <1>11. ASSUME NEW m \in Msg, RunDiscards(m) PROVE QueueHasSlot'
    BY <1>11 DEF RunDiscards, SettleRow, ClearPending
  <1>12. ASSUME NEW m \in Msg, RunParks(m) PROVE QueueHasSlot'
    BY <1>12 DEF RunParks, SettleRow
  <1>13. ASSUME NEW m \in Msg, RunEnds(m) PROVE QueueHasSlot'
    BY <1>13 DEF RunEnds, SettleRow, CanHandOff
  <1>14. ASSUME NEW m \in Msg, RunHandsOff(m) PROVE QueueHasSlot'
    BY <1>14 DEF RunHandsOff, PopPending, SettleRow, CanHandOff
  <1>15. ASSUME NEW m \in Msg, DrainDrop(m) PROVE QueueHasSlot'
    BY <1>15 DEF DrainDrop
  <1>16. ASSUME NEW m \in Msg, DrainResume(m) PROVE QueueHasSlot'
    BY <1>16 DEF DrainResume
  <1>17. ASSUME NEW m \in Msg, DrainFail(m) PROVE QueueHasSlot'
    BY <1>17 DEF DrainFail
  <1>18. ASSUME NEW m \in Msg, Unqueue(m) PROVE QueueHasSlot'
    <2>1. pending # <<>> /\ row' = row /\ slot' = slot /\ deletion' = deletion
      BY <1>18 DEF Unqueue
    <2> QED BY <2>1
  <1>19. ASSUME NEW g \in GitOp, GitBegin(g) PROVE QueueHasSlot'
    BY <1>19 DEF GitBegin
  <1>20. ASSUME NEW g \in GitOp, GitWork(g) PROVE QueueHasSlot'
    BY <1>20 DEF GitWork
  <1>21. ASSUME NEW g \in GitOp, GitRefuse(g) PROVE QueueHasSlot'
    BY <1>21 DEF GitRefuse
  <1>22. ASSUME NEW g \in GitOp, GitEnd(g) PROVE QueueHasSlot'
    BY <1>22 DEF GitEnd
  <1>23. ASSUME NEW c \in Clear, ClearAbort(c) PROVE QueueHasSlot'
    BY <1>23 DEF ClearAbort
  <1>40. ASSUME NEW c \in Clear, ClearArrive(c) PROVE QueueHasSlot'
    BY <1>40 DEF ClearArrive
  <1>41. ASSUME NEW c \in Clear, ClearRefuse(c) PROVE QueueHasSlot'
    BY <1>41 DEF ClearRefuse
  <1>24. ASSUME NEW c \in Clear, ClearEnd(c) PROVE QueueHasSlot'
    BY <1>24 DEF ClearEnd
  <1>25. CASE Stop
    BY <1>25 DEF Stop, AbortTurn, ClearPending
  <1>26. CASE Cancel
    BY <1>26 DEF Cancel
  <1>27. CASE DeleteBegin
    BY <1>27 DEF DeleteBegin
  <1>28. CASE DeleteSettled
    BY <1>28 DEF DeleteSettled
  <1>29. CASE DeleteTimeout
    BY <1>29 DEF DeleteTimeout
  <1>30. CASE DeleteFinish
    BY <1>30 DEF DeleteFinish, ClearPending
  <1>31. CASE Restart
    BY <1>31 DEF Restart
  <1>32. CASE UNCHANGED vars
    BY <1>32 DEF vars, turnVars, clearVars
  <1> QED
    BY <1>1, <1>2, <1>3, <1>4, <1>5, <1>6, <1>7, <1>8, <1>9, <1>10, <1>11, <1>12,
       <1>13, <1>14, <1>15, <1>16, <1>17, <1>18, <1>19, <1>20, <1>21, <1>22, <1>23, <1>40, <1>41,
       <1>24, <1>25, <1>26, <1>27, <1>28, <1>29, <1>30, <1>31, <1>32
    DEF Next, Post, Run, RunFinish, Drain, GitStep, ClearStep, Delete

----------------------------------------------------------------------------
(* Theorems. *)

LEMMA FlaggedInit == Init => Flagged /\ QueueHasSlot
  BY DEF Init, Flagged, Places, QueuedOnce, InLineOnce, SlotIsLast, HandedIsAlone, HasTurn,
         OneGeneration, FlagHasTurn, QueueHasSlot, Launching, Row

LEMMA FlaggedStep ==
  ASSUME FlagOps, IInv, Flagged, [Next]_vars
  PROVE  Flagged'
  BY LineStep, QueueStep, GenerationStep, HandedStep, FlagStep DEF Flagged, Places

(* Under FlagOps: where the merge routes and the task lists read running = 1, *)
(* some turn is there that will reset it (runner.ts, the finally of run), and *)
(* they read it whenever an unstopped turn streams.                           *)
THEOREM FlagIsLive ==
  ASSUME FlagOps
  PROVE  Spec => []RunningIsLive
  <1>1. Init => IInv /\ Flagged
    BY TypeInit, SafeInit, EpochInit, FlaggedInit DEF IInv
  <1>2. IInv /\ Flagged /\ [Next]_vars => IInv' /\ Flagged'
    BY TypeStep, SafeStep, EpochStep, FlaggedStep DEF IInv
  <1>3. Flagged => RunningIsLive
    BY DEF Flagged, FlagHasTurn, RunningIsLive, Live
  <1> QED BY <1>1, <1>2, <1>3, PTL DEF Spec

(* Under QueueOps: a follow-up in pending_messages has a turn in front of it that *)
(* pops or drops it, or its task is being deleted.                                *)
THEOREM QueueIsServed ==
  ASSUME QueueOps
  PROVE  Spec => []QueuedHasTurn
  <1>1. Init => IInv /\ Flagged /\ QueueHasSlot
    BY TypeInit, SafeInit, EpochInit, FlaggedInit DEF IInv
  <1>2. IInv /\ Flagged /\ QueueHasSlot /\ [Next]_vars => IInv' /\ Flagged' /\ QueueHasSlot'
    BY TypeStep, SafeStep, EpochStep, FlaggedStep, QueueSlotStep DEF IInv, Flagged, QueueOps
  <1>3. IInv /\ QueueHasSlot => QueuedHasTurn
    BY DEF IInv, Safe, Types, QueueHasSlot, QueuedHasTurn, SlotIsNeverOrphaned, HasTurn
  <1> QED BY <1>1, <1>2, <1>3, PTL DEF Spec

=============================================================================
