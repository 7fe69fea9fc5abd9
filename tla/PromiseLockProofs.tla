------------------------- MODULE PromiseLockProofs -------------------------
(*****************************************************************************)
(* PromiseLock implements FifoLock, for every set of calls and both locks.   *)
(* The chain is right because each link knows, through prev, everyone who    *)
(* was in line before it: whoever of them is still in line is prev itself or *)
(* was ahead of prev, so prev's settlement means that none of them is.       *)
(*****************************************************************************)
EXTENDS PromiseLock, TLAPS

Arrived == {c \in Call : pc[c] # "idle"}

(* Only calls that left settle their tail. *)
SettledHasLeft == \A c \in settled : pc[c] \in Gone

(* A call is ahead of nobody before it arrives. *)
AheadHasArrived == \A c \in Call : ahead[c] \subseteq Arrived

(* Whoever got in found nobody of those ahead of it still in line. *)
EnteredIsFirst ==
  \A c \in Call : pc[c] \in {"inside"} \cup Gone => ahead[c] \cap Line = {}

(* Link p stands for all of S that is still in line. *)
Covers(p, S) ==
  IF p = None THEN S \cap Line = {}
  ELSE p \in Arrived /\ S \cap Line \subseteq ahead[p] \cup {p}

PrevCovers == \A c \in Arrived : Covers(prev[c], ahead[c])
TailCovers == Covers(tail, Line)

(* A task lock's entry belongs to a call that has not left. *)
TaskTailInLine == kind = "taskLock" /\ tail # None => tail \in Line

(* Any lock's entry belongs to a call whose tail is not settled. *)
TailIsUnsettled == tail \notin settled

IInv ==
  /\ TypeOK
  /\ SettledHasLeft /\ AheadHasArrived /\ EnteredIsFirst
  /\ PrevCovers /\ TailCovers /\ TaskTailInLine /\ TailIsUnsettled

USE NoneAssumption

LEMMA InitHolds == Init => IInv
  BY DEF Init, IInv, TypeOK, Kind, Gone, SettledHasLeft, AheadHasArrived, Arrived,
     EnteredIsFirst, PrevCovers, TailCovers, Covers, Line, TaskTailInLine,
     TailIsUnsettled

----------------------------------------------------------------------------
(* Each step preserves the invariant. *)

LEMMA ArriveStep ==
  ASSUME IInv, NEW c \in Call, Arrive(c)
  PROVE  IInv'
  <1> USE DEF Arrive, IInv, Line, Arrived, TypeOK, Gone
  <1>1. Line' = Line \cup {c} /\ Arrived' = Arrived \cup {c} /\ c \notin Arrived
    OBVIOUS
  <1>2. c \notin settled
    BY DEF SettledHasLeft
  <1>3. TypeOK'
    BY DEF TailCovers, Covers
  <1>4. SettledHasLeft' /\ TailIsUnsettled'
    BY <1>2 DEF SettledHasLeft, TailIsUnsettled
  <1>5. AheadHasArrived'
    BY <1>1 DEF AheadHasArrived
  <1>6. EnteredIsFirst'
    BY <1>1 DEF EnteredIsFirst, AheadHasArrived
  <1>7. PrevCovers'
    <2> SUFFICES ASSUME NEW d \in Arrived' PROVE Covers(prev[d], ahead[d])'
      BY DEF PrevCovers
    <2>1. CASE d = c
      BY <1>1, <2>1 DEF TailCovers, Covers
    <2>2. CASE d # c
      <3>1. d \in Arrived /\ Covers(prev[d], ahead[d])
        BY <1>1, <2>2 DEF PrevCovers
      <3>2. prev'[d] = prev[d] /\ ahead'[d] = ahead[d] /\ c \notin ahead[d]
        BY <1>1, <2>2 DEF AheadHasArrived
      <3>3. ahead[d] \cap Line' = ahead[d] \cap Line
        BY <1>1, <3>2
      <3>4. prev[d] # None => prev[d] # c /\ ahead'[prev[d]] = ahead[prev[d]]
        BY <1>1, <3>1 DEF Covers
      <3> QED BY <1>1, <3>1, <3>2, <3>3, <3>4 DEF Covers
    <2> QED BY <2>1, <2>2
  <1>8. TailCovers'
    BY <1>1 DEF TailCovers, Covers
  <1>9. TaskTailInLine'
    BY <1>1 DEF TaskTailInLine
  <1> QED BY <1>3, <1>4, <1>5, <1>6, <1>7, <1>8, <1>9

(* prev has settled, so it has left, and so has everyone ahead of it. *)
LEMMA EnterIsFirst ==
  ASSUME IInv, NEW c \in Call, Enter(c)
  PROVE  ahead[c] \cap Line = {}
  <1> DEFINE p == prev[c]
  <1>1. Covers(p, ahead[c])
    BY DEF IInv, PrevCovers, Arrived, Enter
  <1>2. CASE p = None
    BY <1>1, <1>2 DEF Covers
  <1>3. CASE p # None
    <2>1. p \in Call /\ pc[p] \in Gone
      BY <1>3 DEF Enter, Resolved, IInv, SettledHasLeft, TypeOK
    <2>2. ahead[p] \cap Line = {} /\ p \notin Line
      BY <2>1 DEF IInv, EnteredIsFirst, Line, Gone
    <2> QED BY <1>1, <1>3, <2>2 DEF Covers
  <1> QED BY <1>2, <1>3

LEMMA EnterStep ==
  ASSUME IInv, NEW c \in Call, Enter(c)
  PROVE  IInv'
  <1> USE DEF Enter, IInv, TypeOK, Gone
  <1>1. Line' = Line /\ Arrived' = Arrived
    BY DEF Line, Arrived
  <1>2. ahead[c] \cap Line = {}
    BY EnterIsFirst
  <1>3. TypeOK' /\ SettledHasLeft' /\ TailIsUnsettled'
    BY DEF SettledHasLeft, TailIsUnsettled
  <1>4. EnteredIsFirst'
    BY <1>1, <1>2 DEF EnteredIsFirst
  <1> QED
    BY <1>1, <1>3, <1>4
    DEF AheadHasArrived, PrevCovers, TailCovers, Covers, TaskTailInLine

(* A holder whose tail is the entry is alone in line. *)
LEMMA HolderOfTailIsAlone ==
  ASSUME IInv, NEW c \in Call, pc[c] \in {"inside"} \cup Gone, tail = c
  PROVE  Line \subseteq {c}
  BY DEF IInv, TailCovers, Covers, EnteredIsFirst

LEMMA LeaveStep ==
  ASSUME IInv, NEW c \in Call, Leave(c)
  PROVE  IInv'
  <1> USE DEF Leave, DropEntry, IInv, TypeOK, Gone, Kind
  <1>1. Line' = Line \ {c} /\ Arrived' = Arrived
    BY DEF Line, Arrived
  <1>2. tail' # tail => tail = c /\ tail' = None
    OBVIOUS
  <1>3. TypeOK' /\ SettledHasLeft' /\ AheadHasArrived'
    BY <1>1 DEF SettledHasLeft, AheadHasArrived
  <1>4. EnteredIsFirst'
    BY <1>1 DEF EnteredIsFirst
  <1>5. PrevCovers'
    BY <1>1 DEF PrevCovers, Covers
  <1>6. TailCovers'
    BY <1>1, <1>2, HolderOfTailIsAlone DEF TailCovers, Covers
  <1>7. TaskTailInLine'
    BY <1>1 DEF TaskTailInLine
  <1>8. TailIsUnsettled'
    BY <1>2 DEF TailIsUnsettled
  <1> QED BY <1>3, <1>4, <1>5, <1>6, <1>7, <1>8

LEMMA SettleStep ==
  ASSUME IInv, NEW c \in Call, SettleTail(c)
  PROVE  IInv'
  <1> USE DEF SettleTail, DropEntry, IInv, TypeOK, Gone, Kind
  <1>1. Line' = Line /\ Arrived' = Arrived /\ c \notin Line
    BY DEF Line, Arrived
  <1>2. tail' # tail => tail = c /\ tail' = None
    OBVIOUS
  <1>3. TypeOK' /\ SettledHasLeft' /\ AheadHasArrived' /\ EnteredIsFirst'
    BY <1>1 DEF SettledHasLeft, AheadHasArrived, EnteredIsFirst
  <1>4. PrevCovers'
    BY <1>1 DEF PrevCovers, Covers
  <1>5. TailCovers'
    BY <1>1, <1>2, HolderOfTailIsAlone DEF TailCovers, Covers
  <1>6. TaskTailInLine'
    BY <1>1 DEF TaskTailInLine
  <1>7. TailIsUnsettled'
    <2>1. CASE kind = "taskLock"
      BY <1>1, <2>1 DEF TailIsUnsettled, TaskTailInLine
    <2>2. CASE kind = "repoLock"
      BY <2>2 DEF TailIsUnsettled
    <2> QED BY <2>1, <2>2
  <1> QED BY <1>3, <1>4, <1>5, <1>6, <1>7

(* The inductive invariant. *)
THEOREM Invariance == Spec => []IInv
  <1>1. Init => IInv
    BY InitHolds
  <1>2. IInv /\ [Next]_vars => IInv'
    <2> SUFFICES ASSUME IInv, [Next]_vars PROVE IInv'
      OBVIOUS
    <2>1. ASSUME NEW c \in Call, Arrive(c) PROVE IInv'
      BY <2>1, ArriveStep
    <2>2. ASSUME NEW c \in Call, Enter(c) PROVE IInv'
      BY <2>2, EnterStep
    <2>3. ASSUME NEW c \in Call, Leave(c) PROVE IInv'
      BY <2>3, LeaveStep
    <2>4. ASSUME NEW c \in Call, SettleTail(c) PROVE IInv'
      BY <2>4, SettleStep
    <2>5. CASE UNCHANGED vars
      BY <2>5 DEF vars, IInv, TypeOK, SettledHasLeft, AheadHasArrived, EnteredIsFirst,
         PrevCovers, TailCovers, Covers, TaskTailInLine, TailIsUnsettled, Line, Arrived
    <2> QED BY <2>1, <2>2, <2>3, <2>4, <2>5 DEF Next
  <1> QED BY <1>1, <1>2, PTL DEF Spec

----------------------------------------------------------------------------
(* What callers rely on. *)

(* Of two calls in line one was there before the other. *)
InLineInOrder == \A c, d \in Line : c = d \/ c \in ahead[d] \/ d \in ahead[c]

LEMMA OrderHolds == Spec => []InLineInOrder
  <1>1. Init => InLineInOrder
    BY DEF Init, InLineInOrder, Line
  <1>2. TypeOK /\ InLineInOrder /\ [Next]_vars => InLineInOrder'
    <2> SUFFICES ASSUME TypeOK, InLineInOrder, [Next]_vars PROVE InLineInOrder'
      OBVIOUS
    <2> USE DEF TypeOK, InLineInOrder, Gone
    <2>1. ASSUME NEW c \in Call, Arrive(c) PROVE InLineInOrder'
      <3>1. Line' = Line \cup {c} /\ ahead'[c] = Line
        BY <2>1 DEF Arrive, Line
      <3>2. \A d \in Line : d # c /\ ahead'[d] = ahead[d]
        BY <2>1 DEF Arrive, Line
      <3> QED BY <3>1, <3>2
    <2>2. ASSUME NEW c \in Call, Enter(c) \/ Leave(c) \/ SettleTail(c)
          PROVE  InLineInOrder'
      <3>1. Line' \subseteq Line /\ ahead' = ahead
        BY <2>2 DEF Enter, Leave, SettleTail, Line
      <3> QED BY <3>1
    <2>3. CASE UNCHANGED vars
      BY <2>3 DEF vars, Line
    <2> QED BY <2>1, <2>2, <2>3 DEF Next
  <1>3. IInv => TypeOK
    BY DEF IInv
  <1> QED BY <1>1, <1>2, <1>3, Invariance, PTL DEF Spec

LEMMA OneInside == IInv /\ InLineInOrder => Exclusion
  <1> SUFFICES ASSUME IInv, InLineInOrder, NEW c \in Inside, NEW d \in Inside
               PROVE  c = d
    BY DEF Exclusion
  <1>1. c \in Line /\ d \in Line /\ ahead[c] \cap Line = {} /\ ahead[d] \cap Line = {}
    BY DEF Inside, Line, IInv, EnteredIsFirst
  <1> QED BY <1>1 DEF InLineInOrder

(* Exclusion: one critical section of a key at a time. *)
THEOREM MutualExclusion == Spec => []Exclusion
  BY OneInside, Invariance, OrderHolds, PTL

(* A task lock's map entry says whether the lock is held or awaited. *)
THEOREM EntryMeansLocked == Spec => []EntryIffLocked
  <1>1. IInv => EntryIffLocked
    BY DEF IInv, TypeOK, EntryIffLocked, TaskTailInLine, TailCovers, Covers
  <1> QED BY <1>1, Invariance, PTL

(* Once every tail settled, no entry is left. *)
THEOREM IdleMapIsEmpty == Spec => []IdleHasNoEntry
  <1>1. IInv => IdleHasNoEntry
    BY DEF IInv, TypeOK, IdleHasNoEntry, TailIsUnsettled, TailCovers, Covers, Arrived
  <1> QED BY <1>1, Invariance, PTL

(* PromiseLock implements FifoLock. *)
THEOREM ImplementsFifoLock == Spec => FifoSpec
  <1>1. Init => Fifo!Init
    BY DEF Init, Fifo!Init, Line, Inside
  <1>2. IInv /\ Exclusion /\ Exclusion' /\ [Next]_vars => [Fifo!Next]_(Fifo!vars)
    <2> SUFFICES ASSUME IInv, Exclusion, Exclusion', [Next]_vars
                 PROVE  [Fifo!Next]_(Fifo!vars)
      OBVIOUS
    <2> USE DEF Gone, Line, Inside
    <2>1. ASSUME NEW c \in Call, Arrive(c) PROVE Fifo!Arrive(c)
      BY <2>1 DEF Arrive, Fifo!Arrive, IInv, TypeOK
    <2>2. ASSUME NEW c \in Call, Enter(c) PROVE Fifo!Enter(c)
      <3>1. ahead[c] \cap Line = {}
        BY <2>2, EnterIsFirst
      <3>2. /\ Line' = Line /\ ahead' = ahead
            /\ Inside' = Inside \cup {c} /\ c \in Line \ Inside
        BY <2>2 DEF Enter, IInv, TypeOK
      <3>3. Inside = {}
        BY <3>2 DEF Exclusion
      <3> HIDE DEF Line, Inside
      <3> QED BY <3>1, <3>2, <3>3 DEF Fifo!Enter
    <2>3. ASSUME NEW c \in Call, Leave(c) PROVE Fifo!Leave(c)
      <3>1. /\ Line' = Line \ {c} /\ ahead' = ahead
            /\ Inside' = Inside \ {c} /\ c \in Inside
        BY <2>3 DEF Leave, IInv, TypeOK
      <3>2. Inside = {c}
        BY <3>1 DEF Exclusion
      <3> HIDE DEF Line, Inside
      <3> QED BY <3>1, <3>2 DEF Fifo!Leave
    <2>4. ASSUME NEW c \in Call, SettleTail(c) PROVE UNCHANGED Fifo!vars
      BY <2>4 DEF SettleTail, Fifo!vars
    <2>5. CASE UNCHANGED vars
      BY <2>5 DEF vars, Fifo!vars
    <2> QED BY <2>1, <2>2, <2>3, <2>4, <2>5 DEF Next, Fifo!Next
  <1> QED BY <1>1, <1>2, Invariance, MutualExclusion, PTL DEF Spec, FifoSpec, Fifo!Spec
=============================================================================
