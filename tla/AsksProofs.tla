----------------------------- MODULE AsksProofs -----------------------------
(*******************************************************************************)
(* Asks, for every set of questions and turns and any faults: a question that  *)
(* waits can be answered, a Stop dismisses what was asked, and an answer goes  *)
(* to its question or out as a message.  The invariant follows a question from the registry to its       *)
(* outcome: who may still be told what depends only on how its waiter settled. *)
(*******************************************************************************)
EXTENDS Asks, TLAPS

(* The slot holds the one running turn. *)
SlotRuns == \A t \in Turn : turn[t] = "running" <=> slot = t

(* The registry holds exactly the questions that wait. *)
ParkedWaits ==
  \A a \in Ask :
    /\ a \in parked <=> waiter[a] = "waiting"
    /\ waiter[a] # "none" => asker[a] # None /\ owner[a] # None

(* What is said of a question agrees with how its waiter settled. *)
WordsAgree ==
  \A a \in Ask :
    /\ a \in receipt <=> waiter[a] = "answered"
    /\ told[a] \in {"answer", "error"} \/ outcome[a] = "answer" => waiter[a] = "answered"
    /\ told[a] = "dismissal" \/ outcome[a] = "dismissal" => waiter[a] = "dismissed"

(* An answer goes out as a message only when nobody waits for it any more. *)
PostedIsSettled ==
  \A a \in Ask : posted[a] > 0 => asker[a] # None /\ waiter[a] \in {"none", "dismissed"}

IInv ==
  /\ TypeOK
  /\ SlotRuns /\ StopDismisses
  /\ ParkedWaits /\ WordsAgree /\ PostedIsSettled

USE NoneAssumption, MaxPostAssumption

LEMMA InitHolds == Init => IInv
  <1> SUFFICES ASSUME Init PROVE IInv
    OBVIOUS
  <1> USE DEF Init
  <1>1. awaiting \in BOOLEAN
    OBVIOUS
  <1>2. TypeOK
    BY <1>1 DEF TypeOK, Word, Heard
  <1>3. SlotRuns /\ StopDismisses /\ ParkedWaits /\ WordsAgree /\ PostedIsSettled
    BY DEF SlotRuns, StopDismisses, ParkedWaits, WordsAgree, PostedIsSettled
  <1> QED BY <1>2, <1>3 DEF IInv

LEMMA TurnSteps ==
  ASSUME IInv, NEW t \in Turn, StartTurn(t) \/ TurnEnds(t)
  PROVE  IInv'
  <1> USE DEF IInv, TypeOK, Word, Heard, askVars
  <1>1. asker' = asker /\ owner' = owner /\ parked' = parked /\ waiter' = waiter
        /\ outcome' = outcome /\ told' = told /\ receipt' = receipt
        /\ posted' = posted /\ driver' = driver
    BY DEF StartTurn, TurnEnds
  <1>a. awaiting' \in BOOLEAN
    BY DEF StartTurn, TurnEnds
  <1>b. slot' \in Turn \cup {None} /\ SlotRuns'
        /\ turn' \in [Turn -> {"new", "running", "stopped", "over"}]
    BY DEF StartTurn, TurnEnds, SlotRuns, Alive
  <1>2. TypeOK' /\ SlotRuns'
    BY <1>1, <1>a, <1>b DEF Bridged
  <1>3. StopDismisses'
    BY <1>1 DEF StopDismisses, StartTurn, TurnEnds, ParkedWaits
  <1>4. ParkedWaits' /\ WordsAgree' /\ PostedIsSettled'
    BY <1>1 DEF ParkedWaits, WordsAgree, PostedIsSettled
  <1> QED BY <1>2, <1>3, <1>4

LEMMA StopStep ==
  ASSUME IInv, Stop
  PROVE  IInv'
  <1> USE DEF IInv, TypeOK, Word, Heard, Stop, Dismiss
  <1>1. TypeOK'
    BY DEF Bridged
  <1>2. SlotRuns'
    BY DEF SlotRuns
  <1>3. StopDismisses'
    BY DEF StopDismisses, ParkedWaits
  <1>4. ParkedWaits'
    BY DEF ParkedWaits
  <1>5. WordsAgree'
    BY DEF WordsAgree, ParkedWaits
  <1>6. PostedIsSettled'
    BY DEF PostedIsSettled
  <1> QED BY <1>1, <1>2, <1>3, <1>4, <1>5, <1>6

LEMMA AskSteps ==
  ASSUME IInv, NEW t \in Turn, NEW a \in Ask,
         AskInTurn(t, a) \/ AskTooLate(t, a) \/ AskByBridge(t, a)
  PROVE  IInv'
  <1> USE DEF IInv, TypeOK, Word, Heard, AskInTurn, AskTooLate, AskByBridge, Park, turnVars
  <1>1. asker[a] = None /\ waiter[a] = "none" /\ a \notin parked
        /\ outcome[a] = "none" /\ told[a] = "none" /\ a \notin receipt /\ posted[a] = 0
    BY DEF ParkedWaits, WordsAgree, PostedIsSettled, Bridged
  <1>a. awaiting' \in BOOLEAN
    OBVIOUS
  <1>b. \A b \in Ask : outcome'[b] # "none" => Bridged(b)'
    BY <1>1 DEF Bridged
  <1>2. TypeOK'
    BY <1>1, <1>a, <1>b
  <1>3. SlotRuns'
    BY DEF SlotRuns
  <1>4. StopDismisses'
    BY DEF StopDismisses, SlotRuns, ParkedWaits
  <1>5. ParkedWaits'
    BY <1>1 DEF ParkedWaits
  <1>6. WordsAgree'
    BY <1>1 DEF WordsAgree
  <1>7. PostedIsSettled'
    BY <1>1 DEF PostedIsSettled
  <1> QED BY <1>2, <1>3, <1>4, <1>5, <1>6, <1>7

LEMMA AnswerSteps ==
  ASSUME IInv, NEW a \in Ask, AnswerParked(a) \/ AnswerUnparked(a)
  PROVE  IInv'
  <1> USE DEF IInv, TypeOK, Word, Heard, turnVars, askVars
  <1>1. CASE AnswerParked(a)
    <2> USE <1>1 DEF AnswerParked, Continue
    <2>a. awaiting' \in BOOLEAN
      BY DEF ClearAwaiting
    <2>b. /\ outcome' \in [Ask -> Word]
          /\ told' \in [Ask -> Heard]
          /\ \A b \in Ask : outcome'[b] # "none" => Bridged(b)'
      BY DEF Bridged, ParkedWaits
    <2>1. TypeOK'
      BY <2>a, <2>b
    <2>2. SlotRuns' /\ StopDismisses'
      BY DEF SlotRuns, StopDismisses
    <2>3. ParkedWaits'
      BY DEF ParkedWaits
    <2>4. WordsAgree'
      BY DEF WordsAgree, ParkedWaits
    <2>5. PostedIsSettled'
      BY DEF PostedIsSettled, ParkedWaits
    <2> QED BY <2>1, <2>2, <2>3, <2>4, <2>5
  <1>2. CASE AnswerUnparked(a)
    <2> USE <1>2 DEF AnswerUnparked, NotWaiting
    <2>1. TypeOK' /\ SlotRuns' /\ StopDismisses' /\ ParkedWaits' /\ WordsAgree'
      BY DEF SlotRuns, StopDismisses, ParkedWaits, WordsAgree, Bridged
    <2>2. PostedIsSettled'
      BY DEF PostedIsSettled, ParkedWaits, WordsAgree
    <2> QED BY <2>1, <2>2
  <1> QED BY <1>1, <1>2

LEMMA HearSteps ==
  ASSUME IInv, NEW a \in Ask, Respond(a) \/ RespondFails(a) \/ Poll(a)
  PROVE  IInv'
  <1> USE DEF IInv, TypeOK, Word, Heard, turnVars, Respond, RespondFails, Responding, Poll
  <1>a. awaiting' \in BOOLEAN
    BY DEF ClearAwaiting
  <1>b. /\ outcome' \in [Ask -> Word]
        /\ told' \in [Ask -> Heard]
        /\ \A b \in Ask : outcome'[b] # "none" => Bridged(b)'
    BY DEF Bridged
  <1>1. TypeOK'
    BY <1>a, <1>b
  <1>2. SlotRuns' /\ StopDismisses' /\ ParkedWaits' /\ PostedIsSettled'
    BY DEF SlotRuns, StopDismisses, ParkedWaits, PostedIsSettled
  <1>3. WordsAgree'
    BY DEF WordsAgree
  <1> QED BY <1>1, <1>2, <1>3

LEMMA RestartStep ==
  ASSUME IInv, Restart
  PROVE  IInv'
  <1> USE DEF IInv, TypeOK, Word, Heard, Restart
  <1>1. TypeOK' /\ SlotRuns' /\ StopDismisses'
    BY DEF SlotRuns, StopDismisses, Bridged
  <1>2. ParkedWaits' /\ WordsAgree' /\ PostedIsSettled'
    BY DEF ParkedWaits, WordsAgree, PostedIsSettled
  <1> QED BY <1>1, <1>2

(* The inductive invariant. *)
THEOREM Invariance == Spec => []IInv
  <1>1. IInv /\ [Next]_vars => IInv'
    <2> SUFFICES ASSUME IInv, [Next]_vars PROVE IInv'
      OBVIOUS
    <2>1. CASE Next
      BY <2>1, TurnSteps, StopStep, AskSteps, AnswerSteps, HearSteps, RestartStep DEF Next
    <2>2. CASE UNCHANGED vars
      BY <2>2 DEF vars, turnVars, askVars, IInv, TypeOK, Bridged, SlotRuns, StopDismisses,
         ParkedWaits, WordsAgree, PostedIsSettled
    <2> QED BY <2>1, <2>2
  <1> QED BY InitHolds, <1>1, PTL DEF Spec

(* Type correctness. *)
THEOREM TypeCorrect == Spec => []TypeOK
  <1>1. IInv => TypeOK
    BY DEF IInv
  <1> QED BY <1>1, Invariance, PTL

(* No question hides another: whoever waits can be answered. *)
THEOREM Answerable == Spec => []OpenQuestionIsAnswerable
  <1>1. IInv => OpenQuestionIsAnswerable
    BY DEF IInv, ParkedWaits, OpenQuestionIsAnswerable
  <1> QED BY <1>1, Invariance, PTL

(* A Stop leaves no parked question behind. *)
THEOREM StopLeavesNothing == Spec => []StopDismisses
  <1>1. IInv => StopDismisses
    BY DEF IInv
  <1> QED BY <1>1, Invariance, PTL

(* An answer goes to its question or out as a message, never both ways, and  *)
(* no agent is told of a question both that it was answered and dismissed.   *)
THEOREM AnsweredOneWay == Spec => []AnswerGoesOneWay
  <1>1. IInv => AnswerGoesOneWay
    BY DEF IInv, TypeOK, Word, Heard, WordsAgree, PostedIsSettled, AnswerGoesOneWay
  <1> QED BY <1>1, Invariance, PTL
=============================================================================
