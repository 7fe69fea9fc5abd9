--------------------------- MODULE MergeFlowProofs ---------------------------
(*****************************************************************************)
(* MergeFlow, for any edits, conflicts and number of commits, however the    *)
(* base branch moves and whatever runs beside a request: the commit the diff *)
(* starts from is in the base branch, and the base branch keeps its commits. *)
(* Unless a page may ask for the merge of a paused merge, no conflict marker *)
(* is ever committed.  Where no unlocked route comes inside a request        *)
(* (Overlap), no edit of the agent is lost; where nobody moves the base      *)
(* between merge-tree and rev-parse either (Quiet), it loses no content.     *)
(* The room a request reserves for its commits when it begins is enough.     *)
(*****************************************************************************)
EXTENDS MergeFlow, SequenceTheorems, FiniteSetTheorems, WellFoundedInduction, TLAPS

Made == 1 .. Len(commits)
Stamp == [parents : Seq(Nat), has : SUBSET Content, hist : SUBSET Nat]

(* The ancestors a commit carries are closed, and all commits have the root. *)
Graph ==
  /\ commits \in Seq(Stamp) /\ 1 \in Made
  /\ \A c \in Made :
       /\ {1, c} \subseteq commits[c].hist /\ commits[c].hist \subseteq 1 .. c
       /\ \A d \in commits[c].hist : commits[d].hist \subseteq commits[c].hist
       /\ \A i \in DOMAIN commits[c].parents : commits[c].parents[i] \in 1 .. c - 1

(* The worktree, row, diff and request, given the commits `cs` and the tips `w` of *)
(* the task's branch and `b` of the base branch.  What the row, and a diff about   *)
(* to heal it, start from is in the base branch.                                   *)
DeskFits(t, m, cs) ==
  /\ t \in [files : SUBSET Content, merging : {0} \cup 1 .. Len(cs)]
  /\ m \in {0} \cup 1 .. Len(cs)
RowFits(r, cs, b) ==
  r \in [path : BOOLEAN, sha : Nat, merged : BOOLEAN] /\ r.sha \in cs[b].hist
LoadFits(l, cs, b) ==
  /\ l \in [on : BOOLEAN, sha : Nat, merged : {"keep", "set", "clear"}]
  /\ l.on => l.sha \in cs[b].hist

(* What each stage of a request remembers: from the commit on, the tip it will    *)
(* record is in the task's branch, which only grows under it; once landed, in the *)
(* base branch.  A catch-up remembers a tip of the base branch.                   *)
OpFits(o, cs, w, b) ==
  /\ o \in [kind : Kinds \cup {"none"}, at : Steps, tip : Nat, old : Nat, wtip : Nat,
            plan : SUBSET Content]
  /\ o.at \in {"lock", "tree", "tips", "cas", "worktree", "inplace"} =>
       o.tip \in {0} \cup cs[w].hist
  /\ o.at = "cas" => o.wtip \in 1 .. Len(cs) /\ o.tip \in {0} \cup cs[o.wtip].hist
  /\ o.at \in {"record", "save"} => o.tip \in {0} \cup cs[b].hist
  /\ o.at = "ff" \/ (o.kind = "sync" /\ o.at \in {"pre", "mark", "trial"}) =>
       o.tip \in cs[b].hist
  /\ o.at = "reset" => o.tip \in {0} \cup 1 .. Len(cs)

IInv ==
  /\ Graph /\ work \in Made /\ base \in Made
  /\ DeskFits(tree, marker, commits)
  /\ RowFits(row, commits, base) /\ LoadFits(load, commits, base)
  /\ OpFits(op, commits, work, base)

(* Markers are in no commit, and in the worktree only while a merge is paused. *)
Unmarked ==
  /\ \A c \in Made : Markers \notin commits[c].has
  /\ Markers \in tree.files => tree.merging # 0
  /\ Markers \notin op.plan
  /\ op.at = "commit" => tree.merging = 0

USE MergeAssumption

----------------------------------------------------------------------------
(* The graph of commits *)

(* What commits hold and descend from is for ever. *)
Kept == /\ Len(commits') >= Len(commits)
        /\ \A c \in Made : commits'[c] = commits[c]

LEMMA CommitIs ==
  ASSUME Graph, NEW a \in Made, NEW b \in Made, NEW files \in SUBSET Content,
         (Commit(<<a>>, files) /\ a = b) \/ Commit(<<a, b>>, files)
  PROVE  /\ Graph' /\ Kept /\ Next1 \in Made'
         /\ commits[a].hist \subseteq commits'[Next1].hist
         /\ commits[b].hist \subseteq commits'[Next1].hist
         /\ commits'[Next1].has = files
         /\ Made' = Made \cup {Next1} /\ Next1 \in Nat \ {0}
  <1>1. Len(commits) \in Nat /\ Next1 = Len(commits) + 1
    BY LenProperties DEF Graph, Next1
  <1>2. PICK ps \in Seq(Nat) :
          /\ \A i \in DOMAIN ps : ps[i] \in Made
          /\ Commit(ps, files)
          /\ UNION {Hist(ps[i]) : i \in DOMAIN ps} = commits[a].hist \cup commits[b].hist
    <2>0. a \in Nat \ {0} /\ b \in Nat \ {0}
      BY <1>1 DEF Made
    <2>1. CASE Commit(<<a>>, files) /\ a = b
      <3>1. <<a>> \in Seq(Nat) /\ DOMAIN <<a>> = {1} /\ <<a>>[1] = a
        BY <2>0
      <3>2. UNION {Hist(<<a>>[i]) : i \in DOMAIN <<a>>} = Hist(a)
        BY <3>1
      <3>3. Hist(a) = commits[a].hist
        BY <2>0 DEF Hist
      <3> QED BY <2>1, <3>1, <3>2, <3>3
    <2>2. CASE Commit(<<a, b>>, files)
      <3>1. /\ <<a, b>> \in Seq(Nat) /\ DOMAIN <<a, b>> = {1, 2}
            /\ <<a, b>>[1] = a /\ <<a, b>>[2] = b
        BY <2>0
      <3>2. UNION {Hist(<<a, b>>[i]) : i \in DOMAIN <<a, b>>} = Hist(a) \cup Hist(b)
        BY <3>1
      <3>3. Hist(a) = commits[a].hist /\ Hist(b) = commits[b].hist
        BY <2>0 DEF Hist
      <3>4. \A i \in DOMAIN <<a, b>> : <<a, b>>[i] \in Made
        BY <3>1
      <3> DEFINE ps == <<a, b>>
      <3>5. /\ ps \in Seq(Nat) /\ \A i \in DOMAIN ps : ps[i] \in Made
            /\ Commit(ps, files)
            /\ UNION {Hist(ps[i]) : i \in DOMAIN ps} = commits[a].hist \cup commits[b].hist
        BY <2>2, <3>1, <3>2, <3>3, <3>4
      <3> HIDE DEF ps
      <3> QED BY <3>5
    <2> QED BY <2>1, <2>2
  <1> DEFINE new == [parents |-> ps, has |-> files,
                     hist |-> {Next1} \cup commits[a].hist \cup commits[b].hist]
  <1>3. commits' = Append(commits, new)
    BY <1>2 DEF Commit
  <1>4. commits[a].hist \subseteq 1 .. a /\ commits[b].hist \subseteq 1 .. b
    BY DEF Graph
  <1>5. new \in Stamp
    BY <1>1, <1>2, <1>4 DEF Stamp, Made
  <1>6. /\ commits' \in Seq(Stamp) /\ Len(commits') = Len(commits) + 1
        /\ \A c \in Made : commits'[c] = commits[c]
        /\ commits'[Next1] = new
    BY <1>1, <1>3, <1>5, AppendProperties DEF Graph, Made
  <1>7. Made' = Made \cup {Next1} /\ Next1 \notin Made
    <2>1. \A x : x \in 1 .. Len(commits') <=> x \in 1 .. Len(commits) \/ x = Next1
      BY <1>1, <1>6
    <2> QED BY <1>1, <2>1 DEF Made
  <1>8. ASSUME NEW c \in Made'
        PROVE  /\ {1, c} \subseteq commits'[c].hist /\ commits'[c].hist \subseteq 1 .. c
               /\ \A d \in commits'[c].hist : commits'[d].hist \subseteq commits'[c].hist
               /\ \A i \in DOMAIN commits'[c].parents : commits'[c].parents[i] \in 1 .. c - 1
    <2>1. CASE c \in Made
      <3>1. commits[c].hist \subseteq Made
        <4>1. c \in 1 .. Len(commits) /\ 1 .. c \subseteq 1 .. Len(commits)
          BY <1>1, <2>1 DEF Made
        <4> QED BY <2>1, <4>1 DEF Graph, Made
      <3> QED BY <1>6, <1>7, <2>1, <3>1 DEF Graph
    <2>2. CASE c = Next1
      <3>1. new.hist = {Next1} \cup commits[a].hist \cup commits[b].hist /\ new.parents = ps
        OBVIOUS
      <3> HIDE DEF new
      <3>2. commits[a].hist \subseteq Made /\ commits[b].hist \subseteq Made
        BY <1>1, <1>4 DEF Made
      <3>3. {1, c} \subseteq new.hist /\ new.hist \subseteq 1 .. c
        BY <1>1, <2>2, <3>1, <3>2 DEF Graph, Made
      <3>4. \A d \in new.hist : commits'[d].hist \subseteq new.hist
        <4> TAKE d \in new.hist
        <4>1. CASE d = Next1
          BY <1>6, <4>1
        <4>2. CASE d \in commits[a].hist \cup commits[b].hist
          BY <1>6, <3>1, <3>2, <4>2 DEF Graph
        <4> QED BY <3>1, <4>1, <4>2
      <3>5. 1 .. c - 1 = Made
        BY <1>1, <2>2 DEF Made
      <3> QED BY <1>2, <1>6, <2>2, <3>1, <3>3, <3>4, <3>5
    <2> QED BY <1>7, <2>1, <2>2
  <1>9. Graph'
    BY <1>6, <1>7, <1>8 DEF Graph
  <1> QED BY <1>1, <1>6, <1>7, <1>9 DEF Kept

(* Any nonempty set of bounded numbers has a greatest one. *)
LEMMA Greatest ==
  ASSUME NEW n \in Nat, NEW T, T \subseteq 0 .. n, T # {}
  PROVE  \E m \in T : \A k \in T : k <= m
  <1> DEFINE R == OpToRel(<, Nat)
             D == {n - k : k \in T}
  <1>1. \A k \in T : k \in Nat /\ n - k \in Nat
    OBVIOUS
  <1>2. D \subseteq Nat /\ D # {}
    <2>1. PICK k \in T : TRUE
      OBVIOUS
    <2>2. n - k \in D
      BY <2>1
    <2> QED BY <1>1, <2>2
  <1>3. PICK x \in D : \A y \in D : ~ (<<y, x>> \in R)
    <2>1. IsWellFoundedOn(R, Nat)
      BY NatLessThanWellFounded
    <2> HIDE DEF R, D
    <2> QED BY <1>2, <2>1, WFMin
  <1>4. \A y \in D : ~(y < x)
    <2> SUFFICES ASSUME NEW y \in D, y < x PROVE <<y, x>> \in R
      BY <1>3
    <2>1. x \in Nat /\ y \in Nat
      BY <1>2
    <2> QED BY <2>1 DEF OpToRel
  <1>5. PICK m \in T : x = n - m
    OBVIOUS
  <1>6. \A k \in T : k <= m
    <2> TAKE k \in T
    <2>1. ~(n - k < n - m)
      BY <1>4, <1>5
    <2>2. k \in Nat /\ m \in Nat
      BY <1>1
    <2> QED BY <2>1, <2>2
  <1> QED BY <1>6

LEMMA MergeBaseIs ==
  ASSUME Graph, NEW a \in Made, NEW b \in Made
  PROVE  MergeBase(a, b) \in Hist(a) \cap Hist(b)
  <1> DEFINE T == Hist(a) \cap Hist(b)
  <1>1. a \in Nat \ {0} /\ b \in Nat \ {0} /\ a \in Nat
    BY LenProperties DEF Made, Graph
  <1>2. T \subseteq 0 .. a /\ T # {}
    BY <1>1 DEF Graph, Hist
  <1> HIDE DEF T
  <1>3. \E m \in T : \A k \in T : k <= m
    BY <1>1, <1>2, Greatest
  <1> QED BY <1>3 DEF MergeBase, T
----------------------------------------------------------------------------
(* Steps under which both branches only grow *)

WorkOnward == /\ Graph' /\ Kept /\ Made \subseteq Made'
              /\ work' \in Made' /\ commits[work].hist \subseteq commits'[work'].hist
BaseOnward == /\ Graph' /\ Kept /\ Made \subseteq Made'
              /\ base' \in Made' /\ commits[base].hist \subseteq commits'[base'].hist

LEMMA FitsOnward ==
  ASSUME IInv, WorkOnward, BaseOnward
  PROVE  /\ \A t, m : DeskFits(t, m, commits) => DeskFits(t, m, commits')
         /\ \A r : RowFits(r, commits, base) => RowFits(r, commits', base')
         /\ \A l : LoadFits(l, commits, base) => LoadFits(l, commits', base')
         /\ \A o : OpFits(o, commits, work, base) => OpFits(o, commits', work', base')
  <1>1. 1 .. Len(commits) \subseteq 1 .. Len(commits')
    BY DEF WorkOnward, Made
  <1>2. \A c \in 1 .. Len(commits) : commits'[c] = commits[c]
    BY DEF WorkOnward, Kept, Made
  <1>3. /\ commits[work].hist \subseteq commits'[work'].hist
        /\ commits[base].hist \subseteq commits'[base'].hist
    BY DEF WorkOnward, BaseOnward
  <1>4. \A t, m : DeskFits(t, m, commits) => DeskFits(t, m, commits')
    BY <1>1 DEF DeskFits
  <1>5. \A r : RowFits(r, commits, base) => RowFits(r, commits', base')
    BY <1>3 DEF RowFits
  <1>6. \A l : LoadFits(l, commits, base) => LoadFits(l, commits', base')
    BY <1>3 DEF LoadFits
  <1>7. \A o : OpFits(o, commits, work, base) => OpFits(o, commits', work', base')
    BY <1>1, <1>2, <1>3 DEF OpFits
  <1> QED BY <1>4, <1>5, <1>6, <1>7

LEMMA Frame ==
  ASSUME IInv, WorkOnward, BaseOnward,
         DeskFits(tree', marker', commits) \/ DeskFits(tree', marker', commits'),
         RowFits(row', commits, base) \/ RowFits(row', commits', base'),
         LoadFits(load', commits, base),
         OpFits(op', commits, work, base) \/ OpFits(op', commits', work', base')
  PROVE  IInv'
  BY FitsOnward DEF IInv, WorkOnward, BaseOnward

LEMMA MadeIs == ASSUME Graph, NEW c \in Made PROVE c \in Nat \ {0}
  BY LenProperties DEF Graph, Made

LEMMA SameIsOnward ==
  ASSUME IInv, UNCHANGED commits
  PROVE  /\ Graph' /\ Kept /\ Made' = Made
         /\ work' = work => WorkOnward
         /\ base' = base => BaseOnward
  <1>1. Len(commits) \in Nat /\ Made' = Made
    BY LenProperties DEF IInv, Graph, Made
  <1> QED BY <1>1 DEF IInv, Graph, Kept, WorkOnward, BaseOnward

LEMMA TipsAre ==
  ASSUME IInv
  PROVE  /\ Graph /\ work \in Made /\ base \in Made
         /\ work \in Nat \ {0} /\ base \in Nat \ {0} /\ Made \subseteq Nat
         /\ Hist(work) = commits[work].hist /\ Hist(base) = commits[base].hist
         /\ work \in Hist(work) /\ base \in Hist(base)
         /\ Hist(work) \subseteq Made /\ Hist(base) \subseteq Made
         /\ work \in Hist(base) => Hist(work) \subseteq Hist(base)
         /\ Has(work) \in SUBSET Content /\ Has(base) \in SUBSET Content
         /\ Merged(base, work) \in SUBSET Content /\ Merged(work, base) \in SUBSET Content
  <1>1. Graph /\ work \in Made /\ base \in Made
    BY DEF IInv
  <1>2. work \in Nat \ {0} /\ base \in Nat \ {0} /\ Made \subseteq Nat
    BY <1>1, MadeIs
  <1>3. Hist(work) = commits[work].hist /\ Hist(base) = commits[base].hist
    BY <1>2 DEF Hist
  <1>4. \A c \in Made : commits[c].hist \subseteq Made
    <2> SUFFICES ASSUME NEW c \in Made, NEW d \in commits[c].hist PROVE d \in Made
      OBVIOUS
    <2>1. c \in 1 .. Len(commits) /\ d \in 1 .. c /\ Len(commits) \in Nat
      BY <1>1, LenProperties DEF Graph, Made
    <2> QED BY <2>1 DEF Made
  <1>5. commits[work] \in Stamp /\ commits[base] \in Stamp
    BY <1>1, ElementOfSeq DEF Graph, Made
  <1>6. Has(work) \in SUBSET Content /\ Has(base) \in SUBSET Content
    BY <1>2, <1>5 DEF Stamp, Has
  <1>7. Merged(base, work) \in SUBSET Content /\ Merged(work, base) \in SUBSET Content
    BY <1>6 DEF Merged
  <1> QED BY <1>1, <1>2, <1>3, <1>4, <1>6, <1>7 DEF Graph

LEMMA CommitFilesIs ==
  ASSUME IInv, NEW files \in SUBSET Content, CommitFiles(files)
  PROVE  /\ WorkOnward
         /\ tree' = [files |-> files, merging |-> 0]
         /\ \A c \in Made' : c \in Made \/ commits'[c].has = files
  <1>1. PICK b \in Made : \/ (Commit(<<work>>, files) /\ work = b)
                          \/ Commit(<<work, b>>, files)
    BY DEF CommitFiles, IInv, DeskFits, Made
  <1>2. work' = Next1 /\ tree' = [files |-> files, merging |-> 0]
    BY DEF CommitFiles
  <1>3. work \in Made /\ Graph
    BY DEF IInv
  <1> QED BY <1>1, <1>2, <1>3, CommitIs DEF WorkOnward

LEMMA CommitWorktreeIs ==
  ASSUME IInv, CommitWorktree
  PROVE  /\ WorkOnward
         /\ tree' = tree \/ tree' = [files |-> tree.files, merging |-> 0]
         /\ \A c \in Made' : c \in Made \/ commits'[c].has = tree.files
  <1>1. tree.files \in SUBSET Content
    BY DEF IInv, DeskFits
  <1>2. CASE Dirty
    BY <1>1, <1>2, CommitFilesIs DEF CommitWorktree
  <1>3. CASE ~Dirty
    BY <1>3, SameIsOnward DEF CommitWorktree
  <1> QED BY <1>2, <1>3

LEMMA BaseMoves ==
  ASSUME IInv, NEW a \in Made, NEW b \in Made, base \in {a, b},
         NEW files \in SUBSET Content,
         (Commit(<<a>>, files) /\ a = b) \/ Commit(<<a, b>>, files),
         base' = Next1
  PROVE  /\ BaseOnward /\ (work' = work => WorkOnward)
         /\ commits[a].hist \cup commits[b].hist \subseteq commits'[base'].hist
         /\ \A c \in Made' : c \in Made \/ commits'[c].has = files
  <1>1. Graph /\ work \in Made
    BY DEF IInv
  <1>2. work \in Made => commits'[work] = commits[work]
    BY <1>1, CommitIs DEF Kept
  <1> QED BY <1>1, <1>2, CommitIs DEF BaseOnward, WorkOnward

----------------------------------------------------------------------------
(* The steps that move no branch *)

LEMMA LiveBaseIs ==
  ASSUME IInv
  PROVE  LiveBase \in commits[base].hist /\ LiveBase \in Nat
  <1>1. row.sha \in Hist(base) /\ row.sha \in Nat
    BY TipsAre DEF IInv, RowFits
  <1>2. MergeBase(base, work) \in Hist(base)
    BY TipsAre, MergeBaseIs
  <1> QED BY <1>1, <1>2, TipsAre DEF LiveBase

LEMMA StillFrame ==
  ASSUME IInv, UNCHANGED objects,
         DeskFits(tree', marker', commits), RowFits(row', commits, base),
         LoadFits(load', commits, base), OpFits(op', commits, work, base)
  PROVE  IInv'
  BY SameIsOnward, Frame DEF objects

LEMMA NoOpFits == OpFits(NoOp, commits, work, base)
  BY DEF OpFits, NoOp, Steps

LEMMA RequestSteps ==
  ASSUME IInv,
         (\E k \in Kinds : Begin(k)) \/ PreparePaused \/ SetMarker \/ TrialFails
           \/ CompleteRefused \/ MergeRefused \/ RecordMerge \/ SpendMarker
  PROVE  IInv'
  <1> USE StillFrame, NoOpFits, TipsAre DEF Done, desk, routes, world
  <1>1. ASSUME NEW k \in Kinds, Begin(k) PROVE IInv'
    <2>1. /\ op' = [NoOp EXCEPT !.kind = k, !.at = FirstStep[k]]
          /\ UNCHANGED <<objects, tree, marker, row, load>>
      BY <1>1 DEF Begin, Offered, Request
    <2>2. /\ FirstStep[k] \in {"commit", "pre", "stage", "abort", "status", "ensure"}
          /\ k = "sync" => FirstStep[k] = "status"
      BY DEF FirstStep, Kinds
    <2> DEFINE at == FirstStep[k]
    <2>3. op' = [kind |-> k, at |-> at, tip |-> 0, old |-> 0, wtip |-> 0, plan |-> {}]
      BY <2>1 DEF NoOp
    <2>4. at \in {"commit", "pre", "stage", "abort", "status", "ensure"} /\ (k = "sync" => at = "status")
      BY <2>2
    <2> HIDE DEF at
    <2>5. OpFits(op', commits, work, base)
      BY <2>3, <2>4 DEF OpFits, Steps
    <2> QED BY <2>1, <2>5 DEF IInv
  <1>2. CASE PreparePaused
    BY <1>2 DEF PreparePaused, IInv
  <1>3. CASE SetMarker
    <2>1. OpFits(op', commits, work, base)
      BY <1>3 DEF SetMarker, OpFits, Goto, Steps, NoOp, IInv
    <2>2. DeskFits(tree', marker', commits)
      BY <1>3 DEF SetMarker, DeskFits, IInv, Made
    <2> QED BY <1>3, <2>1, <2>2 DEF SetMarker, IInv
  <1>4. CASE TrialFails
    <2>1. DeskFits(tree', marker', commits)
      BY <1>4 DEF TrialFails, DeskFits, IInv, Made
    <2> QED BY <1>4, <2>1 DEF TrialFails, IInv
  <1>5. CASE CompleteRefused
    BY <1>5 DEF CompleteRefused, IInv
  <1>6. CASE MergeRefused
    BY <1>6 DEF MergeRefused, IInv
  <1>7. CASE RecordMerge
    <2>1. RowFits(row', commits, base)
      BY <1>7 DEF RecordMerge, RowFits, IInv, OpFits
    <2> QED BY <1>7, <2>1 DEF RecordMerge, IInv
  <1>8. CASE SpendMarker
    <2>1. OpFits(op', commits, work, base)
      BY <1>8 DEF SpendMarker, OpFits, Goto, Steps, NoOp, IInv
    <2>2. DeskFits(tree', marker', commits)
      BY <1>8 DEF SpendMarker, DeskFits, IInv, Made
    <2> QED BY <1>8, <2>1, <2>2 DEF SpendMarker, IInv
  <1> QED BY <1>1, <1>2, <1>3, <1>4, <1>5, <1>6, <1>7, <1>8

LEMMA MergeSteps ==
  ASSUME IInv,
         MergeLocks \/ MergeTree \/ ReadTips \/ TreeUnsupported
  PROVE  IInv'
  <1> USE StillFrame, NoOpFits, TipsAre DEF Done, desk, routes, world
  <1>1. CASE MergeLocks
    <2>1. OpFits(op', commits, work, base)
      BY <1>1 DEF MergeLocks, OpFits, Goto, Steps, NoOp, IInv
    <2> QED BY <1>1, <2>1 DEF MergeLocks, IInv
  <1>2. CASE MergeTree
    <2>1. OpFits(op', commits, work, base)
      BY <1>2 DEF MergeTree, OpFits, Goto, Steps, NoOp, IInv
    <2> QED BY <1>2, <2>1 DEF MergeTree, IInv
  <1>3. CASE ReadTips
    <2>1. OpFits(op', commits, work, base)
      BY <1>3 DEF ReadTips, OpFits, Goto, Steps, NoOp, IInv, Made
    <2> QED BY <1>3, <2>1 DEF ReadTips, IInv
  <1>4. CASE TreeUnsupported
    <2>1. OpFits(op', commits, work, base)
      BY <1>4 DEF TreeUnsupported, OpFits, Goto, Steps, NoOp, IInv
    <2> QED BY <1>4, <2>1 DEF TreeUnsupported, IInv
  <1> QED BY <1>1, <1>2, <1>3, <1>4

LEMMA AbortSteps ==
  ASSUME IInv,
         AbortPaused \/ AbortLooks \/ EnsureWorktree \/ SyncStatus
  PROVE  IInv'
  <1> USE StillFrame, NoOpFits, TipsAre DEF Done, desk, routes, world
  <1>1. CASE AbortPaused
    <2>1. DeskFits(tree', marker', commits)
      BY <1>1 DEF AbortPaused, DeskFits, IInv, Made, Clean
    <2> QED BY <1>1, <2>1 DEF AbortPaused, IInv
  <1>2. CASE AbortLooks
    <2>1. CASE marker = 0
      BY <1>2, <2>1 DEF AbortLooks, IInv
    <2>2. CASE marker # 0
      <3>1. PICK t \in {0, marker} : op' = [op EXCEPT !.at = "reset", !.tip = t]
        BY <1>2, <2>2 DEF AbortLooks
      <3>2. t \in {0} \cup 1 .. Len(commits) /\ t \in Nat
        BY <3>1, LenProperties DEF IInv, DeskFits, Graph
      <3>3. OpFits(op', commits, work, base)
        BY <3>1, <3>2 DEF OpFits, Steps, IInv
      <3> QED BY <1>2, <3>3 DEF AbortLooks, IInv
    <2> QED BY <2>1, <2>2
  <1>3. CASE EnsureWorktree
    <2>1. OpFits(op', commits, work, base)
      BY <1>3 DEF EnsureWorktree, OpFits, Goto, Steps, IInv
    <2>2. row' = row \/ row' = [row EXCEPT !.path = TRUE, !.sha = base]
      BY <1>3 DEF EnsureWorktree
    <2>3. RowFits(row', commits, base)
      <3>1. base \in commits[base].hist /\ base \in Nat /\ RowFits(row, commits, base)
        BY DEF IInv
      <3> QED BY <2>2, <3>1 DEF RowFits
    <2>4. DeskFits(tree', marker', commits)
      BY <1>3 DEF EnsureWorktree, DeskFits, IInv, Made, Clean
    <2> QED BY <1>3, <2>1, <2>3, <2>4 DEF EnsureWorktree, IInv
  <1>4. CASE SyncStatus
    <2>1. \/ op' = NoOp \/ op' = [op EXCEPT !.at = "ff", !.tip = base]
          \/ op' = [op EXCEPT !.at = "pre", !.tip = base]
      BY <1>4 DEF SyncStatus
    <2>2. OpFits(op', commits, work, base)
      <3>1. base \in commits[base].hist /\ base \in Nat /\ OpFits(op, commits, work, base)
        BY DEF IInv
      <3>2. CASE op' = [op EXCEPT !.at = "ff", !.tip = base]
        BY <3>1, <3>2 DEF OpFits, Steps
      <3>3. CASE op' = [op EXCEPT !.at = "pre", !.tip = base]
        BY <3>1, <3>3 DEF OpFits, Steps
      <3> QED BY <2>1, <3>2, <3>3
    <2> QED BY <1>4, <2>2 DEF SyncStatus, IInv
  <1> QED BY <1>1, <1>2, <1>3, <1>4

LEMMA RouteSteps ==
  ASSUME IInv,
         DiffReads \/ DiffHeals \/ PruneChecks \/ PruneRemoves \/ PruneRecords
  PROVE  IInv'
  <1> USE StillFrame, NoOpFits, TipsAre DEF Done, desk, routes, world
  <1>1. CASE DiffReads
    <2>1. LoadFits(load', commits, base)
      BY <1>1, LiveBaseIs DEF DiffReads, LoadFits, IInv
    <2> QED BY <1>1, <2>1 DEF DiffReads, IInv
  <1>2. CASE DiffHeals
    <2>1. RowFits(row', commits, base)
      BY <1>2 DEF DiffHeals, RowFits, IInv, LoadFits
    <2>2. LoadFits(load', commits, base)
      BY <1>2 DEF DiffHeals, LoadFits, IInv, NoLoad
    <2> QED BY <1>2, <2>1, <2>2 DEF DiffHeals, IInv
  <1>3. CASE PruneChecks
    BY <1>3 DEF PruneChecks, IInv
  <1>4. CASE PruneRemoves
    <2>1. DeskFits(tree', marker', commits)
      BY <1>4 DEF PruneRemoves, DeskFits, IInv, Made
    <2> QED BY <1>4, <2>1 DEF PruneRemoves, IInv
  <1>5. CASE PruneRecords
    <2>1. RowFits(row', commits, base)
      BY <1>5 DEF PruneRecords, RowFits, IInv
    <2> QED BY <1>5, <2>1 DEF PruneRecords, IInv
  <1> QED BY <1>1, <1>2, <1>3, <1>4, <1>5

LEMMA OtherSteps ==
  ASSUME IInv,
         AgentEdits \/ AgentResolves \/ TurnEnds \/ UserInCheckout \/ Crash
  PROVE  IInv'
  <1> USE StillFrame, NoOpFits, TipsAre DEF Done, desk, routes, world
  <1>1. CASE AgentEdits
    <2>1. DeskFits(tree', marker', commits)
      BY <1>1 DEF AgentEdits, DeskFits, IInv, Made, Content, Fresh
    <2> QED BY <1>1, <2>1 DEF AgentEdits, IInv
  <1>2. CASE AgentResolves
    <2>1. DeskFits(tree', marker', commits)
      BY <1>2 DEF AgentResolves, DeskFits, IInv, Made
    <2> QED BY <1>2, <2>1 DEF AgentResolves, IInv
  <1>3. CASE TurnEnds
    BY <1>3 DEF TurnEnds, IInv
  <1>4. CASE UserInCheckout
    BY <1>4 DEF UserInCheckout, IInv
  <1>5. CASE Crash
    <2>1. tree' \in {tree} \cup
            {[files |-> Merged(work, base) \cup (IF Clashes(work, base) THEN {Markers} ELSE {}),
              merging |-> base]}
      BY <1>5 DEF Crash
    <2>2. DeskFits(tree', marker', commits)
      BY <1>5, <2>1 DEF Crash, DeskFits, IInv, Made, Content
    <2>3. LoadFits(load', commits, base)
      BY <1>5 DEF Crash, LoadFits, NoLoad
    <2> QED BY <1>5, <2>2, <2>3 DEF Crash, IInv
  <1> QED BY <1>1, <1>2, <1>3, <1>4, <1>5

----------------------------------------------------------------------------
(* The steps that move a branch *)

LEMMA AfterCleanFits ==
  ASSUME IInv, AfterClean, op.at \in {"pre", "trial"}
  PROVE  RowFits(row', commits, base) /\ OpFits(op', commits, work, base)
  <1>1. /\ RowFits(row, commits, base) /\ OpFits(op, commits, work, base)
        /\ OpFits(NoOp, commits, work, base)
    BY NoOpFits DEF IInv
  <1>2. CASE op.kind = "prepare" /\ Goto("stage") /\ UNCHANGED row
    BY <1>1, <1>2 DEF Goto, OpFits, Steps
  <1>3. CASE op.kind = "sync" /\ Done /\ row' = [row EXCEPT !.sha = op.tip]
    BY <1>1, <1>3 DEF Done, OpFits, RowFits
  <1> QED BY <1>2, <1>3 DEF AfterClean
LEMMA WorkCommits ==
  ASSUME IInv,
         PrepareSynced \/ PrepareCommit \/ CompleteStages \/ MergeCommits \/ PrCommits
           \/ AgentCommits
  PROVE  IInv'
  <1>1. ASSUME WorkOnward, UNCHANGED <<base, marker, row, load>>,
               tree' = tree \/ \E f \in SUBSET Content : tree' = [files |-> f, merging |-> 0],
               \/ OpFits(op', commits, work, base)
               \/ OpFits(op', commits', work', base')
        PROVE  IInv'
    <2>1. BaseOnward
      BY <1>1 DEF IInv, WorkOnward, BaseOnward, Kept
    <2>2. DeskFits(tree', marker', commits)
      BY <1>1 DEF DeskFits, IInv
    <2> QED BY <1>1, <2>1, <2>2, Frame DEF IInv
  <1>2. tree.files \in SUBSET Content /\ OpFits(op, commits, work, base)
    BY DEF IInv, DeskFits
  <1>3. CASE PrepareSynced
    BY <1>3, AfterCleanFits, StillFrame DEF PrepareSynced, desk, routes, IInv
  <1>4. CASE PrepareCommit
    <2>1. OpFits(op', commits, work, base)
      BY <1>2, <1>4 DEF PrepareCommit, Goto, OpFits, Steps
    <2> QED BY <1>1, <1>2, <1>4, <2>1, CommitWorktreeIs DEF PrepareCommit, routes
  <1>5. CASE CompleteStages
    <2>1. OpFits(op', commits, work, base)
      BY <1>2, <1>5 DEF CompleteStages, Goto, OpFits, Steps
    <2>2. CASE tree.merging # 0
      BY <1>1, <1>2, <1>5, <2>1, <2>2, CommitFilesIs DEF CompleteStages, routes
    <2>3. CASE tree.merging = 0
      BY <1>1, <1>5, <2>1, <2>3, SameIsOnward DEF CompleteStages, routes
    <2> QED BY <2>2, <2>3
  <1>6. CASE MergeCommits
    <2>0. PICK tip \in {0, work'} : op' = [op EXCEPT !.at = "lock", !.tip = tip]
      BY <1>6 DEF MergeCommits
    <2>1. WorkOnward
      BY <1>6, CommitWorktreeIs DEF MergeCommits
    <2>2. tip \in {0} \cup commits'[work'].hist /\ tip \in Nat
      BY <2>0, <2>1, LenProperties DEF WorkOnward, Graph, Made
    <2>3. OpFits(op', commits', work', base')
      BY <1>2, <2>0, <2>1, <2>2 DEF OpFits, Steps
    <2> QED BY <1>1, <1>2, <1>6, <2>1, <2>3, CommitWorktreeIs DEF MergeCommits, routes
  <1>7. CASE PrCommits
    BY <1>1, <1>2, <1>7, CommitWorktreeIs DEF PrCommits, PrInTime, CommitForPr, routes
  <1>8. CASE AgentCommits
    BY <1>1, <1>2, <1>8, CommitFilesIs DEF AgentCommits, routes
  <1> QED BY <1>3, <1>4, <1>5, <1>6, <1>7, <1>8

LEMMA TrialSteps ==
  ASSUME IInv, TrialMerges \/ TrialConflicts
  PROVE  IInv'
  <1> USE TipsAre
  <1>1. CASE TrialMerges
    <2>1. /\ Graph' /\ Kept /\ Made \subseteq Made' /\ work' \in Made'
          /\ commits[work].hist \subseteq commits'[work'].hist
      BY <1>1, CommitIs DEF TrialMerges
    <2>2. WorkOnward /\ BaseOnward
      BY <1>1, <2>1 DEF TrialMerges, WorkOnward, BaseOnward, Kept
    <2>3. RowFits(row', commits, base) /\ OpFits(op', commits, work, base)
      BY <1>1, AfterCleanFits DEF TrialMerges
    <2>4. DeskFits(tree', marker', commits)
      BY <1>1 DEF TrialMerges, DeskFits, IInv
    <2> QED BY <1>1, <2>2, <2>3, <2>4, Frame DEF TrialMerges, routes, IInv
  <1>2. CASE TrialConflicts
    <2>1. DeskFits(tree', marker', commits)
      BY <1>2 DEF TrialConflicts, DeskFits, IInv, Made, Content
    <2> QED BY <1>2, <2>1, StillFrame, NoOpFits DEF TrialConflicts, Done, routes, IInv
  <1> QED BY <1>1, <1>2

LEMMA LandSteps ==
  ASSUME IInv, UpdateRef \/ MergeInWorktree \/ MergeInPlace \/ MoveBase
  PROVE  IInv'
  <1> USE TipsAre
  <1>1. OpFits(op, commits, work, base) /\ OpFits(NoOp, commits, work, base)
    BY NoOpFits DEF IInv
  <1>2. ASSUME BaseOnward, WorkOnward, UNCHANGED <<tree, marker, row, load>>,
               \/ OpFits(op', commits, work, base)
               \/ OpFits(op', commits', work', base')
        PROVE  IInv'
    BY <1>2, Frame DEF IInv
  <1>3. ASSUME BaseOnward, WorkOnward, op' = [op EXCEPT !.at = "record"],
               op.tip \in {0} \cup commits'[base'].hist
        PROVE  OpFits(op', commits', work', base')
    BY <1>1, <1>3 DEF OpFits, Steps
  <1>4. CASE UpdateRef
    <2>1. CASE base = op.old
      <3>1. op.wtip \in Made /\ op.tip \in {0} \cup commits[op.wtip].hist /\ op.plan \in SUBSET Content
        BY <1>1, <1>4 DEF UpdateRef, OpFits, Made
      <3>2. BaseOnward /\ WorkOnward /\ commits[op.wtip].hist \subseteq commits'[base'].hist
        BY <1>4, <2>1, <3>1, BaseMoves DEF UpdateRef
      <3> QED BY <1>2, <1>3, <1>4, <2>1, <3>1, <3>2 DEF UpdateRef, Goto, desk, routes
    <2>2. CASE base # op.old
      <3>1. OpFits(op', commits, work, base)
        BY <1>1, <1>4, <2>2 DEF UpdateRef, Goto, OpFits, Steps
      <3> QED BY <1>2, <1>4, <2>2, <3>1, SameIsOnward DEF UpdateRef, desk, routes
    <2> QED BY <2>1, <2>2
  <1>5. ASSUME NEW at \in {"worktree", "inplace"}, MergeBranch(at),
               UNCHANGED <<work, tree, marker, row, load>>
        PROVE  IInv'
    <2>1. CASE Clashes(base, work)
      BY <1>1, <1>2, <1>5, <2>1, SameIsOnward DEF MergeBranch, Done
    <2>2. CASE ~Clashes(base, work)
      <3>1. BaseOnward /\ WorkOnward /\ commits[work].hist \subseteq commits'[base'].hist
        BY <1>5, <2>2, BaseMoves DEF MergeBranch
      <3>2. op.tip \in {0} \cup commits[work].hist
        BY <1>1, <1>5 DEF MergeBranch, OpFits
      <3> QED BY <1>2, <1>3, <1>5, <2>2, <3>1, <3>2 DEF MergeBranch, Goto
    <2> QED BY <2>1, <2>2
  <1>6. CASE MergeInWorktree
    BY <1>5, <1>6 DEF MergeInWorktree, desk, routes
  <1>7. CASE MergeInPlace
    BY <1>5, <1>7 DEF MergeInPlace, desk, routes
  <1>8. CASE MoveBase
    <2>1. PICK e \in BaseEdit : Commit(<<base>>, Has(base) \cup {e})
      BY <1>8 DEF MoveBase, Fresh
    <2>2. Has(base) \cup {e} \in SUBSET Content
      BY DEF Content
    <2>3. BaseOnward /\ WorkOnward
      BY <1>8, <2>1, <2>2, BaseMoves DEF MoveBase
    <2> QED BY <1>1, <1>2, <1>8, <2>3, FitsOnward DEF MoveBase, desk, routes
  <1> QED BY <1>4, <1>6, <1>7, <1>8

(* The two steps that put the task's branch elsewhere: back to the marker, and on *)
(* to the base branch.  Nothing remembers a tip of the branch when they come.     *)
LEMMA BranchSteps ==
  ASSUME IInv, AbortResets \/ FastForward
  PROVE  IInv'
  <1> USE TipsAre
  <1>1. ASSUME UNCHANGED <<commits, base, load>>, op' = NoOp, work' \in Made,
               DeskFits(tree', marker', commits), RowFits(row', commits, base)
        PROVE  IInv'
    <2>1. OpFits(op', commits, work', base)
      BY <1>1 DEF OpFits, NoOp, Steps
    <2>2. Graph' /\ Made' = Made
      BY <1>1, SameIsOnward
    <2> QED BY <1>1, <2>1, <2>2 DEF IInv
  <1>2. \A c \in Made : Has(c) \in SUBSET Content
    <2> TAKE c \in Made
    <2>1. commits[c] \in Stamp
      BY ElementOfSeq DEF Graph, Made
    <2> QED BY <2>1 DEF Stamp, Has
  <1>3. CASE AbortResets
    <2>1. op.tip \in {0} \cup Made
      BY <1>3 DEF AbortResets, IInv, OpFits, Made
    <2>2. /\ work' \in Made
          /\ tree' = tree \/ \E f \in SUBSET Content : tree' = [files |-> f, merging |-> 0]
      BY <1>2, <1>3, <2>1 DEF AbortResets, Clean
    <2>3. DeskFits(tree', marker', commits)
      BY <1>3, <2>2 DEF AbortResets, DeskFits, IInv
    <2> QED BY <1>1, <1>3, <2>2, <2>3 DEF AbortResets, Done, routes, IInv
  <1>4. CASE FastForward
    <2>1. /\ work' \in Made
          /\ tree' = tree \/ \E f \in SUBSET Content : tree' = [files |-> f, merging |-> 0]
          /\ row' = row \/ row' = [row EXCEPT !.sha = op.tip]
      BY <1>2, <1>4 DEF FastForward, Clean
    <2>2. DeskFits(tree', marker', commits)
      BY <1>4, <2>1 DEF FastForward, DeskFits, IInv
    <2>3. RowFits(row', commits, base)
      BY <1>4, <2>1 DEF FastForward, RowFits, OpFits, IInv
    <2> QED BY <1>1, <1>4, <2>1, <2>2, <2>3 DEF FastForward, Done, routes
  <1> QED BY <1>3, <1>4
----------------------------------------------------------------------------
(* The invariant *)

LEMMA InitHolds == Init => IInv
  <1> SUFFICES ASSUME Init PROVE IInv
    OBVIOUS
  <1> DEFINE root == [parents |-> <<>>, has |-> {}, hist |-> {1}]
  <1>1. root \in Stamp
    BY EmptySeq DEF Stamp
  <1>2. commits = <<root>> /\ Len(commits) = 1 /\ commits[1] = root /\ commits \in Seq(Stamp)
    BY <1>1 DEF Init
  <1>3. Made = {1}
    BY <1>2 DEF Made
  <1>4. Graph
    BY <1>2, <1>3 DEF Graph
  <1>5. DeskFits(tree, marker, commits)
    BY <1>2 DEF Init, DeskFits
  <1>6. RowFits(row, commits, base) /\ LoadFits(load, commits, base)
    BY <1>2 DEF Init, RowFits, LoadFits, NoLoad
  <1> QED BY <1>3, <1>4, <1>5, <1>6, NoOpFits DEF Init, IInv

LEMMA StepHolds == IInv /\ [Next]_vars => IInv'
  <1> SUFFICES ASSUME IInv, [Next]_vars PROVE IInv'
    OBVIOUS
  <1>1. CASE UNCHANGED vars
    BY <1>1, StillFrame DEF vars, desk, routes, IInv
  <1>2. CASE Next
    BY <1>2, RequestSteps, MergeSteps, AbortSteps, RouteSteps, OtherSteps, WorkCommits,
       TrialSteps, LandSteps, BranchSteps
    DEF Next, Prepare, Land, Abort, CatchUp, Unlocked, Agent
  <1> QED BY <1>1, <1>2

----------------------------------------------------------------------------
(* Markers *)

LEMMA UnmarkedTips ==
  ASSUME IInv, Unmarked
  PROVE  /\ Markers \notin Has(work) /\ Markers \notin Has(base)
         /\ Markers \notin Merged(work, base) /\ Markers \notin Merged(base, work)
         /\ \A c \in Made : Markers \notin Has(c)
         /\ tree.files \in SUBSET Content /\ base # 0
  <1>1. \A c \in Made : Markers \notin Has(c)
    BY DEF Unmarked, Has
  <1>2. tree.files \in SUBSET Content
    BY DEF IInv, DeskFits
  <1> QED BY <1>1, <1>2, TipsAre DEF Merged

(* What is left to show of a step that makes at most one commit. *)
LEMMA UnmarkedFrame ==
  ASSUME IInv, Unmarked, Kept \/ UNCHANGED commits, NEW files, Markers \notin files,
         \A c \in Made' : c \in Made \/ commits'[c].has = files,
         Markers \in tree'.files => tree'.merging # 0,
         Markers \notin op'.plan,
         op'.at = "commit" => tree'.merging = 0
  PROVE  Unmarked'
  <1>1. Kept
    BY SameIsOnward
  <1>2. \A c \in Made' : Markers \notin commits'[c].has
    BY <1>1 DEF Unmarked, Kept
  <1> QED BY <1>2 DEF Unmarked

LEMMA UnmarkedStill ==
  ASSUME IInv, Unmarked, UNCHANGED commits,
         Markers \in tree'.files => tree'.merging # 0,
         Markers \notin op'.plan,
         op'.at = "commit" => tree'.merging = 0
  PROVE  Unmarked'
  BY SameIsOnward, UnmarkedFrame DEF Made

(* A stage changes nothing of the request but what it names. *)
LEMMA OpMoves ==
  ASSUME IInv, NEW s, NEW t, NEW u
  PROVE  /\ NoOp.at = "none" /\ NoOp.plan = {}
         /\ op' = [op EXCEPT !.at = s] => op'.at = s /\ op'.plan = op.plan
         /\ op' = [op EXCEPT !.at = s, !.tip = t] => op'.at = s /\ op'.plan = op.plan
         /\ op' = [op EXCEPT !.at = s, !.old = t, !.wtip = u] =>
              op'.at = s /\ op'.plan = op.plan
         /\ op' = [op EXCEPT !.at = s, !.plan = t] => op'.at = s /\ op'.plan = t
  BY DEF IInv, OpFits, NoOp

LEMMA UnmarkedRequests ==
  ASSUME ~StaleMerge, IInv, Unmarked,
         \/ (\E k \in Kinds : Begin(k)) \/ PreparePaused \/ PrepareSynced \/ SetMarker
         \/ TrialFails \/ CompleteRefused \/ MergeLocks \/ MergeTree \/ ReadTips
         \/ TreeUnsupported \/ MergeRefused \/ RecordMerge \/ SpendMarker \/ AbortLooks \/ SyncStatus
         \/ DiffReads \/ DiffHeals \/ PruneChecks \/ PruneRecords \/ TurnEnds
         \/ UserInCheckout \/ UNCHANGED vars
  PROVE  Unmarked'
  <1> USE UnmarkedTips DEF Done, Goto, objects, desk, routes, world
  <1>1. ASSUME UNCHANGED <<commits, tree>>, Markers \notin op'.plan,
               op'.at = "commit" => tree.merging = 0
        PROVE  Unmarked'
    BY <1>1, UnmarkedStill DEF Unmarked
  <1>2. ASSUME UNCHANGED <<commits, tree, op>> PROVE Unmarked'
    BY <1>1, <1>2 DEF Unmarked
  <1>3. ASSUME UNCHANGED <<commits, tree>>, op'.plan \in {{}, op.plan}, op'.at # "commit"
        PROVE  Unmarked'
    BY <1>1, <1>3 DEF Unmarked
  <1>4. ASSUME NEW k \in Kinds, Begin(k) PROVE Unmarked'
    <2>1. op' = [NoOp EXCEPT !.kind = k, !.at = FirstStep[k]]
      BY <1>4 DEF Begin, Offered, Request
    <2>2. op'.plan = {} /\ op'.at = FirstStep[k]
      BY <2>1 DEF NoOp
    <2>3. FirstStep[k] = "commit" => k = "merge"
      BY DEF FirstStep, Kinds
    <2>4. k = "merge" => tree.merging = 0
      BY <1>4 DEF Begin, Offered, Request
    <2> QED BY <1>1, <1>4, <2>2, <2>3, <2>4 DEF Begin, Offered, Request
  <1>5. CASE PreparePaused
    BY <1>3, <1>5, OpMoves DEF PreparePaused
  <1>6. CASE PrepareSynced
    <2>1. op' = NoOp \/ op' = [op EXCEPT !.at = "stage"]
      BY <1>6 DEF PrepareSynced, AfterClean
    <2>2. op'.plan \in {{}, op.plan} /\ op'.at \in {"none", "stage"}
      BY <2>1, OpMoves
    <2> QED BY <1>3, <1>6, <2>2 DEF PrepareSynced
  <1>7. CASE SetMarker
    BY <1>3, <1>7, OpMoves DEF SetMarker
  <1>8. CASE TrialFails \/ CompleteRefused \/ MergeRefused \/ RecordMerge \/ SpendMarker
    BY <1>3, <1>8, OpMoves DEF TrialFails, CompleteRefused, MergeRefused, RecordMerge, SpendMarker
  <1>9. CASE MergeLocks
    <2>1. op'.plan = op.plan /\ op'.at \in {"record", "inplace", "tree"}
      BY <1>9, OpMoves DEF MergeLocks
    <2> QED BY <1>3, <1>9, <2>1 DEF MergeLocks
  <1>10. CASE MergeTree
    <2>1. op' = [op EXCEPT !.at = "tips", !.plan = Merged(base, work)]
      BY <1>10 DEF MergeTree
    <2>2. op'.at = "tips" /\ op'.plan = Merged(base, work)
      BY <2>1, OpMoves
    <2> QED BY <1>1, <1>10, <2>2 DEF MergeTree
  <1>11. CASE ReadTips \/ TreeUnsupported
    <2>1. \/ op' = [op EXCEPT !.at = "cas", !.old = base, !.wtip = work]
          \/ op' = [op EXCEPT !.at = "worktree"]
      BY <1>11 DEF ReadTips, TreeUnsupported
    <2>2. op'.plan = op.plan /\ op'.at \in {"cas", "worktree"}
      BY <2>1, OpMoves
    <2> QED BY <1>3, <1>11, <2>2 DEF ReadTips, TreeUnsupported
  <1>12. CASE AbortLooks
    <2>1. op'.plan \in {{}, op.plan} /\ op'.at \in {"none", "reset"}
      BY <1>12, OpMoves DEF AbortLooks
    <2> QED BY <1>3, <1>12, <2>1 DEF AbortLooks
  <1>13. CASE SyncStatus
    <2>1. \/ op' = NoOp
          \/ op' = [op EXCEPT !.at = "ff", !.tip = base]
          \/ op' = [op EXCEPT !.at = "pre", !.tip = base]
      BY <1>13 DEF SyncStatus
    <2>2. op'.plan \in {{}, op.plan} /\ op'.at \in {"none", "ff", "pre"}
      BY <2>1, OpMoves
    <2> QED BY <1>3, <1>13, <2>2 DEF SyncStatus
  <1>14. CASE DiffReads \/ DiffHeals \/ PruneChecks \/ PruneRecords \/ TurnEnds
              \/ UserInCheckout \/ UNCHANGED vars
    BY <1>2, <1>14 DEF DiffReads, DiffHeals, PruneChecks, PruneRecords, TurnEnds,
                       UserInCheckout, vars
  <1> QED BY <1>4, <1>5, <1>6, <1>7, <1>8, <1>9, <1>10, <1>11, <1>12, <1>13, <1>14

LEMMA UnmarkedTrees ==
  ASSUME IInv, Unmarked,
         \/ TrialConflicts \/ AbortPaused \/ AbortResets \/ EnsureWorktree \/ FastForward
         \/ PruneRemoves \/ AgentEdits \/ AgentResolves \/ Crash
  PROVE  Unmarked'
  <1> USE UnmarkedTips, UnmarkedStill DEF Done, Goto, Clean, objects, desk
  <1>1. tree \in [files : SUBSET Content, merging : {0} \cup Made]
    BY DEF IInv, DeskFits, Made
  <1>2. ASSUME UNCHANGED commits, op' \in {op, NoOp, [op EXCEPT !.at = "status"]},
               \/ UNCHANGED tree
               \/ tree'.merging = 0 /\ Markers \notin tree'.files
        PROVE  Unmarked'
    <2>1. Markers \notin op'.plan
      BY <1>2 DEF Unmarked, IInv, OpFits, NoOp
    <2>2. op'.at = "commit" => op.at = "commit"
      BY <1>2 DEF IInv, OpFits, NoOp
    <2> QED BY <1>2, <2>1, <2>2 DEF Unmarked
  <1>3. CASE TrialConflicts
    BY <1>3, OpMoves DEF TrialConflicts
  <1>4. CASE AbortPaused
    BY <1>2, <1>4 DEF AbortPaused
  <1>5. CASE AbortResets
    <2>1. op.tip \in {0} \cup Made
      BY <1>5 DEF AbortResets, IInv, OpFits, Made
    <2> QED BY <1>2, <1>5, <2>1 DEF AbortResets
  <1>6. CASE EnsureWorktree
    <2>1. UNCHANGED tree \/ tree' = Clean(work)
      BY <1>6 DEF EnsureWorktree
    <2> QED BY <1>2, <1>6, <2>1 DEF EnsureWorktree
  <1>7. CASE FastForward
    BY <1>2, <1>7 DEF FastForward
  <1>8. CASE PruneRemoves
    BY <1>2, <1>8 DEF PruneRemoves
  <1>9. CASE AgentEdits
    <2>1. PICK e \in WorkEdit : tree' = [tree EXCEPT !.files = @ \cup {e}]
      BY <1>9 DEF AgentEdits, Fresh
    <2>2. tree'.merging = tree.merging /\ tree'.files = tree.files \cup {e} /\ e # Markers
      BY <1>1, <2>1
    <2> QED BY <1>9, <2>2 DEF AgentEdits, Unmarked
  <1>10. CASE AgentResolves
    <2>1. tree'.merging = tree.merging /\ Markers \notin tree'.files
      BY <1>1, <1>10 DEF AgentResolves
    <2> QED BY <1>10, <2>1 DEF AgentResolves, Unmarked
  <1>11. CASE Crash
    <2>1. UNCHANGED tree \/ tree'.merging = base
      BY <1>11 DEF Crash
    <2> QED BY <1>11, <2>1, OpMoves DEF Crash, Unmarked
  <1> QED BY <1>3, <1>4, <1>5, <1>6, <1>7, <1>8, <1>9, <1>10, <1>11

LEMMA UnmarkedCommits ==
  ASSUME ~StaleMerge, IInv, Unmarked,
         PrepareCommit \/ CompleteStages \/ MergeCommits \/ PrCommits \/ AgentCommits
  PROVE  Unmarked'
  <1> USE UnmarkedTips DEF Goto, routes
  <1>1. tree.files \in SUBSET Content
    OBVIOUS
  <1>2. ASSUME CommitWorktree, tree.merging = 0, op'.plan = op.plan
        PROVE  Unmarked'
    <2>1. Markers \notin tree.files
      BY <1>2 DEF Unmarked
    <2>2. tree'.merging = 0 /\ tree'.files = tree.files
      BY <1>2, CommitWorktreeIs
    <2> QED BY <1>2, <2>1, <2>2, CommitWorktreeIs, UnmarkedFrame DEF Unmarked, WorkOnward
  <1>3. ASSUME CommitFiles(tree.files), Markers \notin tree.files, op'.plan = op.plan
        PROVE  Unmarked'
    <2>1. tree'.merging = 0 /\ tree'.files = tree.files
      BY <1>3, CommitFilesIs
    <2> QED BY <1>3, <2>1, CommitFilesIs, UnmarkedFrame DEF Unmarked, WorkOnward
  <1>4. CASE PrepareCommit
    BY <1>2, <1>4, OpMoves DEF PrepareCommit
  <1>5. CASE CompleteStages
    <2>1. Markers \notin tree.files
      BY <1>5 DEF CompleteStages, StagedMarkers
    <2>2. CASE tree.merging # 0
      BY <1>3, <1>5, <2>1, <2>2 DEF CompleteStages
    <2>3. CASE tree.merging = 0
      BY <1>5, <2>1, <2>3, UnmarkedStill DEF CompleteStages, Unmarked
    <2> QED BY <2>2, <2>3
  <1>6. CASE MergeCommits
    BY <1>2, <1>6, OpMoves DEF MergeCommits, Unmarked
  <1>7. CASE PrCommits
    BY <1>2, <1>7 DEF PrCommits, PrInTime, CommitForPr
  <1>8. CASE AgentCommits
    BY <1>3, <1>8 DEF AgentCommits
  <1> QED BY <1>4, <1>5, <1>6, <1>7, <1>8

LEMMA UnmarkedMerges ==
  ASSUME IInv, Unmarked,
         TrialMerges \/ UpdateRef \/ MergeInWorktree \/ MergeInPlace \/ MoveBase
  PROVE  Unmarked'
  <1> USE TipsAre, UnmarkedTips DEF Goto, Done, desk, routes
  <1>1. ASSUME NEW files \in SUBSET Content, Markers \notin files,
               NEW a \in Made, NEW b \in Made, base \in {a, b}, base' = Next1,
               (Commit(<<a>>, files) /\ a = b) \/ Commit(<<a, b>>, files),
               UNCHANGED tree, op'.plan = op.plan, op'.at = "commit" => op.at = "commit"
        PROVE  Unmarked'
    <2>1. Kept /\ \A c \in Made' : c \in Made \/ commits'[c].has = files
      BY <1>1, BaseMoves DEF BaseOnward
    <2> QED BY <1>1, <2>1, UnmarkedFrame DEF Unmarked
  <1>2. ASSUME UNCHANGED <<commits, tree>>, op'.plan \in {{}, op.plan}, op'.at # "commit"
        PROVE  Unmarked'
    BY <1>2, UnmarkedStill DEF Unmarked
  <1>3. CASE TrialMerges
    <2>1. Commit(<<work, base>>, Merged(work, base)) /\ AfterClean
      BY <1>3 DEF TrialMerges
    <2>2. Kept /\ \A c \in Made' : c \in Made \/ commits'[c].has = Merged(work, base)
      <3>1. /\ Kept /\ commits'[Next1].has = Merged(work, base)
            /\ Made' = Made \cup {Next1}
        BY <2>1, CommitIs
      <3> QED BY <3>1
    <2>3. tree'.merging = 0 /\ tree'.files = Merged(work, base)
      BY <1>3 DEF TrialMerges
    <2>4. op' = NoOp \/ op' = [op EXCEPT !.at = "stage"]
      BY <2>1 DEF AfterClean
    <2>5. op'.plan \in {{}, op.plan}
      BY <2>4, OpMoves
    <2> QED BY <2>2, <2>3, <2>5, UnmarkedFrame DEF Unmarked
  <1>4. CASE UpdateRef
    <2>1. op.wtip \in Made /\ op.plan \in SUBSET Content
      BY <1>4 DEF UpdateRef, IInv, OpFits, Made
    <2>2. CASE base = op.old
      <3>1. /\ op' = [op EXCEPT !.at = "record"]
            /\ Commit(<<op.old, op.wtip>>, op.plan) /\ base' = Next1 /\ UNCHANGED tree
        BY <1>4, <2>2 DEF UpdateRef
      <3>2. op'.plan = op.plan /\ op'.at = "record"
        BY <3>1, OpMoves
      <3>3. Markers \notin op.plan
        BY DEF Unmarked
      <3>4. op.old \in Made /\ base \in {op.old, op.wtip}
        BY <2>2
      <3> QED BY <1>1, <2>1, <3>1, <3>2, <3>3, <3>4
    <2>3. CASE base # op.old
      <3>1. op' = [op EXCEPT !.at = "worktree"]
        BY <1>4, <2>3 DEF UpdateRef
      <3>2. op'.plan = op.plan /\ op'.at = "worktree"
        BY <3>1, OpMoves
      <3> QED BY <1>2, <1>4, <2>3, <3>2 DEF UpdateRef
    <2> QED BY <2>2, <2>3
  <1>5. ASSUME NEW at, MergeBranch(at), UNCHANGED tree PROVE Unmarked'
    <2>1. CASE Clashes(base, work)
      BY <1>2, <1>5, <2>1, OpMoves DEF MergeBranch
    <2>2. CASE ~Clashes(base, work)
      <3>1. op' = [op EXCEPT !.at = "record"]
        BY <1>5, <2>2 DEF MergeBranch
      <3>2. op'.plan = op.plan /\ op'.at = "record"
        BY <3>1, OpMoves
      <3> QED BY <1>1, <1>5, <2>2, <3>2 DEF MergeBranch
    <2> QED BY <2>1, <2>2
  <1>6. CASE MergeInWorktree \/ MergeInPlace
    BY <1>5, <1>6 DEF MergeInWorktree, MergeInPlace
  <1>7. CASE MoveBase
    <2>1. PICK e \in BaseEdit : Commit(<<base>>, Has(base) \cup {e})
      BY <1>7 DEF MoveBase, Fresh
    <2>2. Has(base) \cup {e} \in SUBSET Content /\ Markers \notin Has(base) \cup {e}
      BY DEF Content
    <2> QED BY <1>1, <1>7, <2>1, <2>2 DEF MoveBase
  <1> QED BY <1>3, <1>4, <1>6, <1>7

LEMMA UnmarkedStep ==
  ASSUME ~StaleMerge, IInv, Unmarked, [Next]_vars
  PROVE  Unmarked'
  BY UnmarkedRequests, UnmarkedTrees, UnmarkedCommits, UnmarkedMerges
  DEF Next, Prepare, Land, Abort, CatchUp, Unlocked, Agent

----------------------------------------------------------------------------
(* For every set of edits and every number of commits, whoever moves the base     *)
(* branch between the git commands and whichever routes run without the lock: the *)
(* graph is closed, and the row, the diff and each stage of a request remember    *)
(* only commits that are where they claim.                                        *)
THEOREM Invariance == Spec => []IInv
  <1>1. Init => IInv
    BY InitHolds
  <1>2. IInv /\ [Next]_vars => IInv'
    BY StepHolds
  <1> QED BY <1>1, <1>2, PTL DEF Spec

(* The commit the diff starts from (base_sha) is in the base branch, so no diff    *)
(* hides work that has not landed, though the diff heals the row from values read *)
(* before its awaits, and a merge records a tip it noted before the landing.      *)
(* Of merged_at, a mark that something landed once, nothing is claimed.           *)
THEOREM NothingRecordedUnlanded == Spec => []DiffBaseLanded
  <1>1. IInv => DiffBaseLanded
    BY TipsAre DEF IInv, RowFits, DiffBaseLanded
  <1> QED BY <1>1, Invariance, PTL

(* If no page asks for the merge of a task whose merge is paused, no conflict      *)
(* marker ever reaches the base branch: the check of the staged files before a    *)
(* resolution is committed is enough, on every path that lands a branch.          *)
THEOREM NoMarkers == ASSUME ~StaleMerge PROVE Spec => []NoMarkersLanded
  <1> DEFINE Both == IInv /\ Unmarked
  <1>1. Init => Both
    <2> SUFFICES ASSUME Init PROVE Unmarked
      BY InitHolds
    <2> DEFINE root == [parents |-> <<>>, has |-> {}, hist |-> {1}]
    <2>1. commits = <<root>> /\ Len(commits) = 1 /\ commits[1] = root
      BY DEF Init
    <2> QED BY <2>1 DEF Init, Unmarked, Made, NoOp
  <1>2. Both /\ [Next]_vars => Both'
    BY StepHolds, UnmarkedStep
  <1>3. Both => NoMarkersLanded
    BY UnmarkedTips DEF NoMarkersLanded
  <1> QED BY <1>1, <1>2, <1>3, PTL DEF Spec

----------------------------------------------------------------------------
(* What only grows *)

(* Edits from elsewhere count only if no merge can revert them (Quiet). *)
Gone == IF "tips" \in Quiet THEN {Markers} ELSE {Markers} \cup BaseEdit
Real(X) == X \ Gone

LEMMA GoneIs ==
  /\ Markers \in Gone /\ WorkEdit \cap Gone = {}
  /\ "tips" \in Quiet => Gone = {Markers}
  /\ "tips" \notin Quiet => BaseEdit \subseteq Gone
  BY DEF Gone

USE GoneIs

(* A commit holds what its ancestors hold; so does the tree that is to become one, *)
(* also while a merge is paused in it.                                             *)
HistGrows == \A c \in Made : \A d \in commits[c].hist : Real(commits[d].has) \subseteq commits[c].has
DeskGrows ==
  /\ here => Real(commits[work].has) \subseteq tree.files
  /\ tree.merging # 0 =>
       Real(commits[work].has \cup commits[tree.merging].has) \subseteq tree.files

(* The tree of the object-level merge holds both tips, the ones it was computed of *)
(* and the ones that were read after it.                                           *)
PlanGrows ==
  /\ op.at = "tips" => Real(commits[base].has \cup commits[work].has) \subseteq op.plan
  /\ op.at = "cas" => /\ op.old \in Made
                      /\ Real(commits[op.old].has \cup commits[op.wtip].has) \subseteq op.plan

(* An edit is safe in a branch, or was made in a review that may be discarded. What *)
(* a merge holds beside its first parent is safe without it.                        *)
Safe == commits[work].has \cup commits[base].has \cup review
PausedIsSafe == tree.merging # 0 => tree.files \cap WorkEdit \subseteq Safe
MergesAreSafe ==
  \A c \in Made : Len(commits[c].parents) = 2 =>
    commits[c].has \cap WorkEdit \subseteq
      commits[commits[c].parents[1]].has \cup commits[base].has \cup review

LockedIsIdle == op.at # "none" => ~turn

Grown == HistGrows /\ DeskGrows /\ PlanGrows /\ PausedIsSafe /\ MergesAreSafe /\ LockedIsIdle

LEMMA MergedHolds ==
  ASSUME IInv, HistGrows
  PROVE  /\ Merged(work, base) = Merged(base, work)
         /\ Real(commits[work].has \cup commits[base].has) \subseteq Merged(work, base)
         /\ Merged(work, base) \subseteq commits[work].has \cup commits[base].has
         /\ Has(work) = commits[work].has /\ Has(base) = commits[base].has
  <1>1. Has(work) = commits[work].has /\ Has(base) = commits[base].has
    BY TipsAre DEF Has
  <1>2. ASSUME NEW e \in Real(Common(work, base))
        PROVE  e \in commits[work].has /\ e \in commits[base].has
    <2>1. PICK c \in Hist(work) \cap Hist(base) : e \in Has(c)
      BY <1>2 DEF Common, Real
    <2>2. c \in commits[work].hist /\ c \in commits[base].hist /\ e \in commits[c].has
      BY <2>1, TipsAre DEF Has
    <2> QED BY <1>2, <2>2, TipsAre DEF HistGrows, Real
  <1>3. Common(base, work) = Common(work, base)
    BY DEF Common
  <1> QED BY <1>1, <1>2, <1>3 DEF Merged, Real

LEMMA NewCommit ==
  ASSUME Graph, NEW ps, NEW files, Commit(ps, files)
  PROVE  /\ commits'[Next1].parents = ps /\ commits'[Next1].has = files
         /\ commits'[Next1].hist = {Next1} \cup UNION {Hist(ps[i]) : i \in DOMAIN ps}
  <1> DEFINE new == [parents |-> ps, has |-> files,
                     hist |-> {Next1} \cup UNION {Hist(ps[i]) : i \in DOMAIN ps}]
  <1>1. commits' = Append(commits, new) /\ commits \in Seq(Stamp)
    BY DEF Commit, Graph
  <1>2. new.parents = ps /\ new.has = files
        /\ new.hist = {Next1} \cup UNION {Hist(ps[i]) : i \in DOMAIN ps}
    OBVIOUS
  <1> HIDE DEF new
  <1>3. commits'[Next1] = new
    BY <1>1 DEF Next1
  <1> QED BY <1>2, <1>3

LEMMA CommitRecord ==
  ASSUME Graph, NEW a \in Made, NEW b \in Made, NEW files,
         (Commit(<<a>>, files) /\ a = b) \/ Commit(<<a, b>>, files)
  PROVE  /\ commits'[Next1].has = files
         /\ commits'[Next1].hist = {Next1} \cup commits[a].hist \cup commits[b].hist
         /\ Len(commits'[Next1].parents) = 2 =>
              commits'[Next1].parents[1] = a
  <1>1. a \in Nat \ {0} /\ b \in Nat \ {0} /\ commits \in Seq(Stamp)
    BY MadeIs DEF Graph
  <1>2. Hist(a) = commits[a].hist /\ Hist(b) = commits[b].hist
    BY <1>1 DEF Hist
  <1>4. CASE Commit(<<a, b>>, files)
    <2>1. DOMAIN <<a, b>> = {1, 2} /\ <<a, b>>[1] = a /\ <<a, b>>[2] = b
      OBVIOUS
    <2>2. UNION {Hist(<<a, b>>[i]) : i \in DOMAIN <<a, b>>} = Hist(a) \cup Hist(b)
      BY <2>1
    <2> DEFINE ps == <<a, b>>
    <2>3. /\ Commit(ps, files) /\ ps[1] = a
          /\ UNION {Hist(ps[i]) : i \in DOMAIN ps} = commits[a].hist \cup commits[b].hist
      BY <1>2, <1>4, <2>1, <2>2
    <2> HIDE DEF ps
    <2> QED BY <2>3, NewCommit
  <1>5. CASE Commit(<<a>>, files) /\ a = b
    <2>1. DOMAIN <<a>> = {1} /\ <<a>>[1] = a /\ Len(<<a>>) = 1
      OBVIOUS
    <2>2. UNION {Hist(<<a>>[i]) : i \in DOMAIN <<a>>} = Hist(a)
      BY <2>1
    <2> DEFINE ps == <<a>>
    <2>3. /\ Commit(ps, files) /\ Len(ps) = 1
          /\ UNION {Hist(ps[i]) : i \in DOMAIN ps} = commits[a].hist \cup commits[b].hist
      BY <1>2, <1>5, <2>1, <2>2
    <2> HIDE DEF ps
    <2> QED BY <2>3, NewCommit
  <1> QED BY <1>4, <1>5

(* A step makes at most one commit, which holds what its parents hold.  One with two *)
(* parents becomes the base branch, or holds nothing but what is safe beside `a`.     *)
OneCommit(a, b, files) ==
  /\ a \in Made /\ b \in Made /\ files \in SUBSET Content
  /\ (Commit(<<a>>, files) /\ a = b) \/ Commit(<<a, b>>, files)
  /\ Real(commits[a].has \cup commits[b].has) \subseteq files
  /\ \/ base' = Next1 /\ base \in {a, b}
     \/ base' = base /\ (Len(commits'[Next1].parents) = 2 =>
           files \cap WorkEdit \subseteq commits[a].has \cup commits[base].has \cup review)

LEMMA FilesCommit ==
  ASSUME IInv, Grown, CommitFiles(tree.files), Dirty \/ tree.merging # 0, UNCHANGED base
  PROVE  \E a, b, files : OneCommit(a, b, files)
  <1>1. tree.files \in SUBSET Content /\ work \in Made /\ (tree.merging # 0 => tree.merging \in Made)
    BY DEF IInv, DeskFits, Made
  <1>2. CASE tree.merging = 0
    <2>1. Commit(<<work>>, tree.files) /\ here
      BY <1>2 DEF CommitFiles, Dirty
    <2>2. Real(commits[work].has) \subseteq tree.files
      BY <2>1 DEF Grown, DeskGrows
    <2>3. Len(commits'[Next1].parents) = 1
      <3>1. Graph /\ Len(<<work>>) = 1
        BY DEF IInv
      <3>2. commits'[Next1].parents = <<work>>
        BY <2>1, <3>1, NewCommit
      <3> QED BY <3>1, <3>2
    <2>4. OneCommit(work, work, tree.files)
      BY <1>1, <2>1, <2>2, <2>3 DEF OneCommit, Real
    <2> QED BY <2>4
  <1>3. CASE tree.merging # 0
    <2>1. Commit(<<work, tree.merging>>, tree.files)
      BY <1>3 DEF CommitFiles
    <2>2. /\ Real(commits[work].has \cup commits[tree.merging].has) \subseteq tree.files
          /\ tree.files \cap WorkEdit \subseteq commits[work].has \cup commits[base].has \cup review
      BY <1>3 DEF Grown, DeskGrows, PausedIsSafe, Safe
    <2>3. Real(commits[work].has) \cup Real(commits[tree.merging].has) \subseteq tree.files
      BY <2>2 DEF Real
    <2>4. OneCommit(work, tree.merging, tree.files)
      BY <1>1, <1>3, <2>1, <2>2, <2>3 DEF OneCommit, Real
    <2> QED BY <2>4
  <1> QED BY <1>2, <1>3

LEMMA CommitStep ==
  ASSUME IInv, Grown, [Next]_vars
  PROVE  \/ UNCHANGED <<commits, base>>
         \/ \E a, b, files : OneCommit(a, b, files)
  <1> USE DEF objects, desk, routes, world
  <1>1. ASSUME CommitWorktree, UNCHANGED base
        PROVE  UNCHANGED <<commits, base>> \/ \E a, b, files : OneCommit(a, b, files)
    BY <1>1, FilesCommit DEF CommitWorktree
  <1>2. CASE PrepareCommit \/ MergeCommits \/ PrCommits
    BY <1>1, <1>2 DEF PrepareCommit, MergeCommits, PrCommits, PrInTime, CommitForPr
  <1>3. CASE CompleteStages \/ AgentCommits
    BY <1>3, FilesCommit DEF CompleteStages, AgentCommits
  <1>4. CASE TrialMerges
    <2>1. /\ Commit(<<work, base>>, Merged(work, base)) /\ UNCHANGED base
          /\ work \in Made /\ base \in Made /\ Merged(work, base) \in SUBSET Content
      BY <1>4, TipsAre DEF TrialMerges
    <2>2. OneCommit(work, base, Merged(work, base))
      BY <2>1, MergedHolds DEF OneCommit, Grown
    <2> QED BY <2>2
  <1>5. CASE UpdateRef
    <2>1. CASE base = op.old
      <3>1. /\ Commit(<<op.old, op.wtip>>, op.plan) /\ base' = Next1
            /\ op.wtip \in Made /\ op.plan \in SUBSET Content
            /\ op.old \in Made /\ Real(commits[op.old].has \cup commits[op.wtip].has) \subseteq op.plan
        BY <1>5, <2>1 DEF UpdateRef, IInv, OpFits, Made, Grown, PlanGrows
      <3>2. OneCommit(op.old, op.wtip, op.plan)
        BY <2>1, <3>1 DEF OneCommit
      <3> QED BY <3>2
    <2>2. CASE base # op.old
      BY <1>5, <2>2 DEF UpdateRef
    <2> QED BY <2>1, <2>2
  <1>6. ASSUME NEW at, MergeBranch(at)
        PROVE  UNCHANGED <<commits, base>> \/ \E a, b, files : OneCommit(a, b, files)
    <2>1. CASE Clashes(base, work)
      BY <1>6, <2>1 DEF MergeBranch
    <2>2. CASE ~Clashes(base, work)
      <3>1. /\ Commit(<<base, work>>, Merged(base, work)) /\ base' = Next1
            /\ work \in Made /\ base \in Made /\ Merged(base, work) \in SUBSET Content
        BY <1>6, <2>2, TipsAre DEF MergeBranch
      <3>2. OneCommit(base, work, Merged(base, work))
        BY <3>1, MergedHolds DEF OneCommit, Grown, Real
      <3> QED BY <3>2
    <2> QED BY <2>1, <2>2
  <1>7. CASE MergeInWorktree \/ MergeInPlace
    BY <1>6, <1>7 DEF MergeInWorktree, MergeInPlace
  <1>8. CASE MoveBase
    <2>1. PICK e \in BaseEdit : Commit(<<base>>, Has(base) \cup {e})
      BY <1>8 DEF MoveBase, Fresh
    <2>2. /\ Has(base) \cup {e} \in SUBSET Content /\ base \in Made /\ base' = Next1
          /\ Real(commits[base].has) \subseteq Has(base) \cup {e}
      BY <1>8, TipsAre, MergedHolds DEF MoveBase, Content, Real, Grown
    <2>3. OneCommit(base, base, Has(base) \cup {e})
      BY <2>1, <2>2 DEF OneCommit, Real
    <2> QED BY <2>3
  <1>9. CASE Abort \/ CatchUp \/ (\E k \in Kinds : Begin(k))
    BY <1>9 DEF Abort, CatchUp, AbortPaused, AbortLooks, AbortResets, EnsureWorktree,
                SyncStatus, FastForward, Begin, Offered, Request
  <1>10. CASE PreparePaused \/ PrepareSynced \/ SetMarker \/ TrialConflicts \/ TrialFails
    BY <1>10 DEF PreparePaused, PrepareSynced, SetMarker, TrialConflicts, TrialFails
  <1>11. CASE CompleteRefused \/ MergeLocks \/ MergeTree \/ ReadTips \/ TreeUnsupported
              \/ MergeRefused \/ RecordMerge \/ SpendMarker
    BY <1>11 DEF CompleteRefused, MergeLocks, MergeTree, ReadTips, TreeUnsupported,
                 MergeRefused, RecordMerge, SpendMarker
  <1>12. CASE DiffReads \/ DiffHeals \/ PruneChecks \/ PruneRemoves \/ PruneRecords
    BY <1>12 DEF DiffReads, DiffHeals, PruneChecks, PruneRemoves, PruneRecords
  <1>13. CASE AgentEdits \/ AgentResolves \/ TurnEnds \/ UserInCheckout \/ Crash
              \/ UNCHANGED vars
    BY <1>13 DEF AgentEdits, AgentResolves, TurnEnds, UserInCheckout, Crash, vars
  <1> QED BY <1>2, <1>3, <1>4, <1>5, <1>7, <1>8, <1>9, <1>10, <1>11, <1>12, <1>13
    DEF Next, Prepare, Land, Unlocked, Agent

LEMMA HistStep ==
  ASSUME IInv, Grown, [Next]_vars, review \subseteq review'
  PROVE  /\ Kept /\ HistGrows' /\ MergesAreSafe' /\ base' \in Made'
         /\ Real(commits[base].has) \subseteq commits'[base'].has
  <1>1. Graph /\ base \in Made
    BY DEF IInv
  <1>2. CASE UNCHANGED <<commits, base>>
    BY <1>1, <1>2, SameIsOnward DEF Grown, HistGrows, MergesAreSafe, Real
  <1>3. ASSUME NEW a, NEW b, NEW files, OneCommit(a, b, files)
        PROVE  /\ Kept /\ HistGrows' /\ MergesAreSafe' /\ base' \in Made'
               /\ Real(commits[base].has) \subseteq commits'[base'].has
    <2>1. a \in Made /\ b \in Made /\ files \in SUBSET Content
      BY <1>3 DEF OneCommit
    <2>2. (Commit(<<a>>, files) /\ a = b) \/ Commit(<<a, b>>, files)
      BY <1>3 DEF OneCommit
    <2>3. Kept /\ Made' = Made \cup {Next1}
      BY <1>1, <2>1, <2>2, CommitIs
    <2>4. /\ commits'[Next1].has = files
          /\ commits'[Next1].hist = {Next1} \cup commits[a].hist \cup commits[b].hist
          /\ Len(commits'[Next1].parents) = 2 => commits'[Next1].parents[1] = a
      BY <1>1, <2>1, <2>2, CommitRecord
    <2>5. \A c \in Made : /\ commits'[c] = commits[c] /\ commits[c].hist \subseteq Made
                          /\ \A i \in DOMAIN commits[c].parents : commits[c].parents[i] \in Made
      <3> TAKE c \in Made
      <3>1. c \in 1 .. Len(commits) /\ Len(commits) \in Nat
        BY <1>1, LenProperties DEF Made, Graph
      <3>2. 1 .. c \subseteq Made /\ 1 .. c - 1 \subseteq Made
        BY <3>1 DEF Made
      <3> QED BY <1>1, <2>3, <3>2 DEF Kept, Graph
    <2>6. Real(commits[a].has \cup commits[b].has) \subseteq files
      BY <1>3 DEF OneCommit
    <2>7. base' \in Made' /\ Real(commits[base].has) \subseteq commits'[base'].has
      BY <1>1, <1>3, <2>3, <2>4, <2>5, <2>6 DEF OneCommit, Real
    <2>8. HistGrows'
      <3> SUFFICES ASSUME NEW c \in Made', NEW d \in commits'[c].hist
                   PROVE  Real(commits'[d].has) \subseteq commits'[c].has
        BY DEF HistGrows
      <3>1. CASE c \in Made
        BY <2>5, <3>1 DEF Grown, HistGrows
      <3>2. CASE c = Next1 /\ d \in commits[a].hist
        BY <2>1, <2>4, <2>5, <2>6, <3>2 DEF Grown, HistGrows, Real
      <3>3. CASE c = Next1 /\ d \in commits[b].hist
        BY <2>1, <2>4, <2>5, <2>6, <3>3 DEF Grown, HistGrows, Real
      <3>4. CASE c = Next1 /\ d = Next1
        BY <3>4 DEF Real
      <3> QED BY <2>3, <2>4, <3>1, <3>2, <3>3, <3>4
    <2>9. MergesAreSafe'
      <3> SUFFICES ASSUME NEW c \in Made', Len(commits'[c].parents) = 2
                   PROVE  commits'[c].has \cap WorkEdit \subseteq
                            commits'[commits'[c].parents[1]].has
                              \cup commits'[base'].has \cup review'
        BY DEF MergesAreSafe
      <3>1. CASE c \in Made
        <4>1. commits[c].parents[1] \in Made
          <5>1. commits[c].parents \in Seq(Nat) /\ Len(commits[c].parents) = 2
            <6>1. commits[c] \in Stamp
              BY <1>1, <3>1, ElementOfSeq DEF Graph, Made
            <6> QED BY <2>5, <3>1, <6>1 DEF Stamp
          <5> QED BY <2>5, <3>1, <5>1
        <4>2. commits[c].has \cap WorkEdit \subseteq
                commits[commits[c].parents[1]].has \cup commits[base].has \cup review
          BY <2>5, <3>1 DEF Grown, MergesAreSafe
        <4>3. /\ commits'[c] = commits[c]
              /\ commits'[commits[c].parents[1]] = commits[commits[c].parents[1]]
          BY <2>5, <3>1, <4>1
        <4>4. WorkEdit \cap commits[base].has \subseteq commits'[base'].has
          BY <2>7 DEF Real
        <4> QED BY <4>2, <4>3, <4>4
      <3>2. CASE c = Next1 /\ base' = Next1
        BY <2>4, <3>2
      <3>3. CASE c = Next1 /\ base' = base
        BY <1>1, <1>3, <2>1, <2>4, <2>5, <3>3 DEF OneCommit
      <3> QED BY <1>3, <2>3, <3>1, <3>2, <3>3 DEF OneCommit
    <2> QED BY <2>3, <2>7, <2>8, <2>9
  <1> QED BY <1>2, <1>3, CommitStep

(* What a step does to the worktree and the tip of its branch. *)
TreeKept == UNCHANGED <<tree, work>> /\ (here' <=> here)
TreeIsTip == tree'.merging = 0 /\ tree'.files = commits'[work'].has
TreePaused ==
  /\ op.at = "trial" /\ op' = NoOp /\ UNCHANGED <<commits, work, here>>
  /\ tree'.merging = base
  /\ Merged(work, base) \subseteq tree'.files
  /\ tree'.files \subseteq Merged(work, base) \cup {Markers}

LEMMA CommitLeavesTip ==
  ASSUME IInv, NEW files \in SUBSET Content, CommitFiles(files)
  PROVE  TreeIsTip /\ tree'.files = files
  <1>1. PICK ps : Commit(ps, files) /\ work' = Next1 /\ tree' = [files |-> files, merging |-> 0]
    BY DEF CommitFiles
  <1>2. Graph
    BY DEF IInv
  <1> QED BY <1>1, <1>2, NewCommit DEF TreeIsTip

LEMMA DeskStep ==
  ASSUME IInv, HistGrows, [Next]_vars
  PROVE  TreeKept \/ TreeIsTip \/ TreePaused \/ PruneRemoves \/ AgentEdits \/ AgentResolves
  <1> USE DEF objects, desk, routes, world
  <1>1. tree.files \in SUBSET Content
    BY DEF IInv, DeskFits
  <1>2. Has(work) = commits[work].has /\ Has(base) = commits[base].has
    BY MergedHolds
  <1>3. ASSUME CommitWorktree, UNCHANGED here PROVE TreeKept \/ TreeIsTip
    BY <1>1, <1>3, CommitLeavesTip DEF CommitWorktree, TreeKept
  <1>4. CASE PrepareCommit \/ MergeCommits \/ PrCommits
    BY <1>3, <1>4 DEF PrepareCommit, MergeCommits, PrCommits, PrInTime, CommitForPr
  <1>5. CASE CompleteStages \/ AgentCommits
    BY <1>1, <1>5, CommitLeavesTip DEF CompleteStages, AgentCommits, TreeKept
  <1>6. CASE TrialMerges
    <2>1. Commit(<<work, base>>, Merged(work, base)) /\ Graph /\ work' = Next1
      BY <1>6 DEF TrialMerges, IInv
    <2>2. commits'[work'].has = Merged(work, base)
      BY <2>1, NewCommit
    <2> QED BY <1>6, <2>2 DEF TrialMerges, TreeIsTip
  <1>7. CASE TrialConflicts
    BY <1>7 DEF TrialConflicts, Done, TreePaused
  <1>8. CASE AbortPaused
    BY <1>2, <1>8 DEF AbortPaused, Clean, TreeIsTip
  <1>9. CASE AbortResets
    <2>1. CASE op.tip # 0 /\ ~Dirty
      BY <1>9, <2>1 DEF AbortResets, Clean, TreeIsTip, Has
    <2>2. CASE ~(op.tip # 0 /\ ~Dirty)
      BY <1>9, <2>2 DEF AbortResets, TreeKept
    <2> QED BY <2>1, <2>2
  <1>10. CASE EnsureWorktree
    <2>1. CASE here
      BY <1>10, <2>1 DEF EnsureWorktree, TreeKept
    <2>2. CASE ~here
      BY <1>2, <1>10, <2>2 DEF EnsureWorktree, Clean, TreeIsTip
    <2> QED BY <2>1, <2>2
  <1>11. CASE FastForward
    <2>1. CASE here /\ work \in Hist(base) /\ tree.merging = 0
      BY <1>2, <1>11, <2>1 DEF FastForward, Clean, TreeIsTip
    <2>2. CASE ~(here /\ work \in Hist(base) /\ tree.merging = 0)
      BY <1>11, <2>2 DEF FastForward, TreeKept
    <2> QED BY <2>1, <2>2
  <1>12. CASE Crash
    <2>1. CASE UNCHANGED tree
      BY <1>12, <2>1 DEF Crash, TreeKept
    <2>2. CASE tree' # tree
      BY <1>12, <2>2 DEF Crash, TreePaused
    <2> QED BY <2>1, <2>2
  <1>13. CASE AbortLooks \/ SyncStatus \/ (\E k \in Kinds : Begin(k))
    BY <1>13 DEF AbortLooks, SyncStatus, Begin, Offered, Request, TreeKept
  <1>14. CASE PreparePaused \/ PrepareSynced \/ SetMarker \/ TrialFails
    BY <1>14 DEF PreparePaused, PrepareSynced, SetMarker, TrialFails, TreeKept
  <1>15. CASE CompleteRefused \/ MergeLocks \/ MergeTree \/ ReadTips \/ UpdateRef
              \/ TreeUnsupported \/ MergeInWorktree \/ MergeInPlace \/ MergeRefused
              \/ RecordMerge \/ SpendMarker
    BY <1>15 DEF CompleteRefused, MergeLocks, MergeTree, ReadTips, UpdateRef,
                 TreeUnsupported, MergeInWorktree, MergeInPlace, MergeRefused, RecordMerge, SpendMarker,
                 TreeKept
  <1>16. CASE DiffReads \/ DiffHeals \/ PruneChecks \/ PruneRecords
    BY <1>16 DEF DiffReads, DiffHeals, PruneChecks, PruneRecords, TreeKept
  <1>17. CASE TurnEnds \/ MoveBase \/ UserInCheckout \/ UNCHANGED vars
    BY <1>17 DEF TurnEnds, MoveBase, UserInCheckout, vars, TreeKept
  <1> QED BY <1>4, <1>5, <1>6, <1>7, <1>8, <1>9, <1>10, <1>11, <1>12, <1>13, <1>14, <1>15,
             <1>16, <1>17
    DEF Next, Prepare, Land, Abort, CatchUp, Unlocked, Agent

LEMMA ReviewGrows == [Next]_vars => review \subseteq review'
  <1> SUFFICES ASSUME [Next]_vars PROVE review \subseteq review'
    OBVIOUS
  <1>1. UNCHANGED review \/ AgentEdits
    BY DEF Next, Prepare, Land, Abort, CatchUp, Unlocked, Agent, vars, world, Begin, Offered, Request,
           PreparePaused, PrepareSynced, PrepareCommit, SetMarker, TrialMerges,
           TrialConflicts, TrialFails, CompleteRefused, CompleteStages, MergeCommits,
           MergeLocks, MergeTree, ReadTips, UpdateRef, TreeUnsupported, MergeInWorktree,
           MergeInPlace, MergeRefused, RecordMerge, SpendMarker, AbortPaused, AbortLooks, AbortResets,
           EnsureWorktree, SyncStatus, FastForward, PrCommits, PrInTime, CommitForPr, DiffReads, DiffHeals,
           PruneChecks, PruneRemoves, PruneRecords, AgentResolves, AgentCommits, TurnEnds,
           MoveBase, UserInCheckout, Crash
  <1>2. AgentEdits => review \subseteq review'
    BY DEF AgentEdits
  <1> QED BY <1>1, <1>2

LEMMA DeskGrowsStep ==
  ASSUME IInv, Grown, [Next]_vars
  PROVE  DeskGrows' /\ PausedIsSafe'
  <1>1. /\ Kept /\ Real(commits[base].has) \subseteq commits'[base'].has
        /\ review \subseteq review' /\ HistGrows
    BY HistStep, ReviewGrows DEF Grown
  <1>2. /\ work \in Made /\ base \in Made
        /\ tree \in [files : SUBSET Content, merging : {0} \cup Made]
    BY DEF IInv, DeskFits, Made
  <1>3. commits'[work] = commits[work] /\ (tree.merging # 0 =>
          tree.merging \in Made /\ commits'[tree.merging] = commits[tree.merging])
    BY <1>1, <1>2 DEF Kept
  <1>4. DeskGrows /\ PausedIsSafe
    BY DEF Grown
  <1>5. WorkEdit \cap commits[base].has \subseteq commits'[base'].has
    BY <1>1 DEF Real
  <1>6. UNCHANGED work => WorkEdit \cap Safe \subseteq Safe'
    BY <1>1, <1>3, <1>5 DEF Safe
  <1>7. CASE TreeKept
    <2>1. DeskGrows'
      BY <1>3, <1>4, <1>7 DEF TreeKept, DeskGrows
    <2>2. PausedIsSafe'
      BY <1>4, <1>6, <1>7 DEF TreeKept, PausedIsSafe
    <2> QED BY <2>1, <2>2
  <1>8. CASE TreeIsTip
    BY <1>8 DEF TreeIsTip, DeskGrows, PausedIsSafe, Real
  <1>9. CASE TreePaused
    <2>1. DeskGrows'
      BY <1>1, <1>2, <1>9, MergedHolds DEF TreePaused, DeskGrows, Real
    <2>2. WorkEdit \cap Merged(work, base) \subseteq Safe'
      BY <1>1, <1>6, <1>9, MergedHolds DEF TreePaused, Safe
    <2> QED BY <1>9, <2>1, <2>2 DEF TreePaused, PausedIsSafe
  <1>10. CASE PruneRemoves
    BY <1>10 DEF PruneRemoves, DeskGrows, PausedIsSafe
  <1>11. CASE AgentEdits
    <2>1. PICK e \in WorkEdit :
            /\ tree' = [tree EXCEPT !.files = @ \cup {e}]
            /\ review' = IF tree.merging # 0 THEN review \cup {e} ELSE review
      BY <1>11 DEF AgentEdits, Fresh
    <2>2. tree'.merging = tree.merging /\ tree'.files = tree.files \cup {e}
      BY <1>2, <2>1
    <2>3. UNCHANGED <<commits, work, base, here>>
      BY <1>11 DEF AgentEdits, objects
    <2>4. DeskGrows'
      BY <1>3, <1>4, <2>2, <2>3 DEF DeskGrows
    <2>5. tree.merging # 0 => e \in Safe'
      BY <2>1 DEF Safe
    <2> QED BY <1>4, <1>6, <2>2, <2>3, <2>4, <2>5 DEF PausedIsSafe
  <1>12. CASE AgentResolves
    <2>1. tree'.merging = tree.merging /\ tree'.files = tree.files \ {Markers}
      BY <1>2, <1>12 DEF AgentResolves
    <2>2. UNCHANGED <<commits, work, base, here, review>>
      BY <1>12 DEF AgentResolves, objects, world
    <2>3. DeskGrows'
      BY <1>3, <1>4, <2>1, <2>2 DEF DeskGrows, Real
    <2> QED BY <1>4, <1>6, <2>1, <2>2, <2>3 DEF PausedIsSafe
  <1> QED BY <1>1, <1>7, <1>8, <1>9, <1>10, <1>11, <1>12, DeskStep

(* What the others may do while a request holds the task lock. *)
Others == \/ PrCommits \/ DiffReads \/ DiffHeals \/ PruneChecks \/ PruneRemoves
          \/ PruneRecords \/ Agent \/ MoveBase \/ UserInCheckout \/ UNCHANGED vars

LEMMA OthersStep ==
  ASSUME IInv, LockedIsIdle, "pr" \notin Overlap, Others, op.at # "none"
  PROVE  /\ op' = op /\ ~turn' /\ work' = work
         /\ UNCHANGED <<tree, here>> \/ PruneRemoves
         /\ UNCHANGED <<commits, base>> \/ (MoveBase /\ op.at \notin Quiet)
  <1>1. op # NoOp /\ ~turn
    BY DEF NoOp, LockedIsIdle
  <1> QED BY <1>1 DEF Others, PrCommits, PrInTime, CommitForPr, DiffReads, DiffHeals, PruneChecks, PruneRemoves,
       PruneRecords, Agent, AgentEdits, AgentResolves, AgentCommits, TurnEnds, MoveBase,
       UserInCheckout, vars, objects, desk, world

LEMMA OthersKeepOp == Others => op' = op /\ (turn' => turn)
  BY DEF Others, PrCommits, PrInTime, CommitForPr, DiffReads, DiffHeals, PruneChecks, PruneRemoves,
       PruneRecords, Agent, AgentEdits, AgentResolves, AgentCommits, TurnEnds, MoveBase,
       UserInCheckout, vars, world

(* The stage a step of the request itself leads to. *)
LEMMA OwnStep ==
  ASSUME IInv, LockedIsIdle,
         Prepare \/ Land \/ Abort \/ CatchUp \/ Crash \/ (\E k \in Kinds : Begin(k))
  PROVE  /\ op'.at = "none" \/ ~turn'
         /\ op'.at = "tips" => MergeTree
         /\ op'.at = "cas" => ReadTips
         /\ op'.at = "mark" => PrepareCommit
         /\ op'.at = "trial" => SetMarker
         /\ op'.at = "ff" => SyncStatus /\ CanFastForward
         /\ op'.at = "reset" => AbortLooks
         /\ op'.at # "none" =>
              (op.at # "none" /\ op'.kind = op.kind) \/ (\E k \in Kinds : Begin(k) /\ op'.kind = k)
  <1> USE DEF Done, Goto, objects, desk, routes, world
  <1> DEFINE OK == /\ op'.at = "none" \/ ~turn'
                   /\ op'.at \notin {"tips", "cas", "mark", "trial", "ff", "reset"}
                   /\ op'.at # "none" => op.at # "none" /\ op'.kind = op.kind
  <1>1. NoOp.at = "none" /\ op \in [kind : Kinds \cup {"none"}, at : Steps, tip : Nat,
          old : Nat, wtip : Nat, plan : SUBSET Content]
    BY DEF NoOp, IInv, OpFits
  <1>2. ASSUME op' = NoOp PROVE OK
    BY <1>1, <1>2
  <1>3. ASSUME NEW s, op' = [op EXCEPT !.at = s], op.at # "none", UNCHANGED turn
        PROVE  op'.at = s /\ ~turn' /\ op.at # "none" /\ op'.kind = op.kind
    BY <1>1, <1>3 DEF LockedIsIdle
  <1>4. ASSUME NEW k \in Kinds, Begin(k)
        PROVE  /\ ~turn' /\ op'.kind = k
               /\ op'.at \notin {"tips", "cas", "mark", "trial", "ff", "reset"}
    <2>1. op' = [NoOp EXCEPT !.kind = k, !.at = FirstStep[k]] /\ ~turn'
      BY <1>4 DEF Begin, Offered, Request
    <2>2. op'.kind = k /\ op'.at = FirstStep[k]
      BY <2>1 DEF NoOp
    <2> QED BY <2>1, <2>2 DEF FirstStep, Kinds
  <1>5. CASE AfterClean /\ op.at # "none" /\ UNCHANGED turn
    BY <1>2, <1>3, <1>5 DEF AfterClean
  <1>6. CASE PreparePaused \/ TrialConflicts \/ TrialFails \/ CompleteRefused
             \/ MergeRefused \/ RecordMerge \/ AbortPaused \/ AbortResets \/ FastForward \/ Crash
    BY <1>2, <1>6 DEF PreparePaused, TrialConflicts, TrialFails, CompleteRefused,
       MergeRefused, RecordMerge, AbortPaused, AbortResets, FastForward, Crash
  <1>7. CASE PrepareSynced \/ TrialMerges
    BY <1>5, <1>7 DEF PrepareSynced, TrialMerges
  <1>8. CASE PrepareCommit
    BY <1>3, <1>8 DEF PrepareCommit
  <1>9. CASE SetMarker
    BY <1>3, <1>9 DEF SetMarker
  <1>10. CASE CompleteStages \/ EnsureWorktree \/ TreeUnsupported \/ SpendMarker
    BY <1>3, <1>10 DEF CompleteStages, EnsureWorktree, TreeUnsupported, SpendMarker
  <1>11. CASE MergeCommits
    <2>1. UNCHANGED turn /\ \E t : op' = [op EXCEPT !.at = "lock", !.tip = t] /\ op.at # "none"
      BY <1>11 DEF MergeCommits
    <2> QED BY <1>1, <2>1 DEF LockedIsIdle
  <1>12. CASE MergeLocks
    <2>1. PICK s \in {"record", "inplace", "tree"} : op' = [op EXCEPT !.at = s]
      BY <1>12 DEF MergeLocks
    <2> QED BY <1>3, <1>12, <2>1 DEF MergeLocks
  <1>13. CASE MergeTree
    <2>1. op' = [op EXCEPT !.at = "tips", !.plan = Merged(base, work)] /\ UNCHANGED turn
          /\ op.at # "none"
      BY <1>13 DEF MergeTree
    <2>2. op'.at = "tips" /\ op'.kind = op.kind
      BY <1>1, <2>1
    <2> QED BY <1>13, <2>1, <2>2 DEF LockedIsIdle
  <1>14. CASE ReadTips
    <2>1. op' = [op EXCEPT !.at = "cas", !.old = base, !.wtip = work] /\ UNCHANGED turn
          /\ op.at # "none"
      BY <1>14 DEF ReadTips
    <2>2. op'.at = "cas" /\ op'.kind = op.kind
      BY <1>1, <2>1
    <2> QED BY <1>14, <2>1, <2>2 DEF LockedIsIdle
  <1>15. CASE UpdateRef
    <2>1. PICK s \in {"record", "worktree"} : op' = [op EXCEPT !.at = s]
      BY <1>15 DEF UpdateRef
    <2> QED BY <1>3, <1>15, <2>1 DEF UpdateRef
  <1>16. ASSUME NEW at \in {"worktree", "inplace"}, MergeBranch(at), UNCHANGED turn PROVE OK
    <2>1. op' = NoOp \/ op' = [op EXCEPT !.at = "record"]
      BY <1>16 DEF MergeBranch
    <2> QED BY <1>2, <1>3, <1>16, <2>1 DEF MergeBranch
  <1>17. CASE MergeInWorktree \/ MergeInPlace
    BY <1>16, <1>17 DEF MergeInWorktree, MergeInPlace
  <1>18. CASE AbortLooks
    <2>1. \/ op' = NoOp
          \/ \E t : op' = [op EXCEPT !.at = "reset", !.tip = t]
      BY <1>18 DEF AbortLooks
    <2>2. ASSUME NEW t, op' = [op EXCEPT !.at = "reset", !.tip = t]
          PROVE  op'.at = "reset" /\ op'.kind = op.kind
      BY <1>1, <2>2
    <2> QED BY <1>2, <1>18, <2>1, <2>2 DEF AbortLooks, LockedIsIdle
  <1>19. CASE SyncStatus
    <2>1. \/ op' = NoOp
          \/ UNCHANGED turn /\ CanFastForward /\ op' = [op EXCEPT !.at = "ff", !.tip = base]
          \/ UNCHANGED turn /\ op' = [op EXCEPT !.at = "pre", !.tip = base]
      BY <1>19 DEF SyncStatus
    <2>2. op' = [op EXCEPT !.at = "ff", !.tip = base] => op'.at = "ff" /\ op'.kind = op.kind
      BY <1>1
    <2>3. op' = [op EXCEPT !.at = "pre", !.tip = base] => op'.at = "pre" /\ op'.kind = op.kind
      BY <1>1
    <2>4. ~turn /\ op.at # "none"
      BY <1>19 DEF SyncStatus, LockedIsIdle
    <2> QED BY <1>2, <1>19, <2>1, <2>2, <2>3, <2>4
  <1> QED BY <1>4, <1>6, <1>7, <1>8, <1>9, <1>10, <1>11, <1>12, <1>13, <1>14, <1>15, <1>17,
             <1>18, <1>19
    DEF Prepare, Land, Abort, CatchUp

LEMMA PlanGrowsStep ==
  ASSUME "pr" \notin Overlap, IInv, Grown, [Next]_vars
  PROVE  LockedIsIdle' /\ PlanGrows'
  <1>1. Kept /\ Graph /\ base \in Made /\ work \in Made /\ LockedIsIdle /\ PlanGrows /\ HistGrows
    BY HistStep, ReviewGrows DEF IInv, Grown
  <1>2. CASE Others
    <2>1. LockedIsIdle'
      BY <1>1, <1>2, OthersKeepOp DEF LockedIsIdle
    <2>2. CASE op.at = "tips"
      <3>1. CASE UNCHANGED <<commits, base>>
        BY <1>1, <1>2, <2>1, <2>2, <3>1, OthersStep DEF PlanGrows
      <3>2. CASE MoveBase /\ "tips" \notin Quiet
        <4>1. PICK e \in BaseEdit : Commit(<<base>>, Has(base) \cup {e})
          BY <3>2 DEF MoveBase, Fresh
        <4>2. Has(base) = commits[base].has
          BY TipsAre DEF Has
        <4>3. /\ commits'[base'].has = commits[base].has \cup {e} /\ e \in Gone
              /\ UNCHANGED <<op, work>>
          BY <1>1, <3>2, <4>1, <4>2, NewCommit DEF MoveBase
        <4>4. commits'[work] = commits[work]
          BY <1>1 DEF Kept
        <4> QED BY <1>1, <2>1, <2>2, <4>3, <4>4 DEF PlanGrows, Real
      <3> QED BY <1>1, <1>2, <2>2, <3>1, <3>2, OthersStep
    <2>3. CASE op.at = "cas"
      <3>1. op' = op /\ op.old \in Made /\ op.wtip \in Made /\ Made \subseteq Made'
        <4>1. op.wtip \in Made
          BY <2>3 DEF IInv, OpFits, Made
        <4>2. Made \subseteq Made'
          BY <1>1, StepHolds DEF Kept, IInv, Graph, Made
        <4> QED BY <1>1, <1>2, <2>3, <4>1, <4>2, OthersKeepOp DEF PlanGrows
      <3>2. commits'[op.old] = commits[op.old] /\ commits'[op.wtip] = commits[op.wtip]
        BY <1>1, <3>1 DEF Kept
      <3> QED BY <1>1, <2>1, <2>3, <3>1, <3>2 DEF PlanGrows
    <2>4. CASE op.at \notin {"tips", "cas"}
      BY <1>2, <2>1, <2>4, OthersKeepOp DEF PlanGrows
    <2> QED BY <2>1, <2>2, <2>3, <2>4
  <1>3. CASE Prepare \/ Land \/ Abort \/ CatchUp \/ Crash \/ (\E k \in Kinds : Begin(k))
    <2>1. LockedIsIdle'
      BY <1>1, <1>3, OwnStep DEF LockedIsIdle
    <2>2. CASE MergeTree
      <3>1. op' = [op EXCEPT !.at = "tips", !.plan = Merged(base, work)]
            /\ UNCHANGED <<commits, work, base>>
        BY <2>2 DEF MergeTree, objects
      <3>2. op'.at = "tips" /\ op'.plan = Merged(base, work)
        BY <3>1, OpMoves
      <3> QED BY <1>1, <2>1, <3>1, <3>2, MergedHolds DEF PlanGrows, Real
    <2>3. CASE ReadTips
      <3>1. op.at = "tips" /\ op' = [op EXCEPT !.at = "cas", !.old = base, !.wtip = work]
            /\ UNCHANGED <<commits, work, base>>
        BY <2>3 DEF ReadTips, objects
      <3>2. op'.at = "cas" /\ op'.plan = op.plan /\ op'.old = base /\ op'.wtip = work
        BY <3>1 DEF IInv, OpFits
      <3> QED BY <1>1, <2>1, <3>1, <3>2 DEF PlanGrows, Made
    <2>4. CASE ~MergeTree /\ ~ReadTips
      BY <1>1, <1>3, <2>1, <2>4, OwnStep DEF PlanGrows
    <2> QED BY <2>1, <2>2, <2>3, <2>4
  <1> QED BY <1>2, <1>3 DEF Next, Unlocked, Others

LEMMA GrownInit == Init => Grown
  <1> SUFFICES ASSUME Init PROVE Grown
    OBVIOUS
  <1> DEFINE root == [parents |-> <<>>, has |-> {}, hist |-> {1}]
  <1>1. commits = <<root>> /\ Len(commits) = 1 /\ commits[1] = root
    BY DEF Init
  <1>2. Made = {1} /\ work = 1 /\ base = 1 /\ op = NoOp /\ tree = [files |-> {}, merging |-> 0]
    BY <1>1 DEF Init, Made
  <1>3. NoOp.at = "none" /\ Len(root.parents) = 0 /\ root.has = {} /\ root.hist = {1}
    BY DEF NoOp
  <1> HIDE DEF root
  <1> QED BY <1>1, <1>2, <1>3 DEF Grown, HistGrows, DeskGrows, PlanGrows, PausedIsSafe,
       MergesAreSafe, LockedIsIdle, Real

LEMMA GrownStep ==
  ASSUME "pr" \notin Overlap, IInv, Grown, [Next]_vars
  PROVE  Grown'
  BY HistStep, ReviewGrows, DeskGrowsStep, PlanGrowsStep DEF Grown

(* If nobody moves the base branch between the computation of the merged tree and *)
(* the reading of its parents, and no pull request commits inside a request, the   *)
(* base branch never loses an edit: neither a lost race for the reference nor a    *)
(* stale tree takes back what it held.                                             *)
THEOREM BaseGrows ==
  ASSUME "tips" \in Quiet, "pr" \notin Overlap
  PROVE  Spec => BaseOnlyGrows
  <1> DEFINE Both == IInv /\ Grown
  <1>1. Init => Both
    BY InitHolds, GrownInit
  <1>2. Both /\ [Next]_vars => Both'
    BY StepHolds, GrownStep
  <1>3. Both /\ Both' /\ [Next]_vars => [Has(base) \ {Markers} \subseteq Has(base)']_vars
    <2> SUFFICES ASSUME Both, Both', [Next]_vars
                 PROVE  Has(base) \ {Markers} \subseteq Has(base)'
      OBVIOUS
    <2>1. Has(base) = commits[base].has
      BY MergedHolds DEF Grown
    <2>2. Has(base)' = commits'[base'].has
      <3>1. base' \in 1 .. Len(commits')
        BY DEF IInv, Made
      <3> QED BY <3>1 DEF Has
    <2> QED BY <2>1, <2>2, HistStep, ReviewGrows DEF Real
  <1> QED BY <1>1, <1>2, <1>3, PTL DEF Spec, BaseOnlyGrows

(* What a request knows that is about to replace the worktree's files: there is  *)
(* nothing in them that is not committed, or it is safe.                         *)
TrialIsSettled ==
  op.at \in {"mark", "trial", "ff"} /\ here => tree.files \subseteq commits[work].has
ResetIsOurs ==
  op.at = "reset" /\ op.tip # 0 =>
    Len(commits[work].parents) = 2 /\ commits[work].parents[1] = op.tip
PruneIsSafe ==
  prune = "remove" =>
    /\ ~turn /\ (op.at # "none" => op.kind # "launch")
    /\ here => tree.files \cap WorkEdit \subseteq Safe
Settled == TrialIsSettled /\ ResetIsOurs /\ PruneIsSafe

LEMMA TrialStep ==
  ASSUME Overlap = {}, IInv, Grown, Settled, [Next]_vars
  PROVE  TrialIsSettled' /\ ResetIsOurs'
  <1>1. Kept /\ work \in Made /\ commits'[work] = commits[work] /\ LockedIsIdle
        /\ Has(work) = commits[work].has
    BY HistStep, ReviewGrows, MergedHolds DEF IInv, Grown, Kept
  <1>2. CASE Others
    <2>1. CASE op.at = "none"
      BY <1>2, <2>1, OthersKeepOp DEF TrialIsSettled, ResetIsOurs
    <2>2. CASE op.at # "none"
      <3>1. op' = op /\ work' = work /\ (UNCHANGED <<tree, here>> \/ PruneRemoves)
        BY <1>1, <1>2, <2>2, OthersStep
      <3>2. PruneRemoves => here' = FALSE
        BY DEF PruneRemoves
      <3> QED BY <1>1, <3>1, <3>2 DEF Settled, TrialIsSettled, ResetIsOurs
    <2> QED BY <2>1, <2>2
  <1>3. CASE Prepare \/ Land \/ Abort \/ CatchUp \/ Crash \/ (\E k \in Kinds : Begin(k))
    <2>1. CASE PrepareCommit
      <3>1. op'.at = "mark" /\ here' = here /\ CommitWorktree
        BY <2>1, OpMoves DEF PrepareCommit, Goto
      <3>2. tree.files \in SUBSET Content
        BY DEF IInv, DeskFits
      <3>3. CASE Dirty
        BY <3>1, <3>2, <3>3, CommitLeavesTip
        DEF CommitWorktree, TreeIsTip, TrialIsSettled, ResetIsOurs
      <3>4. CASE ~Dirty
        BY <1>1, <3>1, <3>4 DEF CommitWorktree, Dirty, TrialIsSettled, ResetIsOurs
      <3> QED BY <3>3, <3>4
    <2>2. CASE SetMarker
      <3>1. op.at = "mark" /\ op'.at = "trial" /\ UNCHANGED <<commits, work, tree, here>>
        BY <2>2, OpMoves DEF SetMarker, Goto, objects
      <3> QED BY <3>1 DEF Settled, TrialIsSettled, ResetIsOurs
    <2>3. CASE SyncStatus /\ CanFastForward
      <3>1. op'.at = "ff" /\ UNCHANGED <<commits, work, tree, here>> /\ ~Dirty
        BY <2>3, OpMoves DEF SyncStatus, CanFastForward, objects, desk
      <3> QED BY <1>1, <3>1 DEF Dirty, TrialIsSettled, ResetIsOurs
    <2>4. CASE AbortLooks
      <3>1. \/ op' = NoOp
            \/ marker # 0 /\ op' = [op EXCEPT !.at = "reset", !.tip = IF OurMerge THEN marker ELSE 0]
        BY <2>4 DEF AbortLooks, Done
      <3>2. UNCHANGED <<commits, work>>
        BY <2>4 DEF AbortLooks, objects
      <3>3. \/ op'.at = "none"
            \/ op'.at = "reset" /\ op'.tip = IF OurMerge THEN marker ELSE 0
        <4>1. NoOp.at = "none"
          BY DEF NoOp
        <4>2. ASSUME NEW t, op' = [op EXCEPT !.at = "reset", !.tip = t]
              PROVE  op'.at = "reset" /\ op'.tip = t
          BY <4>2 DEF IInv, OpFits
        <4> QED BY <3>1, <4>1, <4>2
      <3> QED BY <3>2, <3>3 DEF OurMerge, TrialIsSettled, ResetIsOurs
    <2>5. CASE op'.at \notin {"mark", "trial", "ff", "reset"}
      BY <2>5 DEF TrialIsSettled, ResetIsOurs
    <2> QED BY <1>1, <1>3, <2>1, <2>2, <2>3, <2>4, <2>5, OwnStep
  <1> QED BY <1>2, <1>3 DEF Next, Unlocked, Others

(* Between the checks of a cleanup and the removal no turn starts. *)
LEMMA PruneStep ==
  ASSUME Overlap = {}, IInv, Grown, Settled, [Next]_vars
  PROVE  PruneIsSafe'
  <1> USE DEF objects, desk, routes, world, HasTurn
  <1>1. PruneIsSafe /\ LockedIsIdle /\ Has(work) = commits[work].has
    BY MergedHolds DEF Settled, Grown
  <1>2. CASE PruneChecks
    <2>1. ~turn' /\ op.kind # "launch" /\ op' = op /\ (here => tree.files = commits[work].has)
      BY <1>1, <1>2 DEF PruneChecks, Dirty
    <2>2. UNCHANGED <<commits, tree, here, work>>
      BY <1>2 DEF PruneChecks
    <2> QED BY <2>1, <2>2 DEF PruneIsSafe, Safe
  <1>3. CASE ~PruneChecks /\ prune # "remove"
    <2>1. prune' # "remove"
      BY <1>3 DEF Next, Prepare, Land, Abort, CatchUp, Unlocked, Agent, vars, Begin, Offered, Request,
           PreparePaused, PrepareSynced, PrepareCommit, SetMarker, TrialMerges,
           TrialConflicts, TrialFails, CompleteRefused, CompleteStages, MergeCommits,
           MergeLocks, MergeTree, ReadTips, UpdateRef, TreeUnsupported, MergeInWorktree,
           MergeInPlace, MergeRefused, RecordMerge, SpendMarker, AbortPaused, AbortLooks, AbortResets,
           EnsureWorktree, SyncStatus, FastForward, PrCommits, PrInTime, CommitForPr, DiffReads, DiffHeals,
           PruneRemoves, PruneRecords, AgentEdits, AgentResolves, AgentCommits, TurnEnds,
           MoveBase, UserInCheckout, Crash
    <2> QED BY <2>1 DEF PruneIsSafe
  <1>4. CASE prune = "remove" /\ prune' = "remove"
    <2>1. ~turn /\ (op.at # "none" => op.kind # "launch")
          /\ (here => tree.files \cap WorkEdit \subseteq Safe)
      BY <1>1, <1>4 DEF PruneIsSafe
    <2>2. ~turn' /\ (op'.at # "none" => op'.kind # "launch")
      <3>1. CASE Others
        BY <2>1, <3>1, OthersKeepOp
      <3>2. ASSUME NEW k \in Kinds, Begin(k) PROVE ~turn' /\ k # "launch"
        BY <1>4, <2>1, <3>2 DEF Begin, Offered, Request
      <3>3. CASE Prepare \/ Land \/ Abort \/ CatchUp \/ Crash \/ (\E k \in Kinds : Begin(k))
        <4>1. op.at = "status" \/ op.at = "ff" => op.kind # "launch"
          BY <2>1
        <4>2. ~turn'
          BY <2>1, <3>2, <3>3, <4>1
          DEF Prepare, Land, Abort, CatchUp,
           PreparePaused, PrepareSynced, PrepareCommit, SetMarker, TrialMerges,
           TrialConflicts, TrialFails, CompleteRefused, CompleteStages, MergeCommits,
           MergeLocks, MergeTree, ReadTips, UpdateRef, TreeUnsupported, MergeInWorktree,
           MergeInPlace, MergeRefused, RecordMerge, SpendMarker, AbortPaused, AbortLooks, AbortResets,
           EnsureWorktree, SyncStatus, FastForward, Crash
        <4>3. op'.at # "none" => op'.kind # "launch"
          BY <1>1, <2>1, <3>2, <3>3, OwnStep
        <4> QED BY <4>2, <4>3
      <3> QED BY <3>1, <3>3 DEF Next, Unlocked, Others
    <2>3. here' => tree'.files \cap WorkEdit \subseteq Safe'
      <3>1. /\ Kept /\ Real(commits[base].has) \subseteq commits'[base'].has
            /\ review \subseteq review' /\ work \in Made
        BY HistStep, ReviewGrows DEF IInv
      <3>2. WorkEdit \cap commits[base].has \subseteq commits'[base'].has
        BY <3>1 DEF Real
      <3>3. UNCHANGED work => WorkEdit \cap Safe \subseteq Safe'
        BY <3>1, <3>2 DEF Safe, Kept
      <3>4. CASE TreeKept
        BY <2>1, <3>3, <3>4 DEF TreeKept
      <3>5. CASE TreeIsTip
        BY <3>5 DEF TreeIsTip, Safe
      <3>6. CASE TreePaused
        <4>1. Merged(work, base) \subseteq commits[work].has \cup commits[base].has
          BY MergedHolds DEF Grown
        <4> QED BY <3>3, <3>6, <4>1 DEF TreePaused, Safe
      <3>7. ~PruneRemoves /\ ~AgentEdits /\ ~AgentResolves
        BY <1>4, <2>1 DEF PruneRemoves, AgentEdits, AgentResolves
      <3> QED BY <3>4, <3>5, <3>6, <3>7, DeskStep DEF Grown
    <2> QED BY <2>2, <2>3 DEF PruneIsSafe
  <1>5. CASE prune' # "remove"
    BY <1>5 DEF PruneIsSafe
  <1> QED BY <1>2, <1>3, <1>4, <1>5

LEMMA SettledInit == Init => Settled
  BY DEF Init, Settled, TrialIsSettled, ResetIsOurs, PruneIsSafe, NoOp

(* What happens to an edit in the branch, the base branch or the worktree. *)
LEMMA WorkStays ==
  ASSUME Overlap = {}, IInv, Grown, Settled, [Next]_vars, NEW e \in WorkEdit,
         e \in commits[work].has, e \notin review
  PROVE  e \in commits'[work'].has \/ e \in commits'[base'].has
  <1>1. /\ Kept /\ Real(commits[base].has) \subseteq commits'[base'].has /\ HistGrows
        /\ work \in Made /\ base \in Made /\ commits'[work] = commits[work]
    BY HistStep, ReviewGrows DEF IInv, Grown, Kept
  <1>2. e \in commits[base].has => e \in commits'[base'].has
    BY <1>1 DEF Real
  <1>3. CASE UNCHANGED work
    BY <1>1, <1>3
  <1>4. CASE AbortResets
    <2>1. CASE op.tip # 0 /\ ~Dirty
      <3>1. work' = op.tip /\ UNCHANGED commits /\ op.at = "reset"
        BY <1>4, <2>1 DEF AbortResets
      <3>2. Len(commits[work].parents) = 2 /\ commits[work].parents[1] = op.tip
        BY <2>1, <3>1 DEF Settled, ResetIsOurs
      <3>3. commits[work].has \cap WorkEdit \subseteq
              commits[op.tip].has \cup commits[base].has \cup review
        BY <1>1, <3>2 DEF Grown, MergesAreSafe
      <3> QED BY <1>2, <3>1, <3>3
    <2>2. CASE ~(op.tip # 0 /\ ~Dirty)
      BY <1>3, <1>4, <2>2 DEF AbortResets
    <2> QED BY <2>1, <2>2
  <1>5. CASE FastForward
    <2>1. UNCHANGED work \/ (work' = base /\ UNCHANGED commits /\ work \in commits[base].hist)
      BY <1>5, TipsAre DEF FastForward
    <2> QED BY <1>1, <1>3, <2>1 DEF HistGrows, Real
  <1>6. ASSUME CommitFiles(tree.files), Dirty \/ tree.merging # 0 PROVE e \in commits'[work'].has
    <2>1. e \in tree.files
      BY <1>6 DEF Grown, DeskGrows, Real, Dirty
    <2>2. tree.files \in SUBSET Content
      BY DEF IInv, DeskFits
    <2> QED BY <1>6, <2>1, <2>2, CommitLeavesTip DEF TreeIsTip
  <1>7. CASE PrepareCommit \/ MergeCommits \/ PrCommits
    BY <1>3, <1>6, <1>7 DEF PrepareCommit, MergeCommits, PrCommits, PrInTime, CommitForPr, CommitWorktree
  <1>8. CASE CompleteStages \/ AgentCommits
    BY <1>3, <1>6, <1>8 DEF CompleteStages, AgentCommits
  <1>9. CASE TrialMerges
    <2>1. Commit(<<work, base>>, Merged(work, base)) /\ Graph /\ work' = Next1
      BY <1>9 DEF TrialMerges, IInv
    <2>2. commits'[work'].has = Merged(work, base)
      BY <2>1, NewCommit
    <2> QED BY <1>1, <2>2, MergedHolds DEF Real
  <1> QED BY <1>3, <1>4, <1>5, <1>7, <1>8, <1>9
    DEF Next, Prepare, Land, Abort, CatchUp, Unlocked, Agent, vars, objects, Begin, Offered, Request,
        PreparePaused, PrepareSynced, SetMarker, TrialConflicts, TrialFails,
        CompleteRefused, MergeLocks, MergeTree, ReadTips, UpdateRef, TreeUnsupported,
        MergeInWorktree, MergeInPlace, MergeRefused, RecordMerge, SpendMarker, AbortPaused, AbortLooks,
        EnsureWorktree, SyncStatus, DiffReads, DiffHeals, PruneChecks, PruneRemoves,
        PruneRecords, AgentEdits, AgentResolves, TurnEnds, MoveBase, UserInCheckout, Crash

LEMMA FilesStay ==
  ASSUME Overlap = {}, IInv, Grown, Settled, [Next]_vars, NEW e \in WorkEdit,
         here, e \in tree.files, e \notin review
  PROVE  \/ here' /\ e \in tree'.files
         \/ e \in commits[work].has \/ e \in commits[base].has
         \/ e \in commits'[work'].has
  <1> USE DEF objects, desk
  <1>1. /\ tree \in [files : SUBSET Content, merging : {0} \cup Made]
        /\ Has(work) = commits[work].has /\ PausedIsSafe /\ TrialIsSettled /\ PruneIsSafe
    BY MergedHolds DEF IInv, DeskFits, Made, Grown, Settled
  <1>2. CASE UNCHANGED <<here, tree>>
    BY <1>2
  <1>3. ASSUME CommitFiles(tree.files) PROVE e \in commits'[work'].has
    BY <1>1, <1>3, CommitLeavesTip DEF TreeIsTip
  <1>4. CASE PrepareCommit \/ MergeCommits \/ PrCommits
    BY <1>2, <1>3, <1>4 DEF PrepareCommit, MergeCommits, PrCommits, PrInTime, CommitForPr, CommitWorktree
  <1>5. CASE CompleteStages \/ AgentCommits
    BY <1>2, <1>3, <1>5 DEF CompleteStages, AgentCommits
  <1>6. CASE TrialMerges \/ TrialConflicts \/ (Crash /\ tree' # tree)
    BY <1>1, <1>6 DEF TrialMerges, TrialConflicts, Crash, TrialIsSettled
  <1>7. CASE AbortPaused
    BY <1>1, <1>7 DEF AbortPaused, PausedIsSafe, Safe
  <1>8. CASE AbortResets
    BY <1>1, <1>2, <1>8 DEF AbortResets, Dirty
  <1>9. CASE EnsureWorktree
    BY <1>9 DEF EnsureWorktree
  <1>10. CASE FastForward
    BY <1>1, <1>10 DEF FastForward, TrialIsSettled
  <1>11. CASE PruneRemoves
    BY <1>1, <1>11 DEF PruneRemoves, PruneIsSafe, Safe
  <1>12. CASE AgentEdits
    <2>1. PICK x : tree' = [tree EXCEPT !.files = @ \cup {x}] /\ here' = here
      BY <1>12 DEF AgentEdits
    <2> QED BY <1>1, <2>1
  <1>13. CASE AgentResolves
    <2>1. tree' = [tree EXCEPT !.files = @ \ {Markers}] /\ here' = here
      BY <1>13 DEF AgentResolves
    <2> QED BY <1>1, <2>1
  <1>14. CASE Crash /\ tree' = tree
    BY <1>2, <1>14 DEF Crash
  <1> QED BY <1>2, <1>4, <1>5, <1>6, <1>7, <1>8, <1>9, <1>10, <1>11, <1>12, <1>13, <1>14
    DEF Next, Prepare, Land, Abort, CatchUp, Unlocked, Agent, vars, Begin, Offered, Request,
        PreparePaused, PrepareSynced, SetMarker, TrialFails, CompleteRefused, MergeLocks,
        MergeTree, ReadTips, UpdateRef, TreeUnsupported, MergeInWorktree, MergeInPlace,
        MergeRefused, RecordMerge, SpendMarker, AbortLooks, SyncStatus, DiffReads, DiffHeals,
        PruneChecks, PruneRecords, TurnEnds, MoveBase, UserInCheckout

(* If neither a cleanup nor a pull request runs inside a request, and git answers    *)
(* the cleanup's checks, no edit of the agent is ever lost, whatever merges, aborts,  *)
(* catch-ups, base moves and crashes come between: it stays in the worktree, the      *)
(* task's branch or the base branch, unless it was made in the review of a paused     *)
(* merge.                                                                             *)
THEOREM WorkIsKept ==
  ASSUME Overlap = {}
  PROVE  Spec => KeepsWork
  <1> DEFINE All == IInv /\ Grown /\ Settled
  <1>1. Init => All
    BY InitHolds, GrownInit, SettledInit
  <1>2. All /\ [Next]_vars => All'
    BY StepHolds, GrownStep, TrialStep, PruneStep DEF Settled
  <1>3. All /\ All' /\ [Next]_vars => [(WorkEdit \cap Held) \ review \subseteq Held']_vars
    <2> SUFFICES ASSUME All, All', [Next]_vars, NEW e \in WorkEdit, e \in Held, e \notin review
                 PROVE  e \in Held'
      OBVIOUS
    <2>1. Has(base) = commits[base].has /\ Has(work) = commits[work].has
      BY MergedHolds DEF Grown
    <2>2. Has(base)' = commits'[base'].has /\ Has(work)' = commits'[work'].has
      <3>1. base' \in 1 .. Len(commits') /\ work' \in 1 .. Len(commits')
        BY DEF IInv, Made
      <3> QED BY <3>1 DEF Has
    <2>3. Real(commits[base].has) \subseteq commits'[base'].has
      BY HistStep, ReviewGrows
    <2>4. CASE e \in commits[base].has
      BY <2>2, <2>3, <2>4 DEF Held, Real
    <2>5. CASE e \in commits[work].has
      BY <2>2, <2>5, WorkStays DEF Held
    <2>6. CASE here /\ e \in tree.files
      BY <2>2, <2>4, <2>5, <2>6, FilesStay DEF Held
    <2> QED BY <2>1, <2>4, <2>5, <2>6 DEF Held
  <1> QED BY <1>1, <1>2, <1>3, PTL DEF Spec, KeepsWork

----------------------------------------------------------------------------
(* The bound on commits *)

(* The edits some commit holds, and those that may still reach the base branch. *)
Known == UNION {commits[c].has : c \in Made}
Left == BaseEdit \ Known

(* The most commits the request `o` may still make, with the worktree dirty (`d`) *)
(* or in a paused merge (`p`).                                                    *)
Uncommitted(d) == IF d THEN 1 ELSE 0
Owed(o, d, p) ==
  CASE o.at = "status" -> IF o.kind = "sync" THEN Uncommitted(d) + 1 ELSE 0
    [] o.at = "pre" -> Uncommitted(d) + (IF o.kind = "prepare" THEN 2 ELSE 1)
    [] o.at \in {"mark", "trial"} -> IF o.kind = "prepare" THEN 2 ELSE 1
    [] o.at = "stage" -> IF d \/ p THEN 2 ELSE 1
    [] o.at = "commit" -> Uncommitted(d) + 1
    [] o.at \in {"lock", "tree", "tips", "cas", "worktree", "inplace"} -> 1
    [] OTHER -> 0
OwedNow == Owed(op, Dirty, tree.merging # 0)

(* Whatever the request still commits, and whatever still reaches the base branch, *)
(* fits below the bound.  Nothing from elsewhere is in the worktree that is in no  *)
(* commit.                                                                         *)
Sized ==
  /\ tree.files \cap BaseEdit \subseteq Known
  /\ Len(commits) + OwedNow + Cardinality(Left) <= MaxCommit

(* A turn and a request exclude each other, a request has a kind, and a catch-up that *)
(* re-creates the worktree is a launch.                                               *)
Shaped ==
  /\ op.kind = "none" => op = NoOp
  /\ op.at = "ensure" => op.kind = "launch"
  /\ op.tip \in {0} \cup Made
  /\ turn => op = NoOp
  /\ here \in BOOLEAN /\ review \subseteq WorkEdit
  /\ main \in [on : BOOLEAN, dirty : BOOLEAN, merging : BOOLEAN]
  /\ main.merging => main.dirty

LEMMA OwedIs ==
  ASSUME NEW o, NEW d \in BOOLEAN, NEW p \in BOOLEAN
  PROVE  /\ o.at = "status" => Owed(o, d, p) = IF o.kind = "sync" THEN Uncommitted(d) + 1 ELSE 0
         /\ o.at = "pre" => Owed(o, d, p) = Uncommitted(d) + (IF o.kind = "prepare" THEN 2 ELSE 1)
         /\ o.at \in {"mark", "trial"} => Owed(o, d, p) = IF o.kind = "prepare" THEN 2 ELSE 1
         /\ o.at = "stage" => Owed(o, d, p) = IF d \/ p THEN 2 ELSE 1
         /\ o.at = "commit" => Owed(o, d, p) = Uncommitted(d) + 1
         /\ o.at \in {"lock", "tree", "tips", "cas", "worktree", "inplace"} => Owed(o, d, p) = 1
         /\ o.at \notin {"status", "pre", "mark", "trial", "stage", "commit", "lock", "tree",
                         "tips", "cas", "worktree", "inplace"} => Owed(o, d, p) = 0
         /\ Owed(o, d, p) \in 0 .. 3
  <1>1. CASE o.at = "status"
    BY <1>1 DEF Owed, Uncommitted
  <1>2. CASE o.at = "pre"
    BY <1>2 DEF Owed, Uncommitted
  <1>3. CASE o.at \in {"mark", "trial"}
    BY <1>3 DEF Owed, Uncommitted
  <1>4. CASE o.at = "stage"
    BY <1>4 DEF Owed, Uncommitted
  <1>5. CASE o.at = "commit"
    BY <1>5 DEF Owed, Uncommitted
  <1>6. CASE o.at \in {"lock", "tree", "tips", "cas", "worktree", "inplace"}
    BY <1>6 DEF Owed, Uncommitted
  <1>7. CASE o.at \notin {"status", "pre", "mark", "trial", "stage", "commit", "lock", "tree",
                          "tips", "cas", "worktree", "inplace"}
    BY <1>7 DEF Owed, Uncommitted
  <1> QED BY <1>1, <1>2, <1>3, <1>4, <1>5, <1>6, <1>7

LEMMA LeftIs ==
  ASSUME NEW S \in SUBSET BaseEdit, NEW T \in SUBSET S
  PROVE  /\ Cardinality(S) \in Nat /\ Cardinality(T) \in Nat
         /\ Cardinality(T) <= Cardinality(S)
         /\ T # S => Cardinality(T) + 1 <= Cardinality(S)
  <1>1. IsFiniteSet(S)
    BY BoundAssumption, FS_Subset
  <1>2. IsFiniteSet(T) /\ Cardinality(T) <= Cardinality(S)
        /\ (Cardinality(S) = Cardinality(T) => S = T)
    BY <1>1, FS_Subset
  <1>3. Cardinality(S) \in Nat /\ Cardinality(T) \in Nat
    BY <1>1, <1>2, FS_CardinalityType
  <1> QED BY <1>2, <1>3

LEMMA FreshIsLeft ==
  ASSUME IInv, tree.files \cap BaseEdit \subseteq Known
  PROVE  Fresh(BaseEdit) = Left
  <1>1. DOMAIN commits = Made /\ \A c \in Made : Has(c) = commits[c].has
    BY MadeIs, LenProperties DEF IInv, Graph, Made, Has
  <1> QED BY <1>1 DEF Fresh, Left, Known

(* A commit is one more, and leaves the others as they are. *)
LEMMA CommitCounts ==
  ASSUME IInv, NEW ps, NEW files, Commit(ps, files)
  PROVE  Len(commits') = Len(commits) + 1 /\ \A c \in Made : commits'[c] = commits[c]
  BY LenProperties DEF IInv, Graph, Commit, Made

LEMMA KnownGrows ==
  ASSUME IInv, IInv', UNCHANGED commits \/ \E ps, files : Commit(ps, files)
  PROVE  /\ Len(commits) \in Nat /\ Len(commits') \in Nat
         /\ Made \subseteq Made' /\ Known \subseteq Known' /\ Left' \subseteq Left
  <1>1. Len(commits) \in Nat /\ Len(commits') \in Nat
    BY LenProperties DEF IInv, Graph
  <1>2. Len(commits) <= Len(commits') /\ \A c \in Made : commits'[c] = commits[c]
    BY <1>1, CommitCounts
  <1>3. Made \subseteq Made'
    BY <1>1, <1>2 DEF Made
  <1>4. Known \subseteq Known'
    BY <1>2, <1>3 DEF Known
  <1> QED BY <1>1, <1>3, <1>4 DEF Left

LEMMA AnyCommits ==
  ASSUME [Next]_vars
  PROVE  UNCHANGED commits \/ \E ps, files : Commit(ps, files)
  <1> USE DEF objects, desk, routes, world
  <1>1. CommitWorktree => UNCHANGED commits \/ \E ps, files : Commit(ps, files)
    BY DEF CommitWorktree, CommitFiles
  <1>2. \A at : MergeBranch(at) => UNCHANGED commits \/ \E ps, files : Commit(ps, files)
    BY DEF MergeBranch
  <1>3. CASE Prepare
    BY <1>1, <1>3 DEF Prepare, PreparePaused, PrepareSynced, PrepareCommit, SetMarker,
                      TrialMerges, TrialConflicts, TrialFails
  <1>4. CASE Land
    BY <1>1, <1>2, <1>4 DEF Land, CompleteRefused, CompleteStages, CommitFiles, MergeCommits,
         MergeLocks, MergeTree, ReadTips, UpdateRef, TreeUnsupported, MergeInWorktree,
         MergeInPlace, MergeRefused, RecordMerge, SpendMarker
  <1>5. CASE Abort \/ CatchUp \/ (\E k \in Kinds : Begin(k))
    BY <1>5 DEF Abort, CatchUp, AbortPaused, AbortLooks, AbortResets, EnsureWorktree,
                SyncStatus, FastForward, Begin, Offered, Request
  <1>6. CASE Unlocked
    BY <1>1, <1>6 DEF Unlocked, PrCommits, PrInTime, CommitForPr, DiffReads, DiffHeals, PruneChecks, PruneRemoves,
                      PruneRecords
  <1>7. CASE Agent \/ MoveBase \/ UserInCheckout \/ Crash \/ UNCHANGED vars
    BY <1>7 DEF Agent, AgentEdits, AgentResolves, AgentCommits, CommitFiles, TurnEnds,
                MoveBase, UserInCheckout, Crash, vars
  <1> QED BY <1>3, <1>4, <1>5, <1>6, <1>7 DEF Next

LEMMA OpShaped ==
  ASSUME IInv, IInv', Shaped, Made \subseteq Made',
         \/ UNCHANGED <<op, turn>>
         \/ op' = op /\ ~turn'
         \/ op' = NoOp
         \/ /\ op.at # "none" /\ UNCHANGED turn
            /\ op'.kind = op.kind /\ op'.at # "ensure" /\ op'.tip \in {0} \cup Made'
  PROVE  /\ op'.kind = "none" => op' = NoOp
         /\ op'.at = "ensure" => op'.kind = "launch"
         /\ op'.tip \in {0} \cup Made'
         /\ turn' => op' = NoOp
  <1>1. NoOp.at = "none" /\ NoOp.kind = "none" /\ NoOp.tip = 0
    BY DEF NoOp
  <1> QED BY <1>1 DEF Shaped

LEMMA OpGoes ==
  ASSUME IInv, NEW s, NEW t, NEW u, NEW v
  PROVE  /\ op' = [op EXCEPT !.at = s] => op'.at = s /\ op'.kind = op.kind /\ op'.tip = op.tip
         /\ op' = [op EXCEPT !.at = s, !.tip = t] =>
              op'.at = s /\ op'.kind = op.kind /\ op'.tip = t
         /\ op' = [op EXCEPT !.at = s, !.old = u, !.wtip = v] =>
              op'.at = s /\ op'.kind = op.kind /\ op'.tip = op.tip
         /\ op' = [op EXCEPT !.at = s, !.plan = t] =>
              op'.at = s /\ op'.kind = op.kind /\ op'.tip = op.tip
  BY DEF IInv, OpFits

LEMMA ShapedStep ==
  ASSUME IInv, IInv', Shaped, [Next]_vars
  PROVE  Shaped'
  <1> USE DEF objects, desk, routes, world
  <1> DEFINE OpKeeps == \/ UNCHANGED <<op, turn>>
                        \/ op' = op /\ ~turn'
                        \/ op' = NoOp
                        \/ /\ op.at # "none" /\ UNCHANGED turn
                           /\ op'.kind = op.kind /\ op'.at # "ensure"
                           /\ op'.tip \in {0} \cup Made'
             Rest == /\ here' \in BOOLEAN /\ review' \subseteq WorkEdit
                     /\ main' \in [on : BOOLEAN, dirty : BOOLEAN, merging : BOOLEAN]
                     /\ main'.merging => main'.dirty
  <1>1. Made \subseteq Made'
    BY AnyCommits, KnownGrows
  <1>2. op.tip \in {0} \cup Made'
    BY <1>1 DEF Shaped
  <1>3. ASSUME OpKeeps, Rest PROVE Shaped'
    BY <1>1, <1>3, OpShaped DEF Shaped
  <1>4. ASSUME UNCHANGED <<here, review, main>> PROVE Rest
    BY <1>4 DEF Shaped
  <1>5. ASSUME NEW s, s # "ensure", Goto(s), op.at # "none", UNCHANGED turn PROVE OpKeeps
    BY <1>2, <1>5, OpGoes DEF Goto
  <1> HIDE DEF OpKeeps, Rest
  <1>6. ASSUME UNCHANGED <<here, review, main, op, turn>> PROVE Shaped'
    BY <1>3, <1>4, <1>6 DEF OpKeeps
  <1>7. ASSUME UNCHANGED <<here, review, main>>, op' = NoOp PROVE Shaped'
    BY <1>3, <1>4, <1>7 DEF OpKeeps
  <1>8. ASSUME UNCHANGED <<here, review, main, turn>>, NEW s, s # "ensure", Goto(s), op.at # "none"
        PROVE  Shaped'
    BY <1>3, <1>4, <1>5, <1>8
  <1>9. ASSUME UNCHANGED <<here, review, main, turn>>, op.at # "none",
               op'.kind = op.kind, op'.at # "ensure", op'.tip \in {0} \cup Made'
        PROVE  Shaped'
    BY <1>3, <1>4, <1>9 DEF OpKeeps
  <1>10. ASSUME NEW k \in Kinds, Begin(k) PROVE Shaped'
    <2>1. ~turn' /\ UNCHANGED <<here, review, main>>
      BY <1>10 DEF Begin, Offered, Request
    <2>2. op' = [NoOp EXCEPT !.kind = k, !.at = FirstStep[k]]
      BY <1>10 DEF Begin, Offered, Request
    <2>3. op'.kind = k /\ op'.tip = 0 /\ op'.at = FirstStep[k]
      BY <2>2 DEF NoOp
    <2>4. k # "none" /\ (FirstStep[k] = "ensure" => k = "launch")
      BY <1>10 DEF Kinds, FirstStep
    <2>5. Rest
      BY <1>4, <2>1
    <2> QED BY <2>1, <2>3, <2>4, <2>5 DEF Shaped, Rest
  <1>11. CASE PreparePaused \/ TrialConflicts \/ TrialFails \/ CompleteRefused \/ MergeRefused
              \/ RecordMerge \/ AbortPaused \/ AbortResets \/ FastForward
    BY <1>7, <1>11 DEF PreparePaused, TrialConflicts, TrialFails, CompleteRefused, MergeRefused,
                       RecordMerge, AbortPaused, AbortResets, FastForward, Done
  <1>12. CASE PrepareSynced \/ TrialMerges
    <2>1. CASE Goto("stage")
      BY <1>8, <1>12, <2>1 DEF PrepareSynced, TrialMerges
    <2>2. CASE Done
      BY <1>7, <1>12, <2>2 DEF PrepareSynced, TrialMerges, Done
    <2> QED BY <1>12, <2>1, <2>2 DEF PrepareSynced, TrialMerges, AfterClean
  <1>13. CASE PrepareCommit \/ SetMarker \/ CompleteStages \/ TreeUnsupported \/ SpendMarker
    BY <1>8, <1>13 DEF PrepareCommit, SetMarker, CompleteStages, TreeUnsupported, SpendMarker
  <1>14. CASE MergeCommits
    <2>0. PICK tip \in {0, work'} : op' = [op EXCEPT !.at = "lock", !.tip = tip]
      BY <1>14 DEF MergeCommits
    <2>1. op'.kind = op.kind /\ op'.at = "lock" /\ op'.tip \in {0} \cup Made'
      BY <2>0, OpGoes DEF IInv
    <2> QED BY <1>9, <1>14, <2>1 DEF MergeCommits
  <1>15. CASE MergeLocks
    <2>1. Rest
      BY <1>15 DEF MergeLocks, Shaped, Rest
    <2>2. PICK s \in {"record", "inplace", "tree"} : Goto(s)
      BY <1>15 DEF MergeLocks
    <2>3. OpKeeps
      BY <1>5, <1>15, <2>2 DEF MergeLocks
    <2> QED BY <1>3, <2>1, <2>3
  <1>16. CASE MergeTree \/ ReadTips
    <2>1. op'.kind = op.kind /\ op'.at # "ensure" /\ op'.tip = op.tip
      <3>1. CASE MergeTree
        BY <3>1, OpGoes DEF MergeTree
      <3>2. CASE ReadTips
        BY <3>2 DEF ReadTips, IInv, OpFits
      <3> QED BY <1>16, <3>1, <3>2
    <2> QED BY <1>2, <1>9, <1>16, <2>1 DEF MergeTree, ReadTips
  <1>17. CASE UpdateRef
    <2>1. PICK s \in {"record", "worktree"} : Goto(s)
      BY <1>17 DEF UpdateRef
    <2> QED BY <1>8, <1>17, <2>1 DEF UpdateRef
  <1>18. CASE MergeInWorktree \/ MergeInPlace
    <2>1. CASE Done
      BY <1>7, <1>18, <2>1 DEF MergeInWorktree, MergeInPlace, Done
    <2>2. CASE Goto("record") /\ op.at # "none"
      BY <1>8, <1>18, <2>2 DEF MergeInWorktree, MergeInPlace
    <2> QED BY <1>18, <2>1, <2>2 DEF MergeInWorktree, MergeInPlace, MergeBranch
  <1>19. CASE AbortLooks
    <2>1. CASE marker = 0
      BY <1>7, <1>19, <2>1 DEF AbortLooks, Done
    <2>2. CASE marker # 0
      <3>1. PICK t \in {0, marker} : op' = [op EXCEPT !.at = "reset", !.tip = t]
        BY <1>19, <2>2 DEF AbortLooks
      <3>2. t \in {0} \cup Made'
        BY <1>1, <3>1 DEF IInv, DeskFits, Made
      <3>3. op'.kind = op.kind /\ op'.at = "reset" /\ op'.tip = t
        BY <3>1, OpGoes
      <3> QED BY <1>9, <1>19, <3>2, <3>3 DEF AbortLooks
    <2> QED BY <2>1, <2>2
  <1>20. CASE EnsureWorktree
    <2>1. OpKeeps
      BY <1>5, <1>20 DEF EnsureWorktree
    <2>2. Rest
      BY <1>20 DEF EnsureWorktree, Shaped, Rest
    <2> QED BY <1>3, <2>1, <2>2
  <1>21. CASE SyncStatus
    <2>1. CASE op' = NoOp
      BY <1>7, <1>21, <2>1 DEF SyncStatus
    <2>2. ASSUME NEW s \in {"ff", "pre"}, op' = [op EXCEPT !.at = s, !.tip = base], UNCHANGED turn
          PROVE  Shaped'
      <3>1. op'.kind = op.kind /\ op'.at = s /\ op'.tip = base /\ base \in Made'
        BY <1>1, <2>2, OpGoes DEF IInv
      <3> QED BY <1>9, <1>21, <2>2, <3>1 DEF SyncStatus
    <2> QED BY <1>21, <2>1, <2>2 DEF SyncStatus, Done
  <1>22. CASE PrCommits \/ DiffReads \/ DiffHeals \/ PruneChecks \/ PruneRecords
              \/ AgentResolves \/ AgentCommits \/ MoveBase \/ UNCHANGED vars
    BY <1>6, <1>22 DEF PrCommits, PrInTime, CommitForPr, DiffReads, DiffHeals, PruneChecks, PruneRecords,
                       AgentResolves, AgentCommits, MoveBase, vars
  <1>23. CASE PruneRemoves
    BY <1>3, <1>23 DEF PruneRemoves, Shaped, OpKeeps, Rest
  <1>24. CASE AgentEdits
    BY <1>3, <1>24 DEF AgentEdits, Fresh, Shaped, OpKeeps, Rest
  <1>25. CASE TurnEnds
    BY <1>3, <1>4, <1>25 DEF TurnEnds, OpKeeps
  <1>26. CASE UserInCheckout
    BY <1>3, <1>26 DEF UserInCheckout, Shaped, OpKeeps, Rest
  <1>27. CASE Crash
    <2>1. main' = main \/ main' = [main EXCEPT !.dirty = TRUE, !.merging = TRUE]
      BY <1>27 DEF Crash
    <2>2. UNCHANGED <<here, review>>
      BY <1>27 DEF Crash
    <2>3. Rest
      BY <2>1, <2>2 DEF Shaped, Rest
    <2> QED BY <1>3, <1>27, <2>3 DEF Crash, OpKeeps
  <1> QED BY <1>10, <1>11, <1>12, <1>13, <1>14, <1>15, <1>16, <1>17, <1>18, <1>19, <1>20, <1>21,
             <1>22, <1>23, <1>24, <1>25, <1>26, <1>27
    DEF Next, Prepare, Land, Abort, CatchUp, Unlocked, Agent

(* What is in the worktree after a step was there before, is in a commit, is the    *)
(* agent's or is a marker.                                                          *)
LEMMA FilesComeFrom ==
  ASSUME IInv, [Next]_vars
  PROVE  tree'.files \subseteq tree.files \cup Known \cup WorkEdit \cup {Markers}
  <1> USE DEF objects, desk, routes, world
  <1>1. \A c \in Made : Has(c) \subseteq Known
    BY DEF Has, Known
  <1>2. Merged(work, base) \subseteq Known
    BY <1>1, TipsAre DEF Merged
  <1>3. ASSUME NEW files, CommitFiles(files) PROVE tree'.files = files
    BY <1>3 DEF CommitFiles
  <1>4. CommitWorktree => tree'.files = tree.files
    BY <1>3 DEF CommitWorktree
  <1>5. CASE Prepare
    BY <1>2, <1>4, <1>5 DEF Prepare, PreparePaused, PrepareSynced, PrepareCommit, SetMarker,
                            TrialMerges, TrialConflicts, TrialFails
  <1>6. CASE Land
    BY <1>3, <1>4, <1>6 DEF Land, CompleteRefused, CompleteStages, MergeCommits, MergeLocks,
         MergeTree, ReadTips, UpdateRef, TreeUnsupported, MergeInWorktree, MergeInPlace,
         MergeRefused, RecordMerge, SpendMarker
  <1>7. CASE AbortResets
    <2>1. op.tip # 0 => op.tip \in Made
      BY <1>7 DEF AbortResets, IInv, OpFits, Made
    <2> QED BY <1>1, <1>7, <2>1 DEF AbortResets, Clean
  <1>8. CASE AbortPaused \/ AbortLooks \/ CatchUp \/ (\E k \in Kinds : Begin(k))
    <2>1. UNCHANGED tree \/ tree' = Clean(work) \/ tree' = Clean(base)
      BY <1>8 DEF AbortPaused, AbortLooks, CatchUp, EnsureWorktree, SyncStatus, FastForward, Begin, Offered, Request
    <2>2. Clean(work).files \subseteq Known /\ Clean(base).files \subseteq Known
      BY <1>1, TipsAre DEF Clean
    <2> QED BY <2>1, <2>2
  <1>9. CASE Unlocked
    BY <1>4, <1>9 DEF Unlocked, PrCommits, PrInTime, CommitForPr, DiffReads, DiffHeals, PruneChecks, PruneRemoves,
                      PruneRecords
  <1>10. CASE Agent
    <2>1. tree \in [files : SUBSET Content, merging : {0} \cup 1 .. Len(commits)]
      BY DEF IInv, DeskFits
    <2> QED BY <1>3, <1>10, <2>1 DEF Agent, AgentEdits, AgentResolves, AgentCommits, TurnEnds, Fresh
  <1>11. CASE MoveBase \/ UserInCheckout \/ UNCHANGED vars
    BY <1>11 DEF MoveBase, UserInCheckout, vars
  <1>12. CASE Crash
    <2>1. \/ tree' = tree
          \/ tree' = [files |-> Merged(work, base) \cup (IF Clashes(work, base) THEN {Markers} ELSE {}),
                      merging |-> base]
      BY <1>12 DEF Crash
    <2> QED BY <1>2, <2>1
  <1> QED BY <1>5, <1>6, <1>7, <1>8, <1>9, <1>10, <1>11, <1>12 DEF Next, Abort

LEMMA FilesAreKnown ==
  ASSUME IInv, IInv', Sized, [Next]_vars
  PROVE  tree'.files \cap BaseEdit \subseteq Known'
  <1>1. Known \subseteq Known'
    BY AnyCommits, KnownGrows
  <1> QED BY <1>1, FilesComeFrom DEF Sized

(* The worktree is clean after a commit, which a clean one does without. *)
LEMMA CommitCleans ==
  ASSUME IInv, IInv', NEW files \in SUBSET Content, CommitFiles(files)
  PROVE  /\ Len(commits') = Len(commits) + 1
         /\ Dirty' = FALSE /\ tree'.merging = 0
  <1>1. Len(commits') = Len(commits) + 1
    BY CommitCounts DEF CommitFiles
  <1>2. TreeIsTip
    BY CommitLeavesTip
  <1>3. Has(work)' = commits'[work'].has
    <2>1. work' \in Made' /\ work' # 0
      BY MadeIs DEF IInv, Made
    <2> QED BY <2>1 DEF Has
  <1> QED BY <1>1, <1>2, <1>3 DEF TreeIsTip, Dirty

LEMMA CommitWorktreeCounts ==
  ASSUME IInv, IInv', Shaped, CommitWorktree, UNCHANGED here
  PROVE  /\ Len(commits') = Len(commits) + Uncommitted(Dirty)
         /\ Dirty' = FALSE
         /\ Dirty => tree'.merging = 0
  <1>1. Len(commits) \in Nat /\ Dirty \in BOOLEAN /\ tree.files \in SUBSET Content
    BY LenProperties DEF IInv, Graph, Shaped, Dirty, DeskFits
  <1>2. CASE Dirty
    <2>1. CommitFiles(tree.files)
      BY <1>2 DEF CommitWorktree
    <2> QED BY <1>1, <1>2, <2>1, CommitCleans DEF Uncommitted
  <1>3. CASE ~Dirty
    BY <1>1, <1>3 DEF CommitWorktree, Uncommitted, Dirty, Has
  <1> QED BY <1>2, <1>3

(* What a step commits, the request owed, whoever does not take the task lock aside. *)
Outside == MoveBase \/ PrCommits \/ AgentCommits \/ \E k \in Kinds : Begin(k)

LEMMA OwedStep ==
  ASSUME IInv, IInv', Shaped, Shaped', [Next]_vars, ~Outside
  PROVE  Len(commits') + OwedNow' <= Len(commits) + OwedNow
  <1> USE DEF objects, desk, routes, world
  <1> DEFINE n == OwedNow
             n2 == OwedNow'
             u == Uncommitted(Dirty)
             Due == Len(commits') + n2 <= Len(commits) + n
             d2 == Dirty'
             p2 == tree'.merging # 0
  <1> SUFFICES Due
    OBVIOUS
  <1>1. /\ Dirty \in BOOLEAN /\ Dirty' \in BOOLEAN
        /\ (tree.merging # 0) \in BOOLEAN /\ (tree'.merging # 0) \in BOOLEAN
    BY DEF Shaped, Dirty
  <1>0. n2 = Owed(op', d2, p2)
    BY DEF OwedNow, Owed, Uncommitted
  <1>2. n \in 0 .. 3 /\ n2 \in 0 .. 3 /\ u \in 0 .. 1
    <2>1. u \in 0 .. 1
      BY <1>1 DEF Uncommitted
    <2>2. d2 \in BOOLEAN /\ p2 \in BOOLEAN
      BY <1>1
    <2>3. n \in 0 .. 3
      BY <1>1, OwedIs DEF OwedNow
    <2>4. n2 \in 0 .. 3
      <3> HIDE DEF d2, p2, n2
      <3> QED BY <1>0, <2>2, OwedIs
    <2> QED BY <2>1, <2>3, <2>4
  <1>3. Len(commits) \in Nat /\ Len(commits') \in Nat
    BY LenProperties DEF IInv, Graph
  <1>4. /\ op.at = "status" => n = IF op.kind = "sync" THEN u + 1 ELSE 0
        /\ op.at = "pre" => n = u + (IF op.kind = "prepare" THEN 2 ELSE 1)
        /\ op.at \in {"mark", "trial"} => n = IF op.kind = "prepare" THEN 2 ELSE 1
        /\ op.at = "stage" => n = IF Dirty \/ tree.merging # 0 THEN 2 ELSE 1
        /\ op.at = "commit" => n = u + 1
        /\ op.at \in {"lock", "tree", "tips", "cas", "worktree", "inplace"} => n = 1
    BY <1>1, OwedIs DEF OwedNow
  <1>5. /\ op'.at \in {"none", "record", "save", "reset", "ff", "abort", "ensure"} => n2 = 0
        /\ op'.at = "status" => n2 = IF op'.kind = "sync" THEN Uncommitted(Dirty') + 1 ELSE 0
        /\ op'.at = "pre" => n2 = Uncommitted(Dirty') + (IF op'.kind = "prepare" THEN 2 ELSE 1)
        /\ op'.at \in {"mark", "trial"} => n2 = IF op'.kind = "prepare" THEN 2 ELSE 1
        /\ op'.at = "stage" => n2 = IF Dirty' \/ tree'.merging # 0 THEN 2 ELSE 1
        /\ op'.at = "commit" => n2 = Uncommitted(Dirty') + 1
        /\ op'.at \in {"lock", "tree", "tips", "cas", "worktree", "inplace"} => n2 = 1
    <2>1. d2 \in BOOLEAN /\ p2 \in BOOLEAN /\ d2 = Dirty' /\ p2 = (tree'.merging # 0)
      BY <1>1
    <2> HIDE DEF d2, p2, n2
    <2> QED BY <1>0, <2>1, OwedIs
  <1>6. u = IF Dirty THEN 1 ELSE 0
    BY DEF Uncommitted
  <1>7. UNCHANGED <<commits, work, here, tree, op>> => n2 = n
    BY DEF OwedNow, Dirty, Has
  <1>8. UNCHANGED <<commits, work, here, tree>> => Dirty' = Dirty
    BY DEF Dirty, Has
  <1>9. NoOp.at = "none"
    BY DEF NoOp
  <1> HIDE DEF n, n2, u
  <1>10. ASSUME UNCHANGED commits, op' = NoOp PROVE Due
    BY <1>2, <1>3, <1>5, <1>9, <1>10
  <1>11. ASSUME UNCHANGED commits, op' = op, n2 = n PROVE Due
    BY <1>2, <1>3, <1>11
  <1>12. ASSUME NEW s, Goto(s) PROVE op'.at = s /\ op'.kind = op.kind
    BY <1>12, OpGoes DEF Goto
  <1>13. CASE PreparePaused \/ TrialConflicts \/ TrialFails \/ CompleteRefused \/ MergeRefused
              \/ RecordMerge \/ AbortPaused \/ AbortResets \/ FastForward \/ Crash
    BY <1>10, <1>13 DEF PreparePaused, TrialConflicts, TrialFails, CompleteRefused, MergeRefused,
                       RecordMerge, AbortPaused, AbortResets, FastForward, Crash, Done
  <1>13a. CASE SpendMarker
    <2>1. UNCHANGED commits /\ op'.at = "save"
      BY <1>12, <1>13a DEF SpendMarker
    <2> QED BY <1>2, <1>3, <1>5, <2>1
  <1>14. CASE DiffReads \/ DiffHeals \/ PruneChecks \/ PruneRecords \/ TurnEnds \/ UserInCheckout
              \/ UNCHANGED vars
    <2>1. UNCHANGED <<commits, work, here, tree, op>>
      BY <1>14 DEF DiffReads, DiffHeals, PruneChecks, PruneRecords, TurnEnds, UserInCheckout, vars
    <2> QED BY <1>7, <1>11, <2>1
  <1>15. CASE AgentEdits \/ AgentResolves
    <2>1. op = NoOp /\ op' = NoOp /\ UNCHANGED commits
      BY <1>15 DEF AgentEdits, AgentResolves, Shaped
    <2> QED BY <1>10, <2>1
  <1>16. CASE PruneRemoves
    <2>1. UNCHANGED <<commits, op>> /\ Dirty' = FALSE /\ tree'.merging = 0
      BY <1>16 DEF PruneRemoves, Dirty
    <2>2. op.at \in Steps /\ op' = op /\ Uncommitted(Dirty') = 0 /\ Len(commits') = Len(commits)
      BY <1>16, <2>1 DEF IInv, OpFits, PruneRemoves, Uncommitted
    <2>3. n2 <= n
      BY <1>1, <1>2, <1>4, <1>5, <2>1, <2>2 DEF Steps
    <2> QED BY <1>2, <1>3, <2>2, <2>3
  <1>17. CASE PrepareSynced
    <2>1. CASE Done
      BY <1>10, <1>17, <2>1 DEF PrepareSynced, Done
    <2>2. CASE op.kind = "prepare" /\ Goto("stage")
      <3>1. op'.at = "stage" /\ op.at = "pre" /\ UNCHANGED <<commits, work, here, tree>>
        BY <1>12, <1>17, <2>2 DEF PrepareSynced
      <3> QED BY <1>1, <1>2, <1>3, <1>4, <1>5, <1>6, <1>8, <1>17, <2>2, <3>1 DEF PrepareSynced
    <2> QED BY <1>17, <2>1, <2>2 DEF PrepareSynced, AfterClean
  <1>18. CASE PrepareCommit
    <2>1. op'.at = "mark" /\ op'.kind = op.kind /\ op.at = "pre"
      BY <1>12, <1>18 DEF PrepareCommit
    <2>2. Len(commits') = Len(commits) + u
      BY <1>18, CommitWorktreeCounts DEF PrepareCommit, u
    <2> QED BY <1>2, <1>3, <1>4, <1>5, <2>1, <2>2
  <1>19. CASE SetMarker
    <2>1. op'.at = "trial" /\ op'.kind = op.kind /\ op.at = "mark" /\ UNCHANGED commits
      BY <1>12, <1>19 DEF SetMarker
    <2> QED BY <1>3, <1>4, <1>5, <2>1
  <1>20. CASE TrialMerges
    <2>1. Len(commits') = Len(commits) + 1 /\ op.at = "trial"
      BY <1>20, CommitCounts DEF TrialMerges
    <2>2. n \in 1 .. 2 /\ (op.kind = "prepare" => n = 2)
      BY <1>4, <2>1
    <2>3. CASE Done
      BY <1>3, <1>5, <1>9, <2>1, <2>2, <2>3 DEF Done
    <2>4. CASE op.kind = "prepare" /\ Goto("stage")
      <3>1. Has(work)' = commits'[work'].has
        <4>1. work' \in Made' /\ work' # 0
          BY MadeIs DEF IInv, Made
        <4> QED BY <4>1 DEF Has
      <3>2. commits'[Next1].has = Merged(work, base) /\ work' = Next1
        BY <1>20, NewCommit DEF TrialMerges, IInv
      <3>3. Dirty' = FALSE /\ tree'.merging = 0
        BY <1>20, <3>1, <3>2 DEF TrialMerges, Dirty
      <3>4. op'.at = "stage"
        BY <1>12, <2>4
      <3> QED BY <1>3, <1>5, <2>1, <2>2, <2>4, <3>3, <3>4
    <2> QED BY <1>20, <2>3, <2>4 DEF TrialMerges, AfterClean
  <1>21. CASE CompleteStages
    <2>1. op.at = "stage" /\ op'.at = "commit"
      BY <1>12, <1>21 DEF CompleteStages
    <2>2. CASE tree.merging # 0
      <3>1. CommitFiles(tree.files) /\ tree.files \in SUBSET Content
        BY <1>21, <2>2 DEF CompleteStages, IInv, DeskFits
      <3>2. Len(commits') = Len(commits) + 1 /\ Dirty' = FALSE
        BY <3>1, CommitCleans
      <3>3. n2 = 1
        BY <1>5, <2>1, <3>2 DEF Uncommitted
      <3> QED BY <1>3, <1>4, <2>1, <2>2, <3>2, <3>3
    <2>3. CASE tree.merging = 0
      <3>1. UNCHANGED <<commits, work, here, tree>>
        BY <1>21, <2>3 DEF CompleteStages
      <3>2. n2 = u + 1
        BY <1>5, <1>8, <2>1, <3>1 DEF u
      <3> QED BY <1>1, <1>2, <1>3, <1>4, <1>6, <2>1, <2>3, <3>1, <3>2
    <2> QED BY <2>2, <2>3
  <1>22. CASE MergeCommits
    <2>0. PICK tip \in {0, work'} : op' = [op EXCEPT !.at = "lock", !.tip = tip]
      BY <1>22 DEF MergeCommits
    <2>1. op.at = "commit" /\ op'.at = "lock"
      BY <1>22, <2>0, OpGoes DEF MergeCommits
    <2>2. Len(commits') = Len(commits) + u
      BY <1>22, CommitWorktreeCounts DEF MergeCommits, u
    <2> QED BY <1>2, <1>3, <1>4, <1>5, <2>1, <2>2
  <1>23. ASSUME op.at \in {"lock", "tree", "tips", "cas", "worktree", "inplace"}, UNCHANGED commits,
                op'.at \in {"lock", "tree", "tips", "cas", "worktree", "inplace", "record"}
         PROVE  Due
    BY <1>2, <1>3, <1>4, <1>5, <1>23
  <1>24. ASSUME op.at \in {"lock", "tree", "tips", "cas", "worktree", "inplace"},
                Len(commits') = Len(commits) + 1, op'.at = "record"
         PROVE  Due
    BY <1>2, <1>3, <1>4, <1>5, <1>24
  <1>25. CASE MergeLocks
    <2>1. PICK s \in {"record", "inplace", "tree"} : Goto(s)
      BY <1>25 DEF MergeLocks
    <2> QED BY <1>12, <1>23, <1>25, <2>1 DEF MergeLocks
  <1>26. CASE MergeTree
    <2>1. op'.at = "tips"
      BY <1>26, OpGoes DEF MergeTree
    <2> QED BY <1>23, <1>26, <2>1 DEF MergeTree
  <1>27. CASE ReadTips
    <2>1. op'.at = "cas"
      BY <1>27 DEF ReadTips, IInv, OpFits
    <2> QED BY <1>23, <1>27, <2>1 DEF ReadTips
  <1>28. CASE TreeUnsupported
    BY <1>12, <1>23, <1>28 DEF TreeUnsupported
  <1>29. CASE UpdateRef
    <2>1. CASE base = op.old
      <3>1. op.at = "cas" /\ op'.at = "record" /\ Commit(<<op.old, op.wtip>>, op.plan)
        BY <1>12, <1>29, <2>1 DEF UpdateRef
      <3> QED BY <1>24, <3>1, CommitCounts
    <2>2. CASE base # op.old
      BY <1>12, <1>23, <1>29, <2>2 DEF UpdateRef
    <2> QED BY <2>1, <2>2
  <1>30. ASSUME NEW at \in {"worktree", "inplace"}, MergeBranch(at) PROVE Due
    <2>1. CASE Clashes(base, work)
      BY <1>10, <1>30, <2>1 DEF MergeBranch, Done
    <2>2. CASE ~Clashes(base, work)
      <3>1. op.at = at /\ op'.at = "record" /\ Commit(<<base, work>>, Merged(base, work))
        BY <1>12, <1>30, <2>2 DEF MergeBranch
      <3> QED BY <1>24, <3>1, CommitCounts
    <2> QED BY <2>1, <2>2
  <1>31. CASE MergeInWorktree \/ MergeInPlace
    BY <1>30, <1>31 DEF MergeInWorktree, MergeInPlace
  <1>32. CASE AbortLooks
    <2>1. CASE marker = 0
      BY <1>10, <1>32, <2>1 DEF AbortLooks, Done
    <2>2. CASE marker # 0
      <3>1. op'.at = "reset" /\ UNCHANGED commits
        BY <1>32, <2>2, OpGoes DEF AbortLooks
      <3> QED BY <1>2, <1>3, <1>5, <3>1
    <2> QED BY <2>1, <2>2
  <1>33. CASE EnsureWorktree
    <2>1. op'.at = "status" /\ op'.kind = "launch" /\ UNCHANGED commits
      BY <1>12, <1>33 DEF EnsureWorktree, Shaped
    <2> QED BY <1>2, <1>3, <1>5, <2>1
  <1>34. CASE SyncStatus
    <2>1. UNCHANGED <<commits, work, here, tree>> /\ op.at = "status"
      BY <1>34 DEF SyncStatus
    <2>2. CASE op' = NoOp
      BY <1>10, <2>1, <2>2
    <2>3. CASE op' = [op EXCEPT !.at = "ff", !.tip = base]
      <3>1. op'.at = "ff"
        BY <2>3, OpGoes
      <3> QED BY <1>2, <1>3, <1>5, <2>1, <3>1
    <2>4. CASE op.kind = "sync" /\ op' = [op EXCEPT !.at = "pre", !.tip = base]
      <3>1. op'.at = "pre" /\ op'.kind = "sync"
        BY <2>4, OpGoes
      <3>2. n2 = u + 1
        BY <1>5, <1>8, <2>1, <3>1 DEF u
      <3> QED BY <1>2, <1>3, <1>4, <2>1, <2>4, <3>2
    <2> QED BY <1>34, <2>2, <2>3, <2>4 DEF SyncStatus, Done
  <1>35. Due
    BY <1>13, <1>13a, <1>14, <1>15, <1>16, <1>17, <1>18, <1>19, <1>20, <1>21, <1>22, <1>25, <1>26,
       <1>27, <1>28, <1>29, <1>31, <1>32, <1>33, <1>34
    DEF Next, Prepare, Land, Abort, CatchUp, Unlocked, Agent, Outside
  <1> QED BY <1>35 DEF n, n2

LEMMA OwedAfter ==
  ASSUME Shaped'
  PROVE  /\ OwedNow' = Owed(op', Dirty', tree'.merging # 0)
         /\ Dirty' \in BOOLEAN
  BY DEF OwedNow, Owed, Uncommitted, Shaped, Dirty

LEMMA OwedClean ==
  ASSUME NEW o
  PROVE  Owed(o, FALSE, FALSE) \in 0 .. 2
  BY OwedIs DEF Uncommitted, Owed

LEMMA NothingOwed ==
  ASSUME NEW d \in BOOLEAN, NEW p \in BOOLEAN
  PROVE  Owed(NoOp, d, p) = 0
  <1>1. NoOp.at = "none"
    BY DEF NoOp
  <1> QED BY <1>1, OwedIs

LEMMA BaseMoveFits ==
  ASSUME IInv, IInv', Shaped, Sized, MoveBase
  PROVE  Len(commits') + OwedNow' + Cardinality(Left') <= MaxCommit
  <1>1. PICK e \in Left : Commit(<<base>>, Has(base) \cup {e})
    BY FreshIsLeft DEF MoveBase, Sized
  <1>2. Len(commits') = Len(commits) + 1 /\ \A c \in Made : commits'[c] = commits[c]
    BY <1>1, CommitCounts
  <1>3. Len(commits) \in Nat /\ Made \subseteq Made' /\ Left' \subseteq Left
    BY <1>1, KnownGrows
  <1>4. e \notin Left'
    <2>1. commits'[Next1].has = Has(base) \cup {e}
      BY <1>1, NewCommit DEF IInv
    <2>2. Next1 \in Made'
      BY <1>2, <1>3 DEF Made, Next1
    <2> QED BY <2>1, <2>2 DEF Left, Known
  <1>5. Cardinality(Left') + 1 <= Cardinality(Left) /\ Cardinality(Left') \in Nat
        /\ Cardinality(Left) \in Nat
    <2> DEFINE S == Left
               T == Left'
    <2>1. S \in SUBSET BaseEdit /\ T \in SUBSET S /\ T # S
      BY <1>1, <1>3, <1>4 DEF Left
    <2> HIDE DEF S, T
    <2>2. Cardinality(T) + 1 <= Cardinality(S) /\ Cardinality(T) \in Nat /\ Cardinality(S) \in Nat
      BY <2>1, LeftIs
    <2> QED BY <2>2 DEF S, T
  <1>6. OwedNow' = OwedNow /\ OwedNow \in 0 .. 3
    <2>1. UNCHANGED <<work, here, tree, op>>
      BY DEF MoveBase, desk
    <2>2. Has(work)' = Has(work)
      BY <1>2, <2>1 DEF IInv, Has
    <2>3. Dirty' = Dirty
      BY <2>1, <2>2 DEF Dirty
    <2>4. OwedNow' = OwedNow
      BY <2>1, <2>3 DEF OwedNow, Owed, Uncommitted
    <2>5. Dirty \in BOOLEAN /\ (tree.merging # 0) \in BOOLEAN
      BY DEF Shaped, Dirty
    <2> QED BY <2>4, <2>5, OwedIs DEF OwedNow
  <1>7. Len(commits) + OwedNow + Cardinality(Left) <= MaxCommit
    BY DEF Sized
  <1> QED BY <1>2, <1>3, <1>5, <1>6, <1>7

(* A commit beside a request takes its own room, and leaves the worktree clean. *)
LEMMA CommitBesideFits ==
  ASSUME IInv, IInv', Shaped, Shaped', Sized, PrCommits \/ AgentCommits
  PROVE  Len(commits') + OwedNow' + Cardinality(Left) <= MaxCommit
  <1> DEFINE n2 == OwedNow'
             k == Cardinality(Left)
  <1>1. CommitFiles(tree.files) /\ tree.files \in SUBSET Content /\ op' = op
    BY DEF PrCommits, PrInTime, CommitForPr, AgentCommits, CommitWorktree, IInv, DeskFits
  <1>2. Len(commits') = Len(commits) + 1 /\ Dirty' = FALSE /\ tree'.merging = 0
    BY <1>1, CommitCleans
  <1>3. n2 = Owed(op, FALSE, FALSE)
    BY <1>1, <1>2, OwedAfter
  <1>4. n2 \in 0 .. 2 /\ (op = NoOp => n2 = 0)
    BY <1>3, OwedClean, NothingOwed
  <1>5. Len(commits) \in Nat /\ k \in Nat
    <2>1. Left \in SUBSET BaseEdit
      BY DEF Left
    <2> QED BY <2>1, LeftIs, LenProperties DEF IInv, Graph
  <1>6. \/ Len(commits) + 3 + k <= MaxCommit
        \/ op = NoOp /\ Len(commits) + 1 + k <= MaxCommit
    BY FreshIsLeft DEF PrCommits, PrInTime, CommitForPr, AgentCommits, Room, Sized, Shaped
  <1> HIDE DEF n2, k
  <1>7. Len(commits') + n2 + k <= MaxCommit
    BY <1>2, <1>4, <1>5, <1>6
  <1> QED BY <1>7 DEF n2, k

LEMMA BeginFits ==
  ASSUME IInv, IInv', Shaped, Shaped', Sized, NEW r \in Kinds, Begin(r)
  PROVE  Len(commits') + OwedNow' + Cardinality(Left) <= MaxCommit
  <1> DEFINE n2 == OwedNow'
             k == Cardinality(Left)
             p2 == tree'.merging # 0
             d2 == Dirty'
             o2 == op'
  <1>1. UNCHANGED commits /\ o2.at = FirstStep[r] /\ o2.kind = r
    BY DEF Begin, Offered, Request, objects, NoOp
  <1>2. n2 = Owed(o2, d2, p2) /\ d2 \in BOOLEAN /\ p2 \in BOOLEAN
    BY OwedAfter
  <1>3. Need[r] \in Nat /\ n2 <= Need[r] /\ n2 \in 0 .. 3
    <2> HIDE DEF o2, d2, p2, n2
    <2>1. CASE r = "merge"
      BY <1>1, <1>2, <2>1, OwedIs DEF FirstStep, Need, Uncommitted
    <2>2. CASE r = "prepare"
      BY <1>1, <1>2, <2>2, OwedIs DEF FirstStep, Need, Uncommitted
    <2>3. CASE r = "complete"
      BY <1>1, <1>2, <2>3, OwedIs DEF FirstStep, Need, Uncommitted
    <2>4. CASE r = "abort"
      BY <1>1, <1>2, <2>4, OwedIs DEF FirstStep, Need, Uncommitted
    <2>5. CASE r = "sync"
      BY <1>1, <1>2, <2>5, OwedIs DEF FirstStep, Need, Uncommitted
    <2>6. CASE r = "launch"
      BY <1>1, <1>2, <2>6, OwedIs DEF FirstStep, Need, Uncommitted
    <2> QED BY <2>1, <2>2, <2>3, <2>4, <2>5, <2>6 DEF Kinds
  <1>4. Len(commits) \in Nat /\ k \in Nat
    <2>1. Left \in SUBSET BaseEdit
      BY DEF Left
    <2> QED BY <2>1, LeftIs, LenProperties DEF IInv, Graph
  <1>5. Len(commits) + Need[r] + k <= MaxCommit
    BY FreshIsLeft DEF Begin, Offered, Request, Room, Sized
  <1> HIDE DEF n2, k
  <1>6. Len(commits') + n2 + k <= MaxCommit
    BY <1>1, <1>3, <1>4, <1>5
  <1> QED BY <1>6 DEF n2, k

LEMMA SizedStep ==
  ASSUME IInv, IInv', Shaped, Shaped', Sized, [Next]_vars
  PROVE  Sized'
  <1> DEFINE n2 == OwedNow'
             k == Cardinality(Left)
             k2 == Cardinality(Left')
  <1>1. Len(commits') + n2 + k <= MaxCommit \/ MoveBase
    <2>1. CASE Outside
      BY <2>1, CommitBesideFits, BeginFits DEF Outside
    <2>2. CASE ~Outside
      <3> DEFINE n == OwedNow
      <3>1. Len(commits') + n2 <= Len(commits) + n /\ Len(commits) + n + k <= MaxCommit
        BY <2>2, OwedStep DEF Sized
      <3>2. Dirty \in BOOLEAN /\ (tree.merging # 0) \in BOOLEAN
        BY DEF Shaped, Dirty
      <3>3. n \in 0 .. 3
        BY <3>2, OwedIs DEF OwedNow
      <3>4. n2 \in 0 .. 3
        <4> DEFINE d2 == Dirty'
                   p2 == tree'.merging # 0
        <4>1. n2 = Owed(op', d2, p2) /\ d2 \in BOOLEAN /\ p2 \in BOOLEAN
          BY OwedAfter
        <4> HIDE DEF d2, p2, n2
        <4> QED BY <4>1, OwedIs
      <3>5. Len(commits) \in Nat /\ Len(commits') \in Nat /\ k \in Nat
        <4>1. Left \in SUBSET BaseEdit
          BY DEF Left
        <4> QED BY <4>1, LeftIs, LenProperties DEF IInv, Graph
      <3> HIDE DEF n, n2, k
      <3> QED BY <3>1, <3>3, <3>4, <3>5
    <2> QED BY <2>1, <2>2
  <1>2. k2 <= k /\ k2 \in Nat /\ k \in Nat /\ Len(commits') \in Nat
    <2>1. Left \in SUBSET BaseEdit /\ Left' \in SUBSET Left /\ Len(commits') \in Nat
      BY AnyCommits, KnownGrows DEF Left
    <2> QED BY <2>1, LeftIs
  <1>3. n2 \in 0 .. 3
    <2> DEFINE d2 == Dirty'
               p2 == tree'.merging # 0
    <2>1. n2 = Owed(op', d2, p2) /\ d2 \in BOOLEAN /\ p2 \in BOOLEAN
      BY OwedAfter
    <2> HIDE DEF d2, p2, n2
    <2> QED BY <2>1, OwedIs
  <1>4. Len(commits') + n2 + k2 <= MaxCommit
    <2>1. CASE MoveBase
      BY <2>1, BaseMoveFits
    <2>2. CASE Len(commits') + n2 + k <= MaxCommit
      <3> HIDE DEF n2, k, k2
      <3> QED BY <1>2, <1>3, <2>2
    <2> QED BY <1>1, <2>1, <2>2
  <1> QED BY <1>4, FilesAreKnown DEF Sized

LEMMA SizedInit == Init => Shaped /\ Sized
  <1> SUFFICES ASSUME Init PROVE Shaped /\ Sized
    OBVIOUS
  <1> DEFINE root == [parents |-> <<>>, has |-> {}, hist |-> {1}]
  <1>1. commits = <<root>> /\ Len(commits) = 1 /\ commits[1].has = {}
    BY DEF Init
  <1>2. Known = {} /\ Left = BaseEdit
    BY <1>1 DEF Known, Left, Made
  <1>3. Shaped
    BY <1>1 DEF Init, Shaped, NoOp
  <1>4. OwedNow = 0
    <2>1. op = NoOp /\ Dirty \in BOOLEAN
      BY DEF Init, Dirty
    <2> QED BY <2>1, NothingOwed DEF OwedNow
  <1>5. Cardinality(BaseEdit) \in Nat /\ Cardinality(BaseEdit) < MaxCommit
    BY BoundAssumption, FS_CardinalityType
  <1>6. tree.files = {}
    BY DEF Init
  <1> QED BY <1>1, <1>2, <1>3, <1>4, <1>5, <1>6 DEF Sized

(* Every variable keeps its shape, and the room a request reserves when it begins is     *)
(* enough for all it commits, whatever reaches the base branch or is committed beside it: *)
(* the bound on commits cuts no request short in the middle of its git commands.          *)
THEOREM TypeCorrect == Spec => []TypeOK
  <1> DEFINE All == IInv /\ Shaped /\ Sized
  <1>1. Init => All
    BY InitHolds, SizedInit
  <1>2. All /\ [Next]_vars => All'
    BY StepHolds, ShapedStep, SizedStep
  <1>3. All => TypeOK
    <2> SUFFICES ASSUME All PROVE TypeOK
      OBVIOUS
    <2>1. Len(commits) \in Nat /\ DOMAIN commits = Made /\ 1 \in Made
      BY LenProperties DEF IInv, Graph, Made
    <2>2. Len(commits) \in 1 .. MaxCommit /\ {0} \cup Made \subseteq Id
      <3> DEFINE n == OwedNow
                 k == Cardinality(Left)
      <3>1. Dirty \in BOOLEAN /\ (tree.merging # 0) \in BOOLEAN
        BY DEF Shaped, Dirty
      <3>2. n \in 0 .. 3
        BY <3>1, OwedIs DEF OwedNow
      <3>3. k \in Nat
        <4>1. Left \in SUBSET BaseEdit
          BY DEF Left
        <4> QED BY <4>1, LeftIs
      <3>4. Len(commits) + n + k <= MaxCommit
        BY DEF Sized
      <3> HIDE DEF n, k
      <3>5. Len(commits) <= MaxCommit
        BY <2>1, <3>2, <3>3, <3>4
      <3> QED BY <2>1, <3>5 DEF Made, Id
    <2>3. \A c \in DOMAIN commits :
            /\ commits[c].has \subseteq Content /\ commits[c].hist \subseteq 1 .. c
            /\ \A i \in DOMAIN commits[c].parents : commits[c].parents[i] \in 1 .. (c - 1)
      <3> SUFFICES ASSUME NEW c \in Made
                   PROVE  /\ commits[c].has \subseteq Content /\ commits[c].hist \subseteq 1 .. c
                          /\ \A i \in DOMAIN commits[c].parents :
                               commits[c].parents[i] \in 1 .. (c - 1)
        BY <2>1
      <3>1. commits[c] \in Stamp
        BY ElementOfSeq DEF IInv, Graph, Made
      <3> QED BY <3>1 DEF Stamp, IInv, Graph
    <2>4. row.sha \in Made
      BY TipsAre DEF IInv, RowFits
    <2>5. tree.files \subseteq Content /\ tree.merging \in Id /\ marker \in Id
      BY <2>2 DEF IInv, DeskFits, Made
    <2>6. (op = NoOp) = (op.kind = "none") /\ op.at \in Steps /\ op.tip \in Id
      BY <2>2 DEF Shaped, NoOp, IInv, OpFits
    <2> QED BY <2>1, <2>2, <2>3, <2>4, <2>5, <2>6 DEF TypeOK, IInv, Shaped
  <1> QED BY <1>1, <1>2, <1>3, PTL DEF Spec
----------------------------------------------------------------------------
(* What the base branch descends from *)

LEMMA BaseStep ==
  ASSUME IInv, [Next]_vars
  PROVE  commits[base].hist \subseteq commits'[base'].hist
  <1> USE DEF objects, desk, routes, world
  <1> USE TipsAre
  <1>1. CASE UNCHANGED base
    <2>1. Len(commits) \in Nat /\ base \in 1 .. Len(commits)
      BY LenProperties DEF IInv, Graph, Made
    <2>2. commits'[base] = commits[base]
      BY <2>1, AnyCommits, CommitCounts
    <2> QED BY <1>1, <2>2
  <1>2. OpFits(op, commits, work, base)
    BY DEF IInv
  <1>3. CASE UpdateRef /\ base = op.old
    <2>1. op.wtip \in Made /\ op.plan \in SUBSET Content
      BY <1>2, <1>3 DEF UpdateRef, OpFits, Made
    <2>2. BaseOnward
      BY <1>3, <2>1, BaseMoves DEF UpdateRef
    <2> QED BY <2>2 DEF BaseOnward
  <1>4. ASSUME NEW at, MergeBranch(at), ~Clashes(base, work)
        PROVE  commits[base].hist \subseteq commits'[base'].hist
    <2>1. BaseOnward
      BY <1>4, BaseMoves DEF MergeBranch
    <2> QED BY <2>1 DEF BaseOnward
  <1>5. CASE MergeInWorktree \/ MergeInPlace
    <2>1. CASE Clashes(base, work)
      BY <1>1, <1>5, <2>1 DEF MergeInWorktree, MergeInPlace, MergeBranch
    <2> QED BY <1>4, <1>5, <2>1 DEF MergeInWorktree, MergeInPlace
  <1>6. CASE MoveBase
    <2>1. PICK e \in BaseEdit : Commit(<<base>>, Has(base) \cup {e})
      BY <1>6 DEF MoveBase, Fresh
    <2>2. Has(base) \cup {e} \in SUBSET Content
      BY DEF Content
    <2>3. BaseOnward
      BY <1>6, <2>1, <2>2, BaseMoves DEF MoveBase
    <2> QED BY <2>3 DEF BaseOnward
  <1>7. CASE Prepare
    BY <1>1, <1>7 DEF Prepare, PreparePaused, PrepareSynced, PrepareCommit, SetMarker,
                      TrialMerges, TrialConflicts, TrialFails
  <1>8. CASE CompleteRefused \/ CompleteStages \/ MergeCommits \/ MergeLocks \/ MergeTree \/ ReadTips
             \/ TreeUnsupported \/ MergeRefused \/ SpendMarker \/ RecordMerge
    BY <1>1, <1>8 DEF CompleteRefused, CompleteStages, MergeCommits, MergeLocks, MergeTree,
                      ReadTips, TreeUnsupported, MergeRefused, SpendMarker, RecordMerge
  <1>9. CASE UpdateRef
    BY <1>1, <1>3, <1>9 DEF UpdateRef
  <1>10. CASE Abort \/ CatchUp \/ (\E k \in Kinds : Begin(k))
    BY <1>1, <1>10 DEF Abort, CatchUp, AbortPaused, AbortLooks, AbortResets, EnsureWorktree,
                       SyncStatus, FastForward, Begin, Request
  <1>11. CASE Unlocked
    BY <1>1, <1>11 DEF Unlocked, PrCommits, CommitForPr, DiffReads, DiffHeals, PruneChecks,
                       PruneRemoves, PruneRecords
  <1>12. CASE Agent \/ UserInCheckout \/ Crash \/ UNCHANGED vars
    BY <1>1, <1>12 DEF Agent, AgentEdits, AgentResolves, AgentCommits, TurnEnds,
                       UserInCheckout, Crash, vars
  <1> QED BY <1>5, <1>6, <1>7, <1>8, <1>9, <1>10, <1>11, <1>12 DEF Next, Land

(* No step takes a commit from the base branch, whoever moves it between two git   *)
(* commands of a request: the object-level merge moves the reference only from the *)
(* tip that became its parent, every other merge descends from the branch itself.  *)
THEOREM CommitsAreKept == Spec => BaseKeepsCommits
  <1>1. IInv /\ IInv' /\ [Next]_vars => [Hist(base) \subseteq Hist(base)']_vars
    <2> SUFFICES ASSUME IInv, IInv', [Next]_vars
                 PROVE  Hist(base) \subseteq Hist(base)'
      OBVIOUS
    <2>1. Hist(base) = commits[base].hist
      BY TipsAre
    <2>2. Hist(base)' = commits'[base'].hist
      <3>1. base' \in 1 .. Len(commits')
        BY DEF IInv, Made
      <3> QED BY <3>1 DEF Hist
    <2> QED BY <2>1, <2>2, BaseStep
  <1> QED BY <1>1, Invariance, PTL DEF Spec, BaseKeepsCommits
=============================================================================
