----------------------------- MODULE MergeFlow -----------------------------
(***************************************************************************)
(* Landing a task's work: the task's branch and worktree, the base branch, *)
(* the project's main checkout, and the requests that move them (lib/git.ts *)
(* and the merge, prepare, complete, abort, sync, diff and prune        *)
(* routes).  Every git command of a request is a step of its own, so that   *)
(* the user, the agent, the routes that take no task lock and a crash come  *)
(* in between.  One task; the other tasks of the project and the user's own *)
(* commits are MoveBase.                                                    *)
(*                                                                          *)
(* The content of a tree is the set of edits it holds.  A commit carries    *)
(* its ancestors, so no definition needs recursion.                         *)
(***************************************************************************)
EXTENDS Naturals, Sequences, FiniteSets

CONSTANTS
  WorkEdit,    \* edits the task's agent may make
  BaseEdit,    \* edits that reach the base branch from elsewhere
  Clash,       \* the pairs {e, f} of edits that conflict when merged
  Markers,     \* the conflict markers git leaves in a file
  MaxCommit,   \* bound on the commits a behaviour makes
  Quiet,       \* steps during which nobody else moves the base branch
  Overlap,     \* what may go wrong beside a request: "prune" and "pr", these routes
               \* take no task lock and come inside a locked one; "git", the git
               \* commands of the prune route's checks fail
  StaleMerge   \* may a page that missed a paused merge still ask for a merge?

Kinds == {"merge", "prepare", "complete", "abort", "sync", "launch"}
Steps == {"none", "pre", "mark", "trial", "stage", "commit", "lock", "tree", "tips",
          "cas", "worktree", "inplace", "record", "save", "abort", "reset", "status", "ff", "ensure"}

ASSUME MergeAssumption ==
  /\ MaxCommit \in Nat \ {0}
  /\ WorkEdit \cap BaseEdit = {} /\ Markers \notin WorkEdit \cup BaseEdit
  /\ Clash \subseteq SUBSET (WorkEdit \cup BaseEdit)
  /\ Quiet \subseteq Steps /\ Overlap \subseteq {"prune", "pr", "git"} /\ StaleMerge \in BOOLEAN

\* What may reach the base branch from elsewhere leaves room beside the root.
ASSUME BoundAssumption == IsFiniteSet(BaseEdit) /\ Cardinality(BaseEdit) < MaxCommit

VARIABLES
  commits,   \* the object store: a sequence of [parents, hist, has]
  work,      \* tip of the task's branch
  base,      \* tip of the project's base branch
  here,      \* does the worktree directory exist?
  tree,      \* the worktree: [files, merging]; merging is MERGE_HEAD or 0
  marker,    \* refs/worktree/orch-merge-abort, 0 when unset
  main,      \* the project checkout: [on, dirty, merging]; on: base is checked out
  row,       \* the task row: [path, sha, merged] = worktree_path, base_sha, merged_at
  op,        \* the request that holds the task lock
  prune,     \* the prune route: "none", about to "remove", about to "record"
  load,      \* the row updates a GET diff has computed and not yet written
  turn,      \* does the task have a running turn?
  review     \* history: the edits made while a merge was paused for resolution

objects == <<commits, work, base>>
desk    == <<here, tree, marker>>
routes  == <<prune, load>>
world   == <<turn, review>>
vars    == <<objects, desk, main, row, op, routes, world>>

NoOp == [kind |-> "none", at |-> "none", tip |-> 0, old |-> 0, wtip |-> 0, plan |-> {}]
NoLoad == [on |-> FALSE, sha |-> 0, merged |-> "keep"]
Content == WorkEdit \cup BaseEdit \cup {Markers}
Id == 0..MaxCommit

(***************************************************************************)
(* Commits.                                                                *)
(***************************************************************************)
Has(c)     == IF c = 0 THEN {} ELSE commits[c].has
Hist(c)    == IF c = 0 THEN {} ELSE commits[c].hist
Next1      == Len(commits) + 1
Commit(ps, files) ==
  commits' = Append(commits, [parents |-> ps, has |-> files,
                              hist |-> {Next1} \cup UNION {Hist(ps[i]) : i \in DOMAIN ps}])

\* Everything the common ancestors of a and b hold: the merge base.
Common(a, b)  == UNION {Has(c) : c \in Hist(a) \cap Hist(b)}
\* git's three-way merge: what both have, and what either added.
Merged(a, b)  == (Has(a) \cap Has(b)) \cup ((Has(a) \cup Has(b)) \ Common(a, b))
Clashes(a, b) == \E e \in Has(a) \ Common(a, b), f \in Has(b) \ Common(a, b) : {e, f} \in Clash
MergeBase(a, b) == CHOOSE c \in Hist(a) \cap Hist(b) :
                     \A d \in Hist(a) \cap Hist(b) : d <= c

\* Edits nobody has made yet.
Fresh(edits) == {e \in edits : e \notin tree.files /\ \A c \in DOMAIN commits : e \notin Has(c)}
\* Room for n more commits, beside those that may still reach the base branch.
Room(n) == Len(commits) + n + Cardinality(Fresh(BaseEdit)) <= MaxCommit
\* The most commits each request makes.
Need == [merge |-> 2, prepare |-> 3, complete |-> 2, abort |-> 0, sync |-> 2, launch |-> 0]

Dirty == here /\ tree.files # Has(work)
Clean(c) == [files |-> Has(c), merging |-> 0]

\* git add -A && git commit in the worktree: a paused merge becomes its second parent.
CommitFiles(files) ==
  /\ Commit(IF tree.merging = 0 THEN <<work>> ELSE <<work, tree.merging>>, files)
  /\ work' = Next1
  /\ tree' = [files |-> files, merging |-> 0]

\* commitWorktree: nothing to do on a clean tree.
CommitWorktree ==
  IF Dirty THEN CommitFiles(tree.files) ELSE UNCHANGED <<commits, work, tree>>

(***************************************************************************)
(* A request takes the task lock: no turn, a worktree, and for the landing  *)
(* ones a clean project checkout.                                           *)
(***************************************************************************)
FirstStep == [merge |-> "commit", prepare |-> "pre", complete |-> "stage",
              abort |-> "abort", sync |-> "status", launch |-> "ensure"]

Goto(s) == op' = [op EXCEPT !.at = s]
Done    == op' = NoOp

Request(k) ==
  /\ op = NoOp /\ ~turn /\ Room(Need[k])
  /\ k # "launch" => here /\ row.path
  /\ k \in {"merge", "prepare", "complete"} => ~main.dirty
  /\ k = "launch" => "prune" \in Overlap \/ prune # "remove"
  /\ op' = [NoOp EXCEPT !.kind = k, !.at = FirstStep[k]]
  /\ UNCHANGED <<objects, desk, main, row, routes, world>>

\* The server would merge a paused merge; it is the page that offers to accept or
\* discard it instead (TaskChanges.tsx).
Offered(k) == k = "merge" => StaleMerge \/ tree.merging = 0
Begin(k) == Offered(k) /\ Request(k)

\* What a clean trial merge leads to: prepare lands it, sync moves the diff base.
AfterClean ==
  \/ op.kind = "prepare" /\ Goto("stage") /\ UNCHANGED row
  \/ op.kind = "sync" /\ Done /\ row' = [row EXCEPT !.sha = op.tip]

(***************************************************************************)
(* prepareWorktreeMerge: the base branch into the worktree.                 *)
(***************************************************************************)
PreparePaused ==
  /\ op.at = "pre" /\ tree.merging # 0
  /\ Done
  /\ UNCHANGED <<objects, desk, main, row, routes, world>>

PrepareSynced ==
  /\ op.at = "pre" /\ tree.merging = 0 /\ base \in Hist(work)
  /\ AfterClean
  /\ UNCHANGED <<objects, desk, main, routes, world>>

PrepareCommit ==
  /\ op.at = "pre" /\ tree.merging = 0 /\ base \notin Hist(work)
  /\ CommitWorktree
  /\ Goto("mark")
  /\ UNCHANGED <<base, here, marker, main, row, routes, world>>

SetMarker ==
  /\ op.at = "mark"
  /\ marker' = work
  /\ Goto("trial")
  /\ UNCHANGED <<objects, here, tree, main, row, routes, world>>

TrialMerges ==
  /\ op.at = "trial" /\ ~Clashes(work, base)
  /\ Commit(<<work, base>>, Merged(work, base))
  /\ work' = Next1
  /\ tree' = [files |-> Merged(work, base), merging |-> 0]
  /\ AfterClean
  /\ UNCHANGED <<base, here, marker, main, routes, world>>

\* The markers stay in the worktree for the agent or the user to resolve.
TrialConflicts ==
  /\ op.at = "trial" /\ Clashes(work, base)
  /\ tree' = [files |-> Merged(work, base) \cup {Markers}, merging |-> base]
  /\ Done
  /\ UNCHANGED <<objects, here, marker, main, row, routes, world>>

\* A failure that is no conflict: merge --abort, and the marker goes.
TrialFails ==
  /\ op.at = "trial"
  /\ marker' = 0
  /\ Done
  /\ UNCHANGED <<objects, here, tree, main, row, routes, world>>

(***************************************************************************)
(* completeWorktreeMerge: refuse staged markers, commit the merge, land it. *)
(***************************************************************************)
\* git diff --cached --check: markers the index adds to HEAD.
StagedMarkers_NotChecked == FALSE
StagedMarkers == Markers \in tree.files \ Has(work)

CompleteRefused ==
  /\ op.at = "stage" /\ StagedMarkers
  /\ Done
  /\ UNCHANGED <<objects, desk, main, row, routes, world>>

CompleteStages ==
  /\ op.at = "stage" /\ ~StagedMarkers
  /\ IF tree.merging # 0 THEN CommitFiles(tree.files) ELSE UNCHANGED <<commits, work, tree>>
  /\ Goto("commit")
  /\ UNCHANGED <<base, here, marker, main, row, routes, world>>

(***************************************************************************)
(* mergeTask: commit the worktree, note the tip, and under the repo lock    *)
(* land the branch in place, at the object level or in a throwaway worktree.*)
(***************************************************************************)
\* The tip it reads then is 0 when that rev-parse fails.
MergeCommits ==
  /\ op.at = "commit"
  /\ CommitWorktree
  /\ \E tip \in {0, work'} : op' = [op EXCEPT !.at = "lock", !.tip = tip]
  /\ UNCHANGED <<base, here, marker, main, row, routes, world>>

\* A main checkout found mid-merge is aborted first, whoever began that merge.
MergeLocks ==
  /\ op.at = "lock"
  /\ main' = IF main.merging THEN [main EXCEPT !.dirty = FALSE, !.merging = FALSE] ELSE main
  /\ Goto(IF work \in Hist(base) THEN "record" ELSE IF main.on THEN "inplace" ELSE "tree")
  /\ UNCHANGED <<objects, desk, row, routes, world>>

\* The tree of the merge is computed from the branch names ...
MergeTree ==
  /\ op.at = "tree" /\ ~Clashes(base, work)
  /\ op' = [op EXCEPT !.at = "tips", !.plan = Merged(base, work)]
  /\ UNCHANGED <<objects, desk, main, row, routes, world>>

\* ... then the tips are read for its parents ...
ReadTips ==
  /\ op.at = "tips"
  /\ op' = [op EXCEPT !.at = "cas", !.old = base, !.wtip = work]
  /\ UNCHANGED <<objects, desk, main, row, routes, world>>

\* ... and the base branch moves only if it is still at the tip read.
UpdateRef_NoOldValue ==
  /\ op.at = "cas"
  /\ Commit(<<op.old, op.wtip>>, op.plan)
  /\ base' = Next1
  /\ Goto("record")
  /\ UNCHANGED <<work, desk, main, row, routes, world>>

UpdateRef ==
  /\ op.at = "cas"
  /\ IF base = op.old
     THEN /\ Commit(<<op.old, op.wtip>>, op.plan)
          /\ base' = Next1
          /\ Goto("record")
     ELSE Goto("worktree") /\ UNCHANGED <<commits, base>>
  /\ UNCHANGED <<work, desk, main, row, routes, world>>

\* merge-tree is missing or its output is not understood: the slow path.
TreeUnsupported ==
  /\ op.at = "tree"
  /\ Goto("worktree")
  /\ UNCHANGED <<objects, desk, main, row, routes, world>>

\* git merge of the work branch into a checkout of base, clean or aborted.
MergeBranch(at) ==
  /\ op.at = at
  /\ IF Clashes(base, work)
     THEN Done /\ UNCHANGED <<commits, base>>
     ELSE /\ Commit(<<base, work>>, Merged(base, work))
          /\ base' = Next1
          /\ Goto("record")

MergeInWorktree ==
  /\ MergeBranch("worktree")
  /\ UNCHANGED <<work, desk, main, row, routes, world>>

MergeInPlace ==
  /\ ~main.dirty /\ MergeBranch("inplace")
  /\ UNCHANGED <<work, desk, main, row, routes, world>>

\* Conflicts in merge-tree, a dirty main checkout, a throwaway worktree that
\* cannot be added: the request answers 409 and nothing has moved.
MergeRefused_Recorded ==
  /\ \/ op.at = "tree" /\ Clashes(base, work)
     \/ op.at = "inplace" /\ main.dirty
     \/ op.at = "worktree"
  /\ Goto("record")
  /\ UNCHANGED <<objects, desk, main, row, routes, world>>

MergeRefused ==
  /\ \/ op.at = "tree" /\ Clashes(base, work)
     \/ op.at = "inplace" /\ main.dirty
     \/ op.at = "worktree"
  /\ Done
  /\ UNCHANGED <<objects, desk, main, row, routes, world>>

\* A completed resolution drops its marker ...
SpendMarker ==
  /\ op.at = "record" /\ op.kind # "merge"
  /\ marker' = 0
  /\ Goto("save")
  /\ UNCHANGED <<objects, here, tree, main, row, routes, world>>

\* ... and the route updates the task.
RecordMerge_AnySha ==                     \* mutant: writes a sha that was not read
  /\ op.at = IF op.kind = "merge" THEN "record" ELSE "save"
  /\ row' = [row EXCEPT !.sha = op.tip, !.merged = TRUE]
  /\ Done
  /\ UNCHANGED <<objects, desk, main, routes, world>>
RecordMerge ==
  /\ op.at = IF op.kind = "merge" THEN "record" ELSE "save"
  /\ row' = [row EXCEPT !.sha = IF op.tip = 0 THEN @ ELSE op.tip, !.merged = TRUE]
  /\ Done
  /\ UNCHANGED <<objects, desk, main, routes, world>>

(***************************************************************************)
(* abortWorktreeMerge: cancel the paused merge, or take back the merge      *)
(* commit the marker points below.                                          *)
(***************************************************************************)
AbortPaused ==
  /\ op.at = "abort" /\ tree.merging # 0
  /\ tree' = Clean(work)
  /\ marker' = 0
  /\ Done
  /\ UNCHANGED <<objects, here, main, row, routes, world>>

\* A merge commit whose first parent is the marker.
OurMerge == marker # 0 /\ Len(commits[work].parents) = 2 /\ commits[work].parents[1] = marker

AbortLooks ==
  /\ op.at = "abort" /\ tree.merging = 0
  /\ IF marker = 0 THEN Done
                   ELSE op' = [op EXCEPT !.at = "reset", !.tip = IF OurMerge THEN marker ELSE 0]
  /\ UNCHANGED <<objects, desk, main, row, routes, world>>

AbortResets_OverDirty ==
  /\ op.at = "reset"
  /\ IF op.tip # 0 THEN work' = op.tip /\ tree' = Clean(op.tip) ELSE UNCHANGED <<work, tree>>
  /\ marker' = 0
  /\ Done
  /\ UNCHANGED <<commits, base, here, main, row, routes, world>>

AbortResets ==
  /\ op.at = "reset"
  /\ IF op.tip # 0 /\ ~Dirty
     THEN work' = op.tip /\ tree' = Clean(op.tip)
     ELSE UNCHANGED <<work, tree>>
  /\ marker' = 0
  /\ Done
  /\ UNCHANGED <<commits, base, here, main, row, routes, world>>

(***************************************************************************)
(* Sync and the launch of a turn: the catch-up with the base branch.        *)
(***************************************************************************)
\* The launch re-creates a worktree that is missing, on the surviving branch.
EnsureWorktree ==
  /\ op.at = "ensure"
  /\ IF here /\ row.path
     THEN UNCHANGED <<here, tree, marker, row>>
     ELSE /\ here' = TRUE
          /\ tree' = IF here THEN tree ELSE Clean(work)
          /\ marker' = IF here THEN marker ELSE 0
          /\ row' = [row EXCEPT !.path = TRUE, !.sha = base]
  /\ Goto("status")
  /\ UNCHANGED <<objects, main, routes, world>>

Behind         == base \notin Hist(work)
CanFastForward == Behind /\ work \in Hist(base) /\ ~Dirty /\ here

\* worktreeSyncStatus; what is no fast-forward is left to the user by a launch.
SyncStatus ==
  /\ op.at = "status"
  /\ \/ CanFastForward /\ op' = [op EXCEPT !.at = "ff", !.tip = base] /\ UNCHANGED turn
     \/ ~CanFastForward /\ op.kind = "launch" /\ Done /\ turn' = TRUE
     \/ ~CanFastForward /\ op.kind = "sync" /\ UNCHANGED turn
        /\ IF Behind THEN op' = [op EXCEPT !.at = "pre", !.tip = base] ELSE Done
  /\ UNCHANGED <<objects, desk, main, row, routes, review>>

\* git merge --ff-only, then the diff base is the tip the status read.
FastForward ==
  /\ op.at = "ff"
  /\ IF here /\ work \in Hist(base) /\ tree.merging = 0
     THEN work' = base /\ tree' = Clean(base) /\ row' = [row EXCEPT !.sha = op.tip]
     ELSE UNCHANGED <<work, tree, row>>
  /\ turn' = (op.kind = "launch")
  /\ Done
  /\ UNCHANGED <<commits, base, here, marker, main, routes, review>>

(***************************************************************************)
(* The routes that take no task lock: PR, GET diff, prune.                  *)
(***************************************************************************)
\* commitWorktree, some awaits after the route saw that task.running was 0.
CommitForPr ==
  /\ here /\ row.path /\ Dirty
  /\ CommitWorktree
  /\ UNCHANGED <<base, here, marker, main, row, op, routes, world>>

\* By then a request or a turn may have begun: only with "pr" in Overlap here, and
\* over a paused merge only from a page that missed it.
PrInTime == IF "pr" \in Overlap THEN Room(3) ELSE op = NoOp /\ ~turn /\ Room(1)
PrCommits == PrInTime /\ (StaleMerge \/ tree.merging = 0) /\ CommitForPr

\* resolveBase: a live merge base ahead of the recorded sha replaces it.
LiveBase ==
  IF row.sha \in Hist(MergeBase(base, work)) THEN MergeBase(base, work) ELSE row.sha

\* GET diff compares the row it read with the repository ...
DiffReads ==
  /\ ~load.on /\ here /\ row.path
  /\ load' = [on |-> TRUE, sha |-> LiveBase,
              merged |-> IF tree.merging # 0 THEN "keep"
                         ELSE IF work \in Hist(base) /\ ~row.merged THEN "set"
                         ELSE IF row.merged /\ ~(Hist(work) \subseteq Hist(LiveBase)) THEN "clear"
                         ELSE "keep"]
  /\ load' # [on |-> TRUE, sha |-> row.sha, merged |-> "keep"]
  /\ UNCHANGED <<objects, desk, main, row, op, prune, world>>

\* ... and heals the row after its awaits.
DiffHeals ==
  /\ load.on
  /\ row' = [row EXCEPT !.sha = load.sha,
                        !.merged = CASE load.merged = "set" -> TRUE
                                     [] load.merged = "clear" -> FALSE
                                     [] OTHER -> @]
  /\ load' = NoLoad
  /\ UNCHANGED <<objects, desk, main, op, prune, world>>

\* hasTurn: a launch holds the slot before it takes the task lock.
HasTurn == turn \/ op.kind = "launch"

\* The prune route and worktreePruneSafety: merged, no turn, nothing unlanded (a git
\* command that fails counts as nothing) ...
PruneChecks ==
  /\ prune = "none" /\ row.path /\ here
  /\ ~HasTurn /\ row.merged
  /\ (~Dirty /\ work \in Hist(base)) \/ "git" \in Overlap
  /\ prune' = "remove"
  /\ UNCHANGED <<objects, desk, main, row, op, load, world>>

\* ... then, once the directory has been measured, worktree remove --force ...
PruneRemoves ==
  /\ prune = "remove"
  /\ op = NoOp \/ "prune" \in Overlap
  /\ here' = FALSE
  /\ tree' = [files |-> {}, merging |-> 0]
  /\ marker' = 0
  /\ prune' = "record"
  /\ UNCHANGED <<objects, main, row, op, load, world>>

\* ... and the row loses its path.
PruneRecords ==
  /\ prune = "record"
  /\ row' = [row EXCEPT !.path = FALSE]
  /\ prune' = "none"
  /\ UNCHANGED <<objects, desk, main, op, load, world>>

(***************************************************************************)
(* The agent in its turn.                                                   *)
(***************************************************************************)
AgentEdits ==
  /\ turn /\ here
  /\ \E e \in Fresh(WorkEdit) :
       /\ tree' = [tree EXCEPT !.files = @ \cup {e}]
       /\ review' = IF tree.merging # 0 THEN review \cup {e} ELSE review
  /\ UNCHANGED <<objects, here, marker, main, row, op, routes, turn>>

AgentResolves ==
  /\ turn /\ here /\ Markers \in tree.files
  /\ tree' = [tree EXCEPT !.files = @ \ {Markers}]
  /\ UNCHANGED <<objects, here, marker, main, row, op, routes, world>>

AgentCommits ==
  /\ turn /\ Dirty /\ Room(1) /\ Markers \notin tree.files
  /\ CommitFiles(tree.files)
  /\ UNCHANGED <<base, here, marker, main, row, op, routes, world>>

TurnEnds ==
  /\ turn
  /\ turn' = FALSE
  /\ UNCHANGED <<objects, desk, main, row, op, routes, review>>

(***************************************************************************)
(* The user, the other tasks, and a crash.                                  *)
(***************************************************************************)
MoveBase ==
  /\ op.at \notin Quiet /\ ~main.merging
  /\ \E e \in Fresh(BaseEdit) : Commit(<<base>>, Has(base) \cup {e})
  /\ base' = Next1
  /\ UNCHANGED <<work, desk, main, row, op, routes, world>>

\* Uncommitted files in the project checkout come and go; a merge of the user's
\* own may be paused there, and is dropped again.
UserInCheckout ==
  /\ main.on
  /\ \/ ~main.merging /\ main' = [main EXCEPT !.dirty = ~@]
     \/ ~main.dirty /\ main' = [main EXCEPT !.dirty = TRUE, !.merging = TRUE]
     \/ main.merging /\ main' = [main EXCEPT !.dirty = FALSE, !.merging = FALSE]
  /\ UNCHANGED <<objects, desk, row, op, routes, world>>

\* A crash while a request is under way (at rest it changes nothing here).  Inside
\* git merge it leaves MERGE_HEAD behind, in the worktree or the checkout.
Crash ==
  /\ op # NoOp \/ prune # "none"
  /\ op' = NoOp /\ prune' = "none" /\ load' = NoLoad /\ turn' = FALSE
  /\ main' \in {main} \cup
       (IF op.at = "inplace" /\ ~main.dirty
        THEN {[main EXCEPT !.dirty = TRUE, !.merging = TRUE]} ELSE {})
  /\ tree' \in {tree} \cup
       (IF op.at = "trial"
        THEN {[files |-> Merged(work, base) \cup (IF Clashes(work, base) THEN {Markers} ELSE {}),
               merging |-> base]} ELSE {})
  /\ UNCHANGED <<objects, here, marker, row, review>>

(***************************************************************************)
(* Specification.                                                          *)
(***************************************************************************)
Init ==
  /\ commits = <<[parents |-> <<>>, has |-> {}, hist |-> {1}]>>
  /\ work = 1 /\ base = 1
  /\ here = TRUE /\ tree = [files |-> {}, merging |-> 0] /\ marker = 0
  /\ \E on \in BOOLEAN : main = [on |-> on, dirty |-> FALSE, merging |-> FALSE]
  /\ row = [path |-> TRUE, sha |-> 1, merged |-> FALSE]
  /\ op = NoOp /\ prune = "none" /\ load = NoLoad
  /\ turn = FALSE /\ review = {}

Prepare  == PreparePaused \/ PrepareSynced \/ PrepareCommit \/ SetMarker
            \/ TrialMerges \/ TrialConflicts \/ TrialFails
Land     == CompleteRefused \/ CompleteStages \/ MergeCommits \/ MergeLocks \/ MergeTree
            \/ ReadTips \/ UpdateRef \/ TreeUnsupported \/ MergeInWorktree \/ MergeInPlace
            \/ MergeRefused \/ SpendMarker \/ RecordMerge
Abort    == AbortPaused \/ AbortLooks \/ AbortResets
CatchUp  == EnsureWorktree \/ SyncStatus \/ FastForward
Unlocked == PrCommits \/ DiffReads \/ DiffHeals \/ PruneChecks \/ PruneRemoves
            \/ PruneRecords
Agent    == AgentEdits \/ AgentResolves \/ AgentCommits \/ TurnEnds

Next ==
  \/ \E k \in Kinds : Begin(k)
  \/ Prepare \/ Land \/ Abort \/ CatchUp \/ Unlocked \/ Agent
  \/ MoveBase \/ UserInCheckout \/ Crash

Spec == Init /\ [][Next]_vars

(***************************************************************************)
(* Properties.                                                             *)
(***************************************************************************)
\* Every variable keeps its shape, the bound on commits is enough for every
\* request that has begun, and only a merge under resolution has a MERGE_HEAD.
TypeOK ==
  /\ Len(commits) \in 1..MaxCommit
  /\ \A c \in DOMAIN commits :
       /\ commits[c].has \subseteq Content /\ commits[c].hist \subseteq 1..c
       /\ \A i \in DOMAIN commits[c].parents : commits[c].parents[i] \in 1..(c - 1)
  /\ {work, base} \subseteq DOMAIN commits
  /\ here \in BOOLEAN /\ tree.files \subseteq Content /\ tree.merging \in Id
  /\ marker \in Id /\ row.sha \in DOMAIN commits
  /\ main \in [on : BOOLEAN, dirty : BOOLEAN, merging : BOOLEAN]
  /\ main.merging => main.dirty
  /\ (op = NoOp) = (op.kind = "none") /\ op.at \in Steps /\ op.tip \in Id
  /\ review \subseteq WorkEdit

\* The commit that the diff starts from (base_sha) is in the base branch, however
\* requests, the diff's own healing, base moves and crashes interleave: no diff hides
\* work that has not landed.  (merged_at says less, that something landed once: the
\* diff may set it from what it read before new commits came.  What hangs on it is
\* whether the cleanup may remove the worktree: KeepsWork.)
DiffBaseLanded == row.sha \in Hist(base)

\* Conflict markers never reach the base branch (completeWorktreeMerge's check).
NoMarkersLanded == Markers \notin Has(base)

\* No step takes a commit from the base branch: what another landing or the user
\* added between any two git commands of a request stays in its history.
BaseKeepsCommits == [][Hist(base) \subseteq Hist(base)']_vars

\* Nor an edit it holds.  True only if nobody moves the branch between merge-tree and
\* rev-parse ("tips" in Quiet): the tree then lacks what the parent has, the new commit
\* reverts it, and "git refuses instead of silently discarding that move" fails.
BaseOnlyGrows == [][Has(base) \ {Markers} \subseteq Has(base)']_vars

\* An edit of the agent, committed or not, is never lost: no abort, prune, sync
\* or merge removes it from the worktree without the branch or the base holding
\* it.  Edits made while a merge was paused go with that merge when the user
\* discards it.
Held == (IF here THEN tree.files ELSE {}) \cup Has(work) \cup Has(base)
KeepsWork == [][(WorkEdit \cap Held) \ review \subseteq Held']_vars
=============================================================================
