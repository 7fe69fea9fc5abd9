# Operator: a formal model of its task engine

Operator runs coding agents for a user: a **task** of a project has a git worktree, a
conversation with an agent, and a queue of follow-up messages. One Node process serves every
request; SQLite (better-sqlite3, synchronous) keeps what must survive; agents and dev servers are
child processes; browser tabs follow along on event streams. All concurrency on the server is the
interleaving of JavaScript bursts between two `await`s, so **one action is one such burst**, with
everything the code does in it. Three modules differ: in `PromiseLock` a step is a microtask; in
`ClientSync` and `Services` a request's bursts between which nothing is read or written that the
module speaks of are one action (a launch's git commands under the task lock; an exit handler and
the promise it resolves).

## 1. Inventory

| Component | State | Operations | Hard behaviour | Correct when |
|---|---|---|---|---|
| Task turns (`lib/abort.ts`, `lib/runner.ts`, `tasks/[id]/{messages,abort,clear,pending}`, `tasks/[id]/route.ts`) | slot registry, set of deleting tasks, task row, `pending_messages` | claim, launch, session, settle, park, hand-off, drain, Stop, cancel, unqueue, /clear, DELETE | late `finally` of a stopped turn, hand-off under a lock, generation change under a live turn, restart | Stop reaches every turn, no claim leaks, flags and queue agree with the live turn, a cleared session stays cleared |
| Merge flow (`lib/git.ts`, the `merge*`, `sync`, `pr`, `diff` routes, worktree maintenance) | branches, worktree, project checkout, abort marker, task row | merge, prepare, complete, abort, sync, catch-up, PR, diff, cleanup | checks, then seconds of git; the base branch moves; routes without the lock; a crash in the middle of a merge | the agent's work is never lost, the base branch loses no commit, the diff starts from what has landed |
| Locks (`lib/taskLock.ts`, `lib/repoLock.ts`) | a map of promise tails | lock, unlock | the entry dropped while others wait; a throwing section | exclusive, FIFO, never poisoned, no garbage |
| Questions (`lib/asks.ts`, `answer`, `ask-user`) | parked questions, receipts, outcome mailbox, `awaiting_input` | ask, answer, retry, poll, dismiss | several questions, retries, Stop, agent death, restart | answerable, heard or posted and never both, nothing left by a Stop |
| Workstream outbox (`lib/workstreams`, `lib/agentTools.ts`) | link row, outbox rows with claims | enqueue, claim, deliver, release, fail, reconcile, command, activate | leases, two kinds of claimants, stale answers, restart | leases respected, delivered is final, disconnect sticks, every event settles |
| Services (`lib/services.ts`) | process registry, service rows, process groups | start, stop, restart, retire, expose, share, list, restore | awaited port probe, kill grace, orphans of a killed server | a process not told to stop is recorded and supervised; a boot restores what is wanted |
| Agent drivers (`lib/agents/{prime,dsh}`) | child process and its tree, requests, event queue | launch, probe, prompt, stats, abort, stop | agent death at any point, forks while being stopped, spawn failure | a turn ends, failures are reported, its process tree is gone |
| Event stream and clients (`lib/events.ts`, `app/orchestrator/use*.ts`, `sharedEvents.ts`) | subscribers; per tab the task row, flags, transcript | publish, elect a leader, relay, catch up, open, send, clear | dropped streams, leader takeover, snapshot against tail, overtaken responses | an open transcript shows what the server has, a reopened stream repairs every flag |
| Context refresh, recap | persisted job status, in-flight sets | start, finish, clear | restart in a job, activity during a model call | one job per project, nothing counted as covered that was not read |
| Task dependencies (`store.ts` `setTaskDeps`) | edge table | replace a task's edges | cycle guard on a graph about to be changed | the graph stays acyclic |
| Connections, admission, SDK drivers | flags, SDK sessions | classify, map events | each SDK's own protocol | - |
| Files (`artifacts`, `uploads`, `transcript`), accounts, server, terminal, router, UI, analytics | - | - | I/O | out of scope, see section 9 |

How they interact: the message route and the runner's drain claim the **slot**, then take the
**task lock**, under which git is awaited; the git routes take the same lock and look at the slot.
A repository lock nests inside it. The runner drives an agent's turn; questions hang on the abort
signal of the slot's turn. Turns enqueue lifecycle events in the outbox, best effort. Everything
publishes on the event streams, which the tabs follow.

## 2. Plan

Done, in this order: `TaskTurns` with `WorktreeMutex`, what it promises about the worktree;
`PromiseLock` with `FifoLock`, the lock that TaskTurns counts on; `Asks`; `WorkstreamOutbox` with
`DeliveryQueue`, what whoever writes into it counts on; `Services`; `MergeFlow`; `ClientSync`;
`AgentRpc`. Each of the eight has a module of proofs.

Left, the most useful first:

1. Context refresh and recap as single-flight jobs; `setTaskDeps` as a graph operator compared
   with a reference definition of "acyclic".
2. An abstract specification of what a task's page is promised (row, flags and transcript of one
   tab), with `ClientSync` as its implementation.

Every module is written to be proved about: constants with named assumptions, one action per
burst, history variables marked as such, no recursive operators.

## 3. Modules and their correspondence with the code

### TaskTurns (with MCTaskTurns, TaskTurnsProofs)

One task; tasks share nothing here, since slot, mark, lock and queue are keyed by task id. A message
stands for the AbortController of the turn that runs it.

| Variable | Code |
|---|---|
| `row` | the task row: existence, `generation`, `session_id` (named by the epoch in which it was opened), `started`, `running` |
| `pending` | `pending_messages` |
| `slot` | the registry `__orchAbort` of `lib/abort.ts` |
| `deletion` | the set of tasks being deleted, and how far the DELETE request is |
| `lock` | `withTaskLock`'s queue, holder first |
| `phase`, `aborted`, `gen`, `sess` | where the handler or `run()` of each message is; its signal; the generation and session it captured |
| `git`, `clear`, `cgen` | the progress of each git request and of each /clear, and the generation the latter read first |
| `epoch`, `read` | history: how many /clear have nulled the session, and in which epoch each turn read its row; unlike a generation, an epoch tells two overlapping /clear apart |

| Actions | Code |
|---|---|
| `PostArrive` ... `PostFail`, `Launch` | `messages/route.ts` POST, from the body's await to `startTurn` |
| `RunSession`, `RunSuperseded`, `RunDiscards`, `RunParks`, `RunEnds`, `RunHandsOff` | `run()`: the session event, and the branches of its synchronous `finally` |
| `DrainDrop`, `DrainResume`, `DrainFail` | the follow-up's launch under the lock, and its failsafe |
| `Stop`, `Cancel`, `Unqueue` | the routes of those names |
| `ClearArrive`, `ClearRefuse`, `ClearAbort`, `ClearEnd` | `clear/route.ts`, split at its awaits: the task is read (14), after the body the turn is aborted (59), after the summary the row is written (95) |
| `DeleteBegin`, `DeleteSettled`, `DeleteTimeout`, `DeleteFinish` | `tasks/[id]/route.ts` DELETE |
| `GitBegin`, `GitWork`, `GitRefuse`, `GitEnd` | the merge, prepare, complete, abort and sync routes |
| `Restart` | the process dies; `lib/db.ts` resets the rows when it opens the database |

`Ops` says what the environment does in a run (stops, clears, faults, ...), so that a property can
be checked under exactly the assumptions it needs. `WorktreeMutex` is the abstract specification:
a worktree is entered only when empty.

### PromiseLock (with PromiseLockProofs) and FifoLock

The two locks are chains of promises; nothing in them is called "locked". `tail` is the map entry,
`prev` whom a call awaits, `settled` the tails that are settled, `ahead` a history variable.
`kind` chooses between `withTaskLock`, which drops the entry when the holder leaves, and
`withRepoLock`, which drops it when the tail settles. `FifoLock` is what callers count on.

### Asks (with MCAsks, AsksProofs)

Questions of the turns of one task: `parked` is the registry of `lib/asks.ts`, `waiter` the promise
`waitForAnswer` returned, `receipt` the `ask_answer` rows, `outcome` the mailbox polled through
`ask-user/wait`, `awaiting` the task's `awaiting_input`, `posted` how often each answer was sent as
an ordinary message. `driver` says how a turn's agent asks: in process (Claude), in process and then
answered by rpc (Kimi Code, whose rpc may throw: `RespondFails`), or through the MCP bridge.

### WorkstreamOutbox (with MCWorkstreamOutbox, WorkstreamOutboxProofs) and DeliveryQueue

One linked card: `link` is `workstream_links.state`; `ev` the outbox rows with claim token, lease,
due time and attempts (`tries` is a history variable); `todo` the part of a worker's batch not yet
handled; `job` what the worker and every other actor remembers across an await. An actor is a
tool call (`ToolBegin`, `ToolSend`, `ToolSettle`) or a request (`Ask`, `Heard`, `Commanded`,
`CommandLost`, `Activate`), as the sets `Tool` and `Request` say; one may be in both, and then
alternates. The worker's pass is `PassBegin` ... `PassEnd`, with `Reconcile`, `PassClaim`,
`PassPost` and what each answer does. The tracker is external: it may answer anything, also stale,
until `steady`. Time is only "the lease lapsed" and "the retry is due".
`DeliveryQueue` knows nothing of claims, leases or timers: an event is absent, queued, out,
delivered, refused or spent, and has failed so many times. `Fate` reads that off a row.

### MergeFlow (with MCMergeFlow, MergeFlowProofs)

One task's work on its way to the base branch, one git command at a time.

| Variable | Code |
|---|---|
| `commits` | the object store: parents, ancestors, and the edits the tree of each commit holds |
| `work`, `base` | the tips of the task's branch and of the base branch |
| `here`, `tree` | the worktree directory; its files and `MERGE_HEAD` |
| `marker` | `refs/worktree/orch-merge-abort` |
| `main` | the project checkout: whether it is on base, dirty, in a merge of its own |
| `row` | `worktree_path`, `base_sha`, `merged_at` |
| `op` | the request that holds the task lock, and what it read before its last await |
| `prune`, `load` | a worktree cleanup and a GET diff under way, which take no lock |
| `turn`, `review` | a running turn; history: edits made while a merge was paused |

| Actions | Code |
|---|---|
| `Begin` | the checks of the merge, prepare, complete, abort and sync routes and of a launch (`Request`), and what the page offers (`Offered`) |
| `PreparePaused` ... `TrialFails` | `prepareWorktreeMerge` |
| `CompleteRefused`, `CompleteStages` | `completeWorktreeMerge` up to the landing |
| `MergeCommits` ... `RecordMerge` | `mergeTask` and the route's `updateTask`: commit, repository lock, object-level merge with compare-and-swap (`MergeTree`, `ReadTips`, `UpdateRef`), throwaway worktree, merge in place |
| `SpendMarker` | the marker of a completed resolution is dropped, before the route's `updateTask` |
| `AbortPaused`, `AbortLooks`, `AbortResets` | `abortWorktreeMerge` |
| `EnsureWorktree`, `SyncStatus`, `FastForward` | `ensureWorktree` and the catch-up of a launch or a sync |
| `PrCommits`, `DiffReads`, `DiffHeals`, `PruneChecks`, `PruneRemoves`, `PruneRecords` | the PR, diff and maintenance routes |
| `AgentEdits` ... `TurnEnds`, `MoveBase`, `UserInCheckout`, `Crash` | the agent, other tasks and users, the end of the server |

### Services (with MCServices, ServicesProofs)

One dev server of one project.

| Variable | Code |
|---|---|
| `project` | the project's row and its `dev_command` |
| `row` | the `services` row: `desired_state`, `managed`, `pid`, `command` |
| `entry` | the registry's `Managed` entry |
| `proc` | the process groups, which outlive a server that is killed; whether they were told to stop, are certain to be killed, have lost their server |
| `op` | start and restart requests across their awaits (the port probe, the wait for the old process) |
| `restore` | `restoreServices`, between the boot's ping and its last row |
| `rushed` | history: a request came before the service was settled, or the recorded command was changed under a live process |
| `wish` | history: what the user asked for last, with the stops that the server accepted and recorded nowhere |

`Start`, `Spawn`, `StartFails` are `startService` around its probe; `Exit`, `Killed` run the exit
handlers (and the restarts that wait) in one burst; `StopUnheard` is `stopService` without a registry
entry, which returns before it records anything (526-527); `Stop`, `Restart`, `RestartIdle`,
`RestartGoes`, `Retire`, `Expose`, `Share`, `List` are the functions and routes of those names;
`CleanExit` is the exit hook, `Crash` a kill -9; `RestoreBegin` ... `RestoreSeed` the boot.

### ClientSync (with MCClientSync, ClientSyncProofs)

What browser tabs know of one task. Server side: `row`, `turn` (live or unwinding), `claims` (the
launches that hold or wait for the slot and the task lock, of a POST or of a hand-off), `said` and
`breaks` (the persisted transcript), `pend`. Streams: `leader` (the Web Lock), `conn` and `wire` (the leader's
EventSource), `chan` (the BroadcastChannel). Per tab: `tab` (the row and flags shown, and
`sharedEvents`' own), `feed` and `view` (its transcript stream and what it shows), `fetch`, `post`
(requests under way; the transcript a tab shows has `local`, what it appends under ids of its own:
an error for a failed POST, its copy of a clear's break). `mended` is a history variable. A send is
three steps of the server: `SendClaims` takes the slot and tells nobody, `SendLaunches` runs under the
lock, or `SendRefused` frees the slot, again silently; `SendArrives` is the one that queues or is
refused at once. `TurnHandsOff` settles the row and hands the slot over; the follow-up comes with
the lock: `FollowUpLaunches`, `FollowUpDropped`, `FollowUpFails`. A /clear aborts (`ClearArrives`)
and writes the row after its summary (`ClearEnds`). `GrantLock`, `StreamOpens`, `StreamDrops`,
`LeaderHears`, `FollowerHears` are `sharedEvents.ts` and `useGlobalEvents.ts`; `FeedOpens`,
`FeedDrops`, `FeedHears` are `useTaskStream.ts`; `FetchRead`, `FetchArrives`, `Send`, `Clear`,
`PostReplied` are `useOrchestrator.ts`.

### AgentRpc (with MCAgentRpc, AgentRpcProofs)

One turn of an agent that is an RPC child process, for both agents of that kind (`kind`). `proc`
are the root, workers in its group and workers that took a group of their own; `client` is the
RPC client's failure and exit; `req` the turn's requests; `stop` how far `performStop` is and the
tree it saw; `aborted` the signal; `queue` the event queue; `turn` where `runTurn` is. `Launch`,
`PromptAfterProbe`, `Initialized`, `NotInitialized`, `YieldError`, `Drained`, `PromptSettled`,
`AskStats`, `Settle`, `Done` are `runTurn`; `StopAsked` ... `StopSweeps` are `performStop`;
`ExitSeen`, `ErrorEvent`, `EndEvent`, `MessageEnd`, `ProtocolFailure` what the client hears; `Fork`
and `Dies` the agent's own. The agent is external and owes nothing: it may answer late or never,
die or fork at any time and ignore SIGTERM, which is why that signal is no action here.

## 4. Runs

| Run | Instance | Shows |
|---|---|---|
| `turns_all` | 3 messages, 1 git request, 2 clears, every fault; symmetry | `LiveTurnIsReachable`, `ClearedStaysCleared`, `RemovedTaskIsQuiet`, and the refinement `WorktreeSpec` |
| `turns_live` | 3 messages, 1 git request; stop, unqueue, delete, restart; fairness | `RunningIsLive`, `QueuedHasTurn`, `ClaimsResolve`, `DeletionEnds`, `QueueDrains` |
| `promise_lock` | 4 calls of either lock; fairness | `EntryIffLocked`, the refinement `FifoSpec`, `EveryCallServed` |
| `asks` | 2 questions, 2 turns of any drivers, agent deaths, restart, answers posted twice; fairness | `OpenQuestionIsAnswerable`, `StopDismisses`, `AnswerGoesOneWay`, `WaiterIsHeard` |
| `outbox` | 2 events, the worker, an actor that is now a tool call and now a request, 2 attempts; fairness | the refinement `DeliversAsAQueue`, `LeaseIsRespected`, `NoPostUnlessActive`, `EveryEventSettles` |
| `services` | 2 requests, 2 process groups, any number of crashes and restarts; fairness | `Supervised`, `BootStartsWhatIsWanted`, `BootRestores`, `RestartComesBack` |
| `merge` | 2 edits of the agent, 1 from elsewhere that conflicts with one of them, 6 commits, a base that moves and a crash between any two git commands | `DiffBaseLanded`, `NoMarkersLanded`, `BaseKeepsCommits`, `KeepsWork` |
| `client` | 2 tabs, of which one works on the task; 3 messages; 1 lost stream or closed tab; one open tab: 2 events under way, 2 steps begun; both: 1 and 1 | `TranscriptCaughtUp`, `ReopenRepairs` |
| `rpc` | both agents, a worker in the root's group and one outside it; fairness | `TurnLeavesNoTree`, `FailureIsReported`, `TurnEnds` |
| `turns_clear_running`, `merge_prune`, `rpc_crash` | the smallest instance | a counterexample each, section 6 |

*Bounds.* Three messages are a running turn, its successor and a follow-up queued behind either,
which is as many as one burst of the runner looks at; two clears overlap. Four calls put two waiters
between a leaving holder and an arriving call. Two questions are both in one turn, or one in each of two. Two events make a batch in which the
first delivery changes what the second one may do; two attempts separate the first failure from the
last. Two start requests overlap at the probe, and two process groups are an old process and its
successor; a third would need a service that was overtaken before (`rushed`). Six commits are the
root, a commit of the agent, one of the base, the merge of the two in either direction and the
landing. Two tabs are a leader and a follower, each of which may become the other; one lost stream
is one gap, and the invariants are about the repair of any single gap. With one tab open an event is
published while its snapshot is unread, and a request begins while another is under way (2 events);
with two the product is larger, and one event at a time still finds each of them leader, follower or
closed. One worker per kind of
process group is what the kill and the sweep tell apart. The theorems need none of these bounds.

`MaxPost`, `MaxAttempts`, `MaxCommit`, `MaxMsg`, `MaxBusy`, `MaxDrop`, `MaxStep` and the sets of
messages, requests, calls, questions, events, edits, processes and tabs are the only bounds.
`Ops` and `Faults` restrict the environment: `turns_live` excludes /clear, cancel, refusals, faults
and quota limits because `RunningIsLive` or `QueuedHasTurn` does not hold with them (sections 6 and
7), and a dead login keeps the queue on purpose. `Overlap` and `StaleMerge` do the same
for `MergeFlow`, `Late` for `ClientSync` (section 7); `Quiet` is empty in every run and serves one theorem.

Deadlock is not checked in `promise_lock` and `asks` (every call or question happens once), `merge`
and `client` (the bounds run out), `rpc` (a turn ends once), nor in the runs of section 6 that use
their instances.

## 5. Fairness

`TaskTurns`: a git command and the /clear summary end by themselves (`lib/git.ts` sets no timeout;
the commands are local), a waiter whose turn has come runs, DELETE polls up to 15 s, and a driver
whose signal is tripped unwinds. Nothing assumes that an agent ever ends its turn; `QueueDrains`
states that as its hypothesis. `PromiseLock`: microtasks run and critical sections end.
`Asks`: a bridge polls every 1.5 s while its agent lives, an rpc returns. `WorkstreamOutbox`: the
worker's timer fires, its requests time out (10 s), the clock runs; nothing is assumed of tools or
users. `EveryEventSettles` has the hypothesis that the card is active on both sides from some time
on, that no more tool calls are made and that passes find the card readable again and again.
`Services`: a probe has a deadline of 2 s, the SIGKILL timer fires, settled promises resume, and the
platform pings `services-restore` after a boot; a process need not die of SIGTERM. `AgentRpc`: every
request and every wait of the stop has a timeout, settled promises resume, the child's `exit` (or
the `error` of a failed spawn) is delivered, and a SIGKILL kills; the agent owes nothing.
`MergeFlow` and `ClientSync` state safety only: with a base that may move for ever, and with streams
that may drop for ever, the code promises no progress.

## 6. Findings

- **`turns_clear_running`**: a /clear that overlaps a launch leaves `running = 1` with no turn. The
  launch writes `running: 1` on the new generation, the turn's `finally` skips the row because the
  generation advanced, and merge, sync and /clear answer 409 until another turn settles.
- **`merge_prune`**: the worktree cleanup asks once whether the task has a live turn, then awaits
  the safety checks and the disk usage, then removes the worktree by force: a turn that started in
  between loses its uncommitted edits.
- **`rpc_crash`**: an agent that answered its prompt and then dies in the middle of its stream ends
  the turn without an error, as if it had finished; the drivers' tests reach only the agent that
  dies before it answers.

## 7. Known to fail

These are stated and do not hold, or hold only in part of the environment. Some contradict a comment
of the code, quoted below; others say what one would expect. No run is spent on them: the three of
section 6 are the ones that cost a user work, or that a test claims to cover. Each shows its
counterexample when the property is put into the named cfg, with the constants named.

Against a comment of the code:

- `TaskTurns!ClearedSessionNeverReturns` (`turns_all`), against `clear/route.ts` 52-58 ("whichever
  order ... the guard keeps session_id null"): two overlapping /clear read the same generation (14)
  and both write the next one (95). A turn begun after the first runs in the generation that the
  second one writes again, so its `finally` finds its generation current (`runner.ts` 422) and
  writes back the session that the second nulled. `ClearedStaysCleared` is what does hold.
- `TaskTurns!NoTurnOutlivesGeneration` (`turns_all`), against the same comment ("must not bleed into
  the new one"): /clear aborts the live turn (59) before it awaits the summary; a turn started before
  the row is written (95) goes on in the old generation.
- `Services!BootObeysStop` (`services`), against `services.ts` 528 ("record it so boot doesn't
  resurrect it"): a Stop that finds no registry entry, as every Stop while the boot reaps, returns at
  527 and records nothing; the boot then starts the service. `BootStartsWhatIsWanted` is about the
  stops that were recorded.
- `MergeFlow!BaseOnlyGrows` (`merge`), against `git.ts` 630-631 ("git refuses instead of silently
  discarding that move"): the tree of the object-level merge is computed from branch names (601)
  before the tips are read (618). A base that moves between the two stays a parent, which
  `BaseKeepsCommits` says, while its content is reverted. It holds with `"tips"` in `Quiet`.
- `ClientSync!HandoffClearsItsTurn` (`client`), against `useOrchestrator.ts` 454-457 and 562-566: the
  handoff a tab waits for stays pending when its POST fails or another tab stops the turn, and the
  end of a later turn then clears the session.
- `TaskTurns!RemovalWaitsForRunner` (`turns_all`): DELETE waits until the slot is free "so the runner
  isn't mid-write when the directory disappears", but Stop frees the slot at once, so DELETE after
  Stop removes the worktree under the runner that unwinds.
- `Asks!ResolvedReachesLiveTurn` (`asks`): an agent process that dies with a question open leaves it
  parked; answering it returns `resolved: true` and no turn continues.

Promised nowhere:

- `TaskTurns!QueuedHasTurn` with `"cancel"` in `Ops` (the queue of a cancelled task is left), or with
  `"refuse"` (follow-ups queued behind a refused claim wait for the next turn).
- `Asks!AnswerPostedOnce` (`asks`): when nobody waits for a question any more, two tabs, or two
  clicks, are each told `resolved: false` and each post the answer as a message
  (`useOrchestrator.ts` 442-443).
- `MergeFlow!KeepsWork` with `Overlap = {"pr"}`: the PR route's commit (`pr/route.ts` 18-28) falls
  between an abort's status check and its reset. With `Overlap = {"git"}`: a git command of the
  cleanup's checks that fails reads as an empty answer, so as a clean worktree, which is removed.
- `MergeFlow!NoMarkersLanded` with `StaleMerge = TRUE`: the merge and PR routes do not look for a
  paused merge; it is the page that does not offer them (`TaskChanges.tsx`).
- `Services!Supervised` without `rushed`: Stop, restart or retire during the awaited probe finds
  nothing to kill and the process is spawned all the same (`services.ts` 452); a Start before the
  boot's ping is killed by the reaper (658-661); the probe of a removed project spawns a process
  nothing refers to (545-547). Likewise a crash between a restart's stop and its start leaves the
  service not wanted, and a Start during a Stop's grace does nothing (429).
- `ClientSync!SpinnerSettles` (`client` with `Late = {"claims"}`, `Viewer = {t1, t2}`,
  `MCBusy = <<2, 2>>`, `MaxMsg = 1`): a transcript stream opened while a launch waits for the task
  lock hears `running: true` (`messages/route.ts` 275); the launch that is then refused frees the
  slot (222) and tells nobody, and the spinner stays up.
- `ClientSync!ReopenRepairs` with `"answers"` in `Late`: nothing orders an answer from before the gap
  behind the refetch that repairs it, so the older one may win. With `"claims"`: a stream opened while
  a claim waits says running before the row does.
- `ClientSync!BreakShownOnce` (`client`): the tab that cleared appends the break under an id of its
  own (`useOrchestrator.ts` 549), so a snapshot taken between the record and the answer shows it twice.
- `AgentRpc`: a root that exited by itself is not swept (`prime/rpc.ts` 211), which is why
  `TurnLeavesNoTree` speaks of the tree the stop saw.

## 8. What is proved

All proofs are for every value of the constants under the modules' named assumptions (the sets are
disjoint where they must be, `None` is no member and no stream, bounds are positive, and
`BoundAssumption`: what may reach the base branch from elsewhere leaves room beside the root).

- **TaskTurnsProofs**: `IInv` is the types, five conjuncts on slot, lock and removal (`Safe`) and
  three on generations (`Epochs`). `LiveTurnIsReachable` alone is not
  inductive: that a launch may ignore slot and generation rests on `LockIsHeld` (whoever awaits git
  is the lock's holder), `GitIsAlone` and the slot being claimed since before the lock was asked for.
  `ClearedForGood` rests on `GenerationsLag` (no generation that the row, a turn or a /clear holds is
  ahead of the epochs, and a turn's is not ahead of the epoch in which it read its row) and
  `TurnSessionIsCurrent` (what a turn of the last epoch writes back was opened in that epoch). `TypeCorrect` also
  proves that no message is queued twice. `RemovedTaskIsQuiet` needs `RemovalKeepsSlotFree`. The step is one
  lemma per group of actions. `Refinement` then shows that a hand-off leaves the worktree before
  the follow-up enters.
- **TaskTurnsProofs, second half**: the flag and the queue, under an assumption on `Ops`. `FlagIsLive`
  assumes no /clear, refused claim or fault, `QueueIsServed` also no cancellation and no quota limit;
  with any of these the property fails (sections 6 and 7). The flag of a turn that hands its slot over is
  cleared by that turn and set by the follow-up once it has the lock, so the invariant must say that
  nobody else comes in between: the order of the lock is the order of the claims (`SlotIsLast`:
  nobody stands behind the slot's turn), and a turn that was handed the slot is the only one in line
  and finds the flag down (`HandedIsAlone`). `QueueHasSlot` is the queue's part.
- **PromiseLockProofs**: exclusion is not inductive, since nothing in it says why a call finds its
  predecessor settled. `IInv` says what each link of the chain stands for: whoever was in line when
  a call arrived and still is, is the call it awaits (`prev`) or was ahead of that one
  (`PrevCovers`), and the same of the map entry and everyone in line (`TailCovers`). Exclusion, the
  entry's meaning, garbage freedom and the refinement of `FifoLock` follow.
- **AsksProofs**: the invariant follows each question from the registry to its outcome: parked means
  that its promise waits (`ParkedWaits`), whatever was written or told agrees with how the promise
  settled (`WordsAgree`), and an answer goes out as a message only when nobody waits
  (`PostedIsSettled`), however often it does; `AnsweredOneWay` follows; `SlotRuns` says that the slot holds the one running turn.
- **WorkstreamOutboxProofs**: most of the invariant is a condition on one row, kept by
  each change a row can undergo (one lemma each): it has a claim token exactly while it is being
  delivered, its attempts never exceed those that failed, but for the claim under way, and what is
  over for good is marked failed.
  With what the jobs remember (whoever posts or asks works on an existing event) every action is a
  change of one row, or none. The refinement `ImplementsDeliveryQueue` follows change by change: each
  of them moves the event's fate as `DeliveryQueue` allows, and a pass that takes several events
  moves them together. `DeliveredIsFinal`, `GivenUpAfterBudget` and `DisconnectSticks` are proved
  there; the queue implies the first two, and no run checks the third.
- **MergeFlowProofs**: that a recorded tip is in the base branch rests on the graph of commits being
  closed (`Graph`: a commit's ancestors carry theirs) and on what a request remembers across its
  git commands (`OpFits`): from its commit on, the noted tip is in the task's branch, which only
  grows while the request runs; when the compare-and-swap is at hand, in the tip it read; once
  landed, in the base branch. The diff's healing needs that git's merge base exists
  and lies in the base branch, a greatest element found by well-founded induction. `NoMarkers`
  assumes `~StaleMerge` and adds `Unmarked`: markers are in the worktree only while a merge is
  paused, and no request that is about to commit for a merge finds one paused. `CommitsAreKept`, without
  assumptions, rests on the tip that the compare-and-swap is given. `BaseGrows`, about edits, assumes
  `"tips" \in Quiet` and `"pr" \notin Overlap`; `WorkIsKept` assumes `Overlap = {}`
  (section 7 has what happens otherwise). Both rest on `Grown`: a commit holds what its ancestors
  hold (`HistGrows`), so does a tree that is about to be committed (`DeskGrows`) and the tree of the
  object-level merge (`PlanGrows`), and what a merge holds beside its first parent is safe without
  it (`MergesAreSafe`), which is why an abort may take a merge back. `Settled` says for each step
  that replaces the worktree's files why nothing uncommitted is in them. `TypeOK`
  says that `MaxCommit` is never exceeded, which takes a count: `Owed` is the most commits each stage
  of a request may still make, a request reserves it when it begins, and `Sized` keeps commits, what
  is owed and what may still reach the base branch below the bound.
- **AgentRpcProofs**: `FailureIsReported` needs what each stage of a turn knows of its requests
  (`FailureTold`): after the drain the prompt has settled, and a failure was yielded unless the turn
  was aborted. `TurnLeavesNoTree` needs what each stage of a stop knows of its tree (`TreeGone`): the
  root is in it, all of it is dead from the sweep on, and a group that was swept twice holds nobody
  who could fork.
- **ServicesProofs**: two invariants. `EntryIsReal` holds whatever overtakes what: the process of the
  registry's entry is a live one of this server, a managed service shown as running has one, and a
  start that was not retired finds the entry it made. `Calm` holds until `rushed`: every process that
  was not told to stop is recorded with its command and supervised, or an orphan that the boot has not
  seen (`Recorded`); requests and restore come one at a time (`InTurn`); and a start under way meets
  no such process (`StartIsAlone`), without which the spawn would make a second one. A third,
  `StillWanted`, carries the wish the boot read across the reaper's awaits: until an entry appears or
  the project goes, which makes the boot skip the service, nobody changes the row. `Heeded` says that
  a row still asks for a service only if its user's last recorded request did. `BootIsWanted`
  follows, through whatever crashes and boots.
- **ClientSyncProofs**: `TranscriptIsCaughtUp`, and, with `Late = {}`, `ReopenRepairsHolds`. Neither property is inductive while something is under way, so the invariant
  says what becomes of it. `StreamCompletes`: an event of a transcript stream counts unless a later one
  undoes it (`QueueAfter`, `SaidAfter`, for any length of the stream and without recursion), and what
  the tab shows, so completed, is what the server has. `Mending`: from a repeated open until the task
  changes, nothing on its way to the tab is older than the task (`NothingStale`), and what no
  outstanding refetch will correct is right already (`MendsTheRest`). Besides, queued prompts have
  different ids, the claims that wait for the lock are the ones whose POSTs wait for an answer
  (`ClaimsWait`), and a closed tab waits for nothing. What `mended` excludes is in section 7.

Liveness under fairness stays with TLC: no backend here proves it. So do the three runs of section 6
and the properties of section 7, which say where the code does not keep what one would expect.

## 9. Not modelled

- Contents: texts, attachments, prompts, transcripts, titles; model and agent configuration.
- The agents' wire protocols beyond what section 3 says of the two RPC agents; the drivers built on
  an SDK, whose state machine is the SDK's.
- In the merge flow: diff texts and statistics, pushes and GitHub calls, project set-up, deletion of
  branches. In services: ports, slugs, share tokens, logs, several services of one project. In the
  clients: open questions, badges, projects, usage, notifications, drafts, refetches that fail, and
  what a stopped turn says after a later launch took its place.
- In the outbox: which workstream of a card an answer belongs to (an answer for an old workstream
  may disconnect a card just activated, `worker.ts` 588), the tracker's own log of posts (a status
  note is posted without an idempotency key, `worker.ts` 312), storage reconciliation and
  conversation registration.
- In the merge flow a turn counts until its runner is done; routes that look at `tasks.running` only
  (PR, DELETE after a Stop) may come a little earlier, which `"pr"` in `Overlap` covers. `merged_at`
  says that something landed once and may go stale (`diff/route.ts` 36-56 writes what it read before
  an await): no property is about it, only about what hangs on it (`KeepsWork`).
- In services: a process group that outlives its leader (the handlers hear the leader's exit only),
  reuse of a pid, a service whose feature is off or whose folder is missing. The waits of 2 s (reaper)
  and 6 s (restart) are waits for a death, since SIGKILL comes before they are over.
- In `Asks`, a poll whose response is lost after the outcome was taken.
- In `AgentRpc`: failing writes to the child's stdin (`prime/rpc.ts` 161), a `ps` that fails, a
  process that survives SIGKILL for longer than the bounded wait after it.
- In `turns_live`: a failed launch of a follow-up (`DrainFail`); that it frees its slot is proved
  (`NoOrphanedSlot`), that the queue then drains is not claimed.
- Context refresh, recap, dependencies: plan item 1.
- Files, accounts and access control, server bootstrap, terminal, public router, user interface,
  analytics: I/O or rendering without a protocol of their own.

The map covers the server's and the clients' state machines. Most of the rest of the implementation
is React rendering, route parsing, SDK event translation, SQL listings and git output parsing, which
no property here could speak about.
