------------------------------ MODULE Services ------------------------------
(*****************************************************************************)
(* One supervised dev server of one project, lib/services.ts: its registry   *)
(* entry (memory), its row in the services table (disk) and the process      *)
(* groups spawned for it, which outlive the server when it is killed.        *)
(*                                                                           *)
(*   lib/services.ts                            everything below             *)
(*   app/api/projects/[id]/services/route.ts    start, stop, restart, share  *)
(*   app/api/projects/[id]/route.ts             DELETE retires the service   *)
(*   app/api/instance/services-restore          the boot's ping              *)
(*                                                                           *)
(* "exited" and the "errored" of a process that died by itself read          *)
(* "stopped" here; "errored" is a start that failed.  One-shot commands      *)
(* (setup, test) are the dev server without the port probe.  Slugs, share    *)
(* tokens, logs and URLs are left out.  Assumed: the feature is on, the      *)
(* project has a folder (startService and the boot give up without), a group *)
(* dies with its leader, whose exit is all the handlers hear, and SIGKILL    *)
(* kills, so that the waits that it bounds (4 s of 6) are waits for a death. *)
(*****************************************************************************)
EXTENDS Naturals, FiniteSets

CONSTANTS
  Req,     \* start and restart requests in progress at once
  Boot,    \* the restore's own start
  Pid,     \* process groups; no pid is reused
  None     \* no process

Starter == Req \cup {Boot}
Cmd == 0 .. 2      \* the project's dev_command: 1, cleared (0) or edited (2) once

ASSUME NoneAssumption == None \notin Pid
ASSUME BootAssumption == Boot \notin Req

VARIABLES
  project,   \* [here, cmd]: the project's row
  row,       \* the services row: [here, running (desired_state), managed, pid, cmd]
  entry,     \* the registry entry: [here, status, managed, proc, cmd]
  proc,      \* the process groups: [life, told (to stop), doom (a SIGKILL is
             \* certain), orphan (its server died), cmd]
  op,        \* start requests: [at, on (the process waited for), retired, cmd]
  restore,   \* restoreServices: [at, snap (the row it read)]
  rushed,    \* history: a request met an unsettled service, see Settled
  wish       \* history: what the user asked for last; "unheard" is a stop that the
             \* server accepted and recorded nowhere

vars == <<project, row, entry, proc, op, restore, rushed, wish>>

NoRow == [here |-> FALSE, running |-> FALSE, managed |-> FALSE, pid |-> None, cmd |-> 1]
NoEntry == [here |-> FALSE, status |-> "stopped", managed |-> FALSE, proc |-> None, cmd |-> 1]
Unborn == [life |-> "unborn", told |-> FALSE, doom |-> "none", orphan |-> FALSE, cmd |-> 1]
IdleOp == [at |-> "idle", on |-> None, retired |-> FALSE, cmd |-> 1]

Row == [here : BOOLEAN, running : BOOLEAN, managed : BOOLEAN,
        pid : Pid \cup {None}, cmd : Cmd]

Records ==
  /\ project \in [here : BOOLEAN, cmd : Cmd]
  /\ row \in Row
  /\ entry \in [here : BOOLEAN, status : {"stopped", "starting", "running", "errored"},
                managed : BOOLEAN, proc : Pid \cup {None}, cmd : Cmd]
  /\ proc \in [Pid -> [life : {"unborn", "alive", "dead"}, told : BOOLEAN,
                       doom : {"none", "timer", "killed"}, orphan : BOOLEAN, cmd : Cmd]]
  /\ op \in [Starter -> [at : {"idle", "probing", "waiting", "woken"},
                         on : Pid \cup {None}, retired : BOOLEAN, cmd : Cmd]]
  /\ restore \in [at : {"unpinged", "reaping", "reaped", "done"}, snap : Row]
  /\ rushed \in BOOLEAN

(* The rows of a project go with it. *)
TypeOK ==
  /\ Records
  /\ wish \in {"stopped", "running", "unheard"}
  /\ row.here => project.here

Init ==
  /\ project = [here |-> TRUE, cmd |-> 1]
  /\ row = NoRow
  /\ entry = NoEntry
  /\ proc = [p \in Pid |-> Unborn]
  /\ op = [r \in Starter |-> IdleOp]
  /\ restore = [at |-> "done", snap |-> NoRow]
  /\ rushed = FALSE
  /\ wish = "stopped"

----------------------------------------------------------------------------
Alive(p) == proc[p].life = "alive"
Untold(p) == Alive(p) /\ ~proc[p].told

(* No start is in progress and the boot's restore is over. *)
Settled == restore.at = "done" /\ \A r \in Starter : op[r].at = "idle"

(* Persisting a new command over the one a live process was spawned with.  *)
Drifts(cmd) == \E p \in Pid : Untold(p) /\ proc[p].cmd # cmd
Rush(drifts) == rushed' = (rushed \/ ~Settled \/ drifts)

(* persist: insert or update; an update leaves the pid alone. *)
Persisted(e, running) ==
  [here |-> TRUE, running |-> running, managed |-> e.managed, pid |-> row.pid, cmd |-> e.cmd]

(* newManaged, with the project's command *)
Fresh(managed) == [NoEntry EXCEPT !.here = TRUE, !.managed = managed, !.cmd = project.cmd]

SetDesired(running) == [row EXCEPT !.running = row.here /\ running]
SetPid(p) == IF row.here THEN [row EXCEPT !.pid = p] ELSE row

(* killProcGroup: SIGTERM now, SIGKILL by a timer of this server. *)
KillGroup_NoTimer(q) ==                     \* mutant: no escalation
  [p \in Pid |-> IF p = q /\ Alive(p) THEN [proc[p] EXCEPT !.told = TRUE] ELSE proc[p]]
KillGroup(q) ==
  [p \in Pid |-> IF p = q /\ Alive(p) THEN [proc[p] EXCEPT !.told = TRUE, !.doom = "timer"]
                 ELSE proc[p]]

Dead(ps, q) == [ps EXCEPT ![q] = [Unborn EXCEPT !.life = "dead"]]

----------------------------------------------------------------------------
(* startService *)

AlreadyUp == entry.here /\ entry.status \in {"running", "starting"}

Starting(cmd) ==
  [(IF entry.here THEN entry ELSE Fresh(TRUE)) EXCEPT
      !.managed = TRUE, !.cmd = cmd, !.status = "starting"]

(* Up to the await of the port probe, with the command of the project as the *)
(* request read it.  For a deleted project persist throws and leaves the     *)
(* entry "starting".                                                         *)
StartBody(r, cmd) ==
  \/ AlreadyUp /\ op' = [op EXCEPT ![r] = IdleOp] /\ UNCHANGED <<row, entry>>
  \/ /\ ~AlreadyUp /\ project.here
     /\ entry' = Starting(cmd)
     /\ row' = Persisted(Starting(cmd), TRUE)
     /\ op' = [op EXCEPT ![r] = [IdleOp EXCEPT !.at = "probing", !.cmd = cmd]]
  \/ /\ ~AlreadyUp /\ ~project.here
     /\ entry' = Starting(cmd)
     /\ op' = [op EXCEPT ![r] = IdleOp]
     /\ UNCHANGED row

Start(r) ==
  /\ op[r].at = "idle" /\ project.here /\ project.cmd # 0 /\ ~AlreadyUp
  /\ StartBody(r, project.cmd)
  /\ Rush(Drifts(project.cmd))
  /\ wish' = "running"
  /\ UNCHANGED <<project, proc, restore>>

(* The probe found the port free, which a live process that has not bound it *)
(* yet does not prevent: spawn.  Whatever happened to the entry meanwhile is *)
(* not looked at; a retired entry is no longer registered.                   *)
Spawn(r) ==
  /\ op[r].at = "probing"
  /\ \E p \in Pid :
       /\ proc[p].life = "unborn"
       /\ proc' = [proc EXCEPT ![p] = [Unborn EXCEPT !.life = "alive", !.cmd = op[r].cmd]]
       /\ entry' = IF op[r].retired THEN entry
                   ELSE [entry EXCEPT !.proc = p, !.status = "running"]
       /\ row' = SetPid(p)
  /\ op' = [op EXCEPT ![r] = IdleOp]
  /\ UNCHANGED <<project, restore, rushed, wish>>

(* The port stayed taken for 2 s, by us or by anybody, or spawn failed. *)
StartFails(r) ==
  /\ op[r].at = "probing"
  /\ entry' = IF op[r].retired THEN entry ELSE [entry EXCEPT !.status = "errored"]
  /\ op' = [op EXCEPT ![r] = IdleOp]
  /\ UNCHANGED <<project, row, proc, restore, rushed, wish>>

----------------------------------------------------------------------------
(* The process groups *)

AfterExit(e) == [e EXCEPT !.proc = None, !.status = "stopped"]

(* The handlers belong to the server that spawned it and to its entry: they  *)
(* clear the entry's process and the row's pid whosever those are by now.    *)
(* Those of a deleted project have neither left.  Restarts that wait for this *)
(* exit go on in the same burst.                                             *)
Exits(p) ==
  LET handled == ~proc[p].orphan /\ project.here IN
    /\ proc' = Dead(proc, p)
    /\ entry' = IF handled /\ entry.here THEN AfterExit(entry) ELSE entry
    /\ row' = IF handled THEN SetPid(None) ELSE row
    /\ op' = [r \in Starter |->
                IF op[r].at = "waiting" /\ op[r].on = p
                  THEN [op[r] EXCEPT !.at = "woken", !.on = None] ELSE op[r]]
    /\ UNCHANGED <<project, restore, rushed, wish>>

Exit(p) == Alive(p) /\ Exits(p)
Killed(p) == Alive(p) /\ proc[p].doom # "none" /\ Exits(p)

----------------------------------------------------------------------------
(* Stop, restart, retire *)

Stopped(e) == IF e.proc = None THEN [e EXCEPT !.status = "stopped"] ELSE e

Stop_KeepsDesired ==                        \* mutant: the stop is not recorded
  /\ entry.here
  /\ entry' = Stopped(entry)
  /\ proc' = KillGroup(entry.proc)
  /\ Rush(FALSE) /\ wish' = "stopped"
  /\ UNCHANGED <<project, row, op, restore>>
Stop ==
  /\ entry.here
  /\ row' = SetDesired(FALSE)
  /\ entry' = Stopped(entry)
  /\ proc' = KillGroup(entry.proc)
  /\ Rush(FALSE) /\ wish' = "stopped"
  /\ UNCHANGED <<project, op, restore>>

(* With no entry, as while the boot reaps, a stop returns before it records. *)
StopUnheard ==
  /\ ~entry.here
  /\ wish' = IF wish = "running" THEN "unheard" ELSE wish
  /\ UNCHANGED <<project, row, entry, proc, op, restore, rushed>>

(* stopService, then the wait for the old process.  (With the command cleared *)
(* a restart is a Stop, and then an error.)                                   *)
Restart(r) ==
  /\ op[r].at = "idle" /\ project.here /\ project.cmd # 0
  /\ entry.here /\ entry.proc # None
  /\ row' = SetDesired(FALSE)
  /\ proc' = KillGroup(entry.proc)
  /\ op' = [op EXCEPT ![r] = [IdleOp EXCEPT !.at = "waiting", !.on = entry.proc,
                                           !.cmd = project.cmd]]
  /\ Rush(FALSE) /\ wish' = "running"
  /\ UNCHANGED <<project, entry, restore>>

(* With no process to wait for, the status is reset and the start follows. *)
RestartIdle(r) ==
  /\ op[r].at = "idle" /\ project.here /\ project.cmd # 0
  /\ entry.here /\ entry.proc = None /\ AlreadyUp
  /\ entry' = Starting(project.cmd)
  /\ row' = Persisted(Starting(project.cmd), TRUE)
  /\ op' = [op EXCEPT ![r] = [IdleOp EXCEPT !.at = "probing", !.cmd = project.cmd]]
  /\ Rush(FALSE) /\ wish' = "running"
  /\ UNCHANGED <<project, proc, restore>>

RestartGoes(r) ==
  /\ op[r].at = "woken"
  /\ StartBody(r, op[r].cmd)
  /\ UNCHANGED <<project, proc, restore, rushed, wish>>

(* DELETE of the project: removeProjectServices and the row's cascade. *)
Retire_KeepsRow ==                          \* mutant: no cascade
  /\ project.here
  /\ project' = [project EXCEPT !.here = FALSE]
  /\ proc' = KillGroup(entry.proc)
  /\ entry' = NoEntry
  /\ op' = [r \in Starter |-> [op[r] EXCEPT !.retired = op[r].at = "probing"]]
  /\ Rush(FALSE) /\ wish' = "stopped"
  /\ UNCHANGED <<row, restore>>
Retire ==
  /\ project.here
  /\ project' = [project EXCEPT !.here = FALSE]
  /\ proc' = KillGroup(entry.proc)
  /\ entry' = NoEntry /\ row' = NoRow
  /\ op' = [r \in Starter |-> [op[r] EXCEPT !.retired = op[r].at = "probing"]]
  /\ Rush(FALSE) /\ wish' = "stopped"
  /\ UNCHANGED restore

----------------------------------------------------------------------------
(* exposeService (the agents' tool), sharing, reads, the project's settings *)

Expose ==
  /\ project.here
  /\ LET e == IF entry.here THEN entry ELSE Fresh(FALSE)
         up == IF e.managed THEN e ELSE [e EXCEPT !.status = "running"]
     IN entry' = up /\ row' = Persisted(up, FALSE) /\ Rush(Drifts(up.cmd))
  /\ UNCHANGED <<project, proc, op, restore, wish>>

(* The entry that a request without one makes, of the command or of the row. *)
Found == IF project.cmd # 0 THEN Fresh(TRUE)
         ELSE [Fresh(row.managed) EXCEPT !.cmd = row.cmd]

(* setServiceVisibility; rotateShareToken persists an entry the same way. *)
Share ==
  /\ project.here
  /\ entry.here \/ project.cmd # 0 \/ row.here
  /\ LET e == IF entry.here THEN entry ELSE Found IN
       entry' = e /\ row' = Persisted(e, row.running) /\ Rush(Drifts(e.cmd))
  /\ UNCHANGED <<project, proc, op, restore, wish>>

(* listServices refreshes the command it shows, and keeps it. *)
List ==
  /\ project.here /\ entry.here /\ project.cmd # 0
  /\ entry' = [entry EXCEPT !.cmd = project.cmd]
  /\ UNCHANGED <<project, row, proc, op, restore, rushed, wish>>

EditCommand ==
  /\ project.here /\ project.cmd = 1
  /\ \E c \in {0, 2} : project' = [project EXCEPT !.cmd = c]
  /\ UNCHANGED <<row, entry, proc, op, restore, rushed, wish>>

----------------------------------------------------------------------------
(* The end of the server, and its boot *)

Down(ps) ==
  /\ proc' = [p \in Pid |->
                [ps[p] EXCEPT !.orphan = ps[p].life = "alive",
                              !.doom = IF @ = "timer" THEN "none" ELSE @]]
  /\ entry' = NoEntry
  /\ op' = [r \in Starter |-> IdleOp]
  /\ restore' = [at |-> "unpinged", snap |-> NoRow]
  /\ UNCHANGED <<project, row, rushed, wish>>

Crash == Down(proc)

(* The exit hook kills what the registry knows of. *)
CleanExit ==
  /\ entry.managed /\ entry.proc # None
  /\ Down(Dead(proc, entry.proc))

(* Some process of the recorded group still carries the recorded command.  An *)
(* empty one matches nothing; no process has it.                              *)
LooksLikeService_NoPs(r) == FALSE                       \* mutant: nothing is recognised
LooksLikeService(r) == r.pid # None /\ Alive(r.pid) /\ proc[r.pid].cmd = r.cmd

(* restoreServices: the rows are read once, then the orphans are reaped. *)
RestoreBegin ==
  LET reaps == row.managed /\ LooksLikeService(row) IN
    /\ restore.at = "unpinged"
    /\ restore' = [at |-> IF reaps THEN "reaping" ELSE "reaped", snap |-> row]
    /\ proc' = IF reaps THEN [proc EXCEPT ![row.pid].told = TRUE, ![row.pid].doom = "killed"]
               ELSE proc
    /\ row' = IF row.managed /\ ~reaps THEN SetPid(None) ELSE row
    /\ UNCHANGED <<project, entry, op, rushed, wish>>

(* The group is gone, or 2 s are over: the pid recorded by now is cleared. *)
ReapEnds ==
  /\ restore.at = "reaping"
  /\ row' = SetPid(None)
  /\ restore' = [restore EXCEPT !.at = "reaped"]
  /\ UNCHANGED <<project, entry, proc, op, rushed, wish>>

Wanted_UnlessReaped(r) == r.managed /\ r.running /\ r.pid = None  \* mutant
Wanted(r) == r.managed /\ r.running

Restarts == Wanted(restore.snap) /\ project.cmd # 0

(* The row's project is gone, or a request made an entry before the restore did. *)
Skipped == ~restore.snap.here \/ ~project.here \/ entry.here

RestoreStart ==
  /\ restore.at = "reaped" /\ ~Skipped /\ Restarts
  /\ StartBody(Boot, project.cmd)
  /\ restore' = [at |-> "done", snap |-> NoRow]
  /\ UNCHANGED <<project, proc, rushed, wish>>

RestoreSkip ==
  /\ restore.at = "reaped" /\ Skipped
  /\ restore' = [at |-> "done", snap |-> NoRow]
  /\ UNCHANGED <<project, row, entry, proc, op, rushed, wish>>

RestoreSeed ==
  /\ restore.at = "reaped" /\ ~Skipped /\ ~Restarts
  /\ entry' = [NoEntry EXCEPT !.here = TRUE, !.managed = restore.snap.managed,
                              !.cmd = restore.snap.cmd]
  /\ row' = IF restore.snap.managed THEN row ELSE SetDesired(FALSE)
  /\ restore' = [at |-> "done", snap |-> NoRow]
  /\ UNCHANGED <<project, proc, op, rushed, wish>>

----------------------------------------------------------------------------
Woken == \E r \in Req : op[r].at = "woken"

Progress(r) == Spawn(r) \/ StartFails(r)
Restoring == RestoreBegin \/ ReapEnds \/ RestoreSkip \/ RestoreStart \/ RestoreSeed

Next ==
  \/ \E r \in Req : RestartGoes(r)
  \/ /\ ~Woken
     /\ \/ \E r \in Req : Start(r) \/ Restart(r) \/ RestartIdle(r)
        \/ \E r \in Starter : Progress(r)
        \/ \E p \in Pid : Exit(p) \/ Killed(p)
        \/ Stop \/ StopUnheard \/ Retire \/ Expose \/ Share \/ List \/ EditCommand
        \/ Restoring
  \/ Crash \/ CleanExit

(* Probes have a deadline, SIGKILL a timer, promises that are settled resume, and *)
(* the boot's ping comes through.                                                 *)
Fairness ==
  /\ \A r \in Starter : WF_vars(Progress(r)) /\ WF_vars(RestartGoes(r))
  /\ \A p \in Pid : WF_vars(Killed(p))
  /\ WF_vars(Restoring)

Spec == Init /\ [][Next]_vars
FairSpec == Spec /\ Fairness

----------------------------------------------------------------------------
(* Properties *)

(* Unless a request met a service that was starting, stopping or being restored, or *)
(* the recorded command was changed under a live process: every process that was    *)
(* not told to stop is recorded for the next boot, and its server supervises it, so *)
(* that there is never more than one.  And always, whoever overtook whom: the       *)
(* process an entry shows is one of this server's and lives, and a managed service  *)
(* shown as running has one.                                                        *)
Supervised ==
  /\ rushed \/ \A p \in Pid :
       Untold(p) => row.pid = p /\ (proc[p].orphan \/ entry.proc = p)
  /\ entry.proc # None => Alive(entry.proc) /\ ~proc[entry.proc].orphan
  /\ entry.status = "running" /\ entry.managed => entry.proc # None

(* A boot starts only what is wanted by the time its turn comes: the row still says *)
(* so, though the boot read it before the reaper's awaits, and the user has not     *)
(* asked for a stop since, through whatever crashes and boots.  Stops are those the *)
(* server recorded.  One that meets no entry is not (StopUnheard), as every stop    *)
(* while the boot reaps, and the boot then starts what the user stopped: the rest   *)
(* of "record it so boot doesn't resurrect it" (services.ts:528) is BootObeysStop,  *)
(* which fails.                                                                     *)
BootStartsWhatIsWanted ==
  [][RestoreStart => row.running /\ (wish # "stopped" \/ rushed)]_vars

(* No boot starts what the user asked to stop, though the server recorded nothing:  *)
(* what the comment at services.ts:528 says.  The code does not keep it and no run   *)
(* checks it: README, Known to fail.                                                *)
BootObeysStop == [][RestoreStart => wish # "unheard"]_vars

(* Once the server stays up, a service that was wanted when it went down is started *)
(* again, or shows why not, unless a request came before the restore or the command *)
(* was cleared.                                                                     *)
BootRestores ==
  <>[](restore.at # "unpinged") =>
    (restore.at # "done" /\ row.managed /\ row.running
       ~> \/ entry.status \in {"running", "errored"}
          \/ ~project.here \/ project.cmd = 0 \/ rushed)

(* A restart gets past its predecessor: it ends up running or in an error. *)
RestartComesBack ==
  \A r \in Req :
    op[r].at = "waiting"
      ~> \/ op[r].at = "idle" /\ entry.status \in {"running", "errored"}
         \/ ~project.here \/ rushed \/ restore.at = "unpinged"
=============================================================================
