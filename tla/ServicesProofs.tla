--------------------------- MODULE ServicesProofs ---------------------------
(*****************************************************************************)
(* Services, for any number of requests at once and of processes: a process  *)
(* that was not told to stop is recorded and supervised.  Two invariants     *)
(* carry it.  EntryIsReal holds whatever overtakes what; Calm describes a    *)
(* service whose requests waited for each other, and says which process is   *)
(* left while a start is under way: none.                                    *)
(*****************************************************************************)
EXTENDS Services, TLAPS

Probing(r) == op[r].at = "probing"
NoneUntold == \A p \in Pid : ~Untold(p)

(* The process of the entry is a live one of this server and project, a managed  *)
(* service shown as running has one, and a start that was not retired will find  *)
(* the entry it made.                                                            *)
EntryIsReal ==
  /\ entry.proc # None => /\ entry.here /\ project.here
                          /\ Alive(entry.proc) /\ ~proc[entry.proc].orphan
  /\ entry.status = "running" /\ entry.managed => entry.proc # None
  /\ \A r \in Starter : Probing(r) /\ ~op[r].retired =>
       entry.here /\ entry.managed /\ project.here

(* Every process that was not told to stop is recorded, with its command; a live *)
(* one of this server is the entry's.                                            *)
Recorded ==
  /\ \A p \in Pid : Untold(p) =>
       /\ row.pid = p /\ row.managed /\ row.cmd = proc[p].cmd
       /\ IF proc[p].orphan THEN restore.at = "unpinged" ELSE entry.proc = p
  /\ \A p \in Pid : Alive(p) /\ ~proc[p].orphan /\ project.here => entry.proc = p
  /\ entry.proc # None => entry.status = "running" /\ entry.managed

(* The restore and the requests come one at a time. *)
InTurn ==
  /\ restore.at # "done" => entry.proc = None /\ \A r \in Starter : op[r].at = "idle"
  /\ \A r, s \in Starter : op[r].at # "idle" /\ op[s].at # "idle" => r = s

(* A start under way meets no process that was not told to stop. *)
StartIsAlone ==
  \A r \in Starter :
    /\ op[r].at # "idle" => NoneUntold
    /\ op[r].at = "waiting" => entry.proc = op[r].on
    /\ op[r].at \in {"probing", "woken"} => entry.proc = None
    /\ Probing(r) => ~op[r].retired /\ row.here /\ row.managed /\ row.cmd = op[r].cmd

Calm == Recorded /\ InTurn /\ StartIsAlone

IInv == Records /\ EntryIsReal /\ (rushed \/ Calm)

USE NoneAssumption, BootAssumption

----------------------------------------------------------------------------
(* The records *)

Entries == [here : BOOLEAN, status : {"stopped", "starting", "running", "errored"},
            managed : BOOLEAN, proc : Pid \cup {None}, cmd : Cmd]
Procs == [life : {"unborn", "alive", "dead"}, told : BOOLEAN,
          doom : {"none", "timer", "killed"}, orphan : BOOLEAN, cmd : Cmd]
Ops == [at : {"idle", "probing", "waiting", "woken"},
        on : Pid \cup {None}, retired : BOOLEAN, cmd : Cmd]

LEMMA Types ==
  Records <=> /\ project \in [here : BOOLEAN, cmd : Cmd]
             /\ row \in Row /\ entry \in Entries
             /\ proc \in [Pid -> Procs] /\ op \in [Starter -> Ops]
             /\ restore \in [at : {"unpinged", "reaping", "reaped", "done"}, snap : Row]
             /\ rushed \in BOOLEAN
  BY DEF Records, Entries, Procs, Ops

LEMMA Blank ==
  /\ NoRow \in Row /\ NoRow.pid = None
  /\ NoEntry \in Entries /\ ~NoEntry.here /\ NoEntry.proc = None
  /\ NoEntry.status = "stopped" /\ ~NoEntry.managed
  /\ Unborn \in Procs /\ Unborn.life = "unborn" /\ ~Unborn.told /\ ~Unborn.orphan
  /\ IdleOp \in Ops /\ IdleOp.at = "idle" /\ ~IdleOp.retired /\ IdleOp.on = None
  BY DEF NoRow, Row, NoEntry, Entries, Unborn, Procs, IdleOp, Ops, Cmd

LEMMA PersistedIs ==
  ASSUME Records, NEW e \in Entries, NEW running \in BOOLEAN, NEW x, x = Persisted(e, running)
  PROVE  /\ x \in Row /\ x.here /\ x.running = running
         /\ x.managed = e.managed /\ x.pid = row.pid /\ x.cmd = e.cmd
  BY Types DEF Persisted, Row, Entries

LEMMA SetDesiredIs ==
  ASSUME Records, NEW running \in BOOLEAN, NEW x, x = SetDesired(running)
  PROVE  /\ x \in Row /\ x.here = row.here
         /\ x.managed = row.managed /\ x.pid = row.pid /\ x.cmd = row.cmd
  BY Types DEF SetDesired, Row

LEMMA SetPidIs ==
  ASSUME Records, NEW p \in Pid \cup {None}, NEW x, x = SetPid(p)
  PROVE  /\ x \in Row /\ x.here = row.here
         /\ x.managed = row.managed /\ x.cmd = row.cmd
         /\ x.pid = IF row.here THEN p ELSE row.pid
  BY Types DEF SetPid, Row

LEMMA FreshIs ==
  ASSUME Records, NEW managed \in BOOLEAN, NEW x, x = Fresh(managed)
  PROVE  /\ x \in Entries /\ x.here /\ x.proc = None /\ x.status = "stopped"
         /\ x.managed = managed /\ x.cmd = project.cmd
  BY Types, Blank DEF Fresh, Entries

LEMMA FoundIs ==
  ASSUME Records, NEW x, x = Found
  PROVE  x \in Entries /\ x.here /\ x.proc = None /\ x.status = "stopped"
  <1>1. CASE project.cmd # 0
    BY <1>1, FreshIs DEF Found
  <1>2. CASE project.cmd = 0
    <2> DEFINE y == Fresh(row.managed)
    <2>1. row.managed \in BOOLEAN /\ row.cmd \in Cmd
      BY Types DEF Row
    <2>2. y \in Entries /\ y.here /\ y.proc = None /\ y.status = "stopped"
      BY <2>1, FreshIs
    <2>3. x = [y EXCEPT !.cmd = row.cmd]
      BY <1>2 DEF Found
    <2> HIDE DEF y
    <2> QED BY <2>1, <2>2, <2>3 DEF Entries
  <1> QED BY <1>1, <1>2

LEMMA StartingIs ==
  ASSUME Records, NEW cmd \in Cmd, NEW x, x = Starting(cmd)
  PROVE  /\ x \in Entries /\ x.here /\ x.managed /\ x.status = "starting" /\ x.cmd = cmd
         /\ x.proc = IF entry.here THEN entry.proc ELSE None
  <1> DEFINE y == IF entry.here THEN entry ELSE Fresh(TRUE)
  <1>1. y \in Entries /\ y.here /\ y.proc = IF entry.here THEN entry.proc ELSE None
    BY Types, FreshIs
  <1>2. x = [y EXCEPT !.managed = TRUE, !.cmd = cmd, !.status = "starting"]
    BY DEF Starting
  <1> HIDE DEF y
  <1> QED BY <1>1, <1>2 DEF Entries

LEMMA StoppedIs ==
  ASSUME Records, NEW x, x = Stopped(entry)
  PROVE  /\ x \in Entries /\ x.here = entry.here /\ x.managed = entry.managed
         /\ x.proc = entry.proc /\ x.cmd = entry.cmd
         /\ IF entry.proc = None THEN x.status = "stopped" ELSE x.status = entry.status
  BY Types DEF Stopped, Entries

LEMMA AfterExitIs ==
  ASSUME Records, NEW x, x = AfterExit(entry)
  PROVE  /\ x \in Entries /\ x.here = entry.here /\ x.managed = entry.managed
         /\ x.proc = None /\ x.status = "stopped"
  BY Types DEF AfterExit, Entries

LEMMA KillGroupIs ==
  ASSUME Records, NEW q \in Pid \cup {None}, NEW ps, ps = KillGroup(q)
  PROVE  /\ ps \in [Pid -> Procs]
         /\ \A p \in Pid : /\ ps[p].life = proc[p].life /\ ps[p].orphan = proc[p].orphan
                           /\ ps[p].cmd = proc[p].cmd
                           /\ ps[p].told = (proc[p].told \/ (p = q /\ Alive(p)))
  BY Types DEF KillGroup, Procs, Alive

LEMMA DeadIs ==
  ASSUME Records, NEW q \in Pid, NEW ps, ps = Dead(proc, q)
  PROVE  /\ ps \in [Pid -> Procs] /\ ps[q].life = "dead"
         /\ \A p \in Pid \ {q} : ps[p] = proc[p]
  <1>1. [Unborn EXCEPT !.life = "dead"] \in Procs
    BY Types, Blank DEF Procs
  <1>2. [Unborn EXCEPT !.life = "dead"].life = "dead"
    BY Blank DEF Procs
  <1> QED BY <1>1, <1>2, Types DEF Dead

LEMMA RushIs ==
  ASSUME Records, NEW drifts \in BOOLEAN, Rush(drifts)
  PROVE  /\ rushed' \in BOOLEAN
         /\ ~rushed' => ~rushed /\ Settled /\ ~drifts
  BY Types DEF Rush

(* At rest a process that was not told to stop is the entry's. *)
LEMMA AtRest ==
  ASSUME Records, Calm, Settled
  PROVE  \A p \in Pid : Untold(p) => entry.proc = p /\ entry.managed /\ ~proc[p].orphan
  BY Types DEF Calm, Recorded, Settled

LEMMA InitHolds == Init => IInv
  <1> SUFFICES ASSUME Init PROVE IInv
    OBVIOUS
  <1>1. Records
    BY Blank DEF Init, Records, Types, Cmd, Row, NoRow, NoEntry, Unborn, IdleOp
  <1>2. EntryIsReal
    BY Blank DEF Init, EntryIsReal, Probing
  <1>3. Calm
    BY Blank DEF Init, Calm, Recorded, InTurn, StartIsAlone, NoneUntold, Untold, Alive, Probing
  <1> QED BY <1>1, <1>2, <1>3 DEF IInv

----------------------------------------------------------------------------
(* Starts *)

LEMMA StartBodyKeeps ==
  ASSUME IInv, NEW r \in Starter, NEW cmd \in Cmd, StartBody(r, cmd),
         UNCHANGED <<project, proc>>, rushed' \in BOOLEAN,
         restore' \in [at : {"unpinged", "reaping", "reaped", "done"}, snap : Row],
         \/ rushed'
         \/ /\ Calm /\ NoneUntold /\ entry.proc = None /\ restore'.at = "done"
            /\ \A s \in Starter \ {r} : op[s].at = "idle"
  PROVE  IInv'
  <1> USE DEF IInv
  <1>0. entry \in Entries /\ op \in [Starter -> Ops] /\ row \in Row
    BY Types
  <1>1. CASE AlreadyUp /\ op' = [op EXCEPT ![r] = IdleOp] /\ UNCHANGED <<row, entry>>
    <2>1. op' \in [Starter -> Ops]
      BY <1>0, <1>1, Blank
    <2>2. Records'
      BY <1>1, <2>1, Types DEF Records, Entries, Procs, Ops
    <2>3. EntryIsReal'
      BY <1>0, <1>1, Blank DEF EntryIsReal, Alive, Probing
    <2>4. rushed' \/ Calm'
      BY <1>0, <1>1, Blank
      DEF Calm, Recorded, InTurn, StartIsAlone, NoneUntold, Untold, Alive, Probing
    <2> QED BY <2>2, <2>3, <2>4
  <1>2. CASE /\ ~AlreadyUp /\ project.here
             /\ entry' = Starting(cmd) /\ row' = Persisted(Starting(cmd), TRUE)
             /\ op' = [op EXCEPT ![r] = [IdleOp EXCEPT !.at = "probing", !.cmd = cmd]]
    <2> DEFINE x == [IdleOp EXCEPT !.at = "probing", !.cmd = cmd]
    <2>1. x \in Ops /\ x.at = "probing" /\ ~x.retired /\ x.cmd = cmd
      BY Blank DEF Ops
    <2>2. /\ op' \in [Starter -> Ops] /\ op'[r] = x
          /\ \A s \in Starter \ {r} : op'[s] = op[s]
      BY <1>0, <1>2, <2>1
    <2>3. /\ entry' \in Entries /\ entry'.here /\ entry'.managed /\ entry'.status = "starting"
          /\ entry'.proc = (IF entry.here THEN entry.proc ELSE None) /\ entry'.cmd = cmd
      BY <1>2, StartingIs
    <2>4. row' \in Row /\ row'.here /\ row'.managed /\ row'.cmd = cmd
      <3>1. row' = Persisted(entry', TRUE)
        BY <1>2
      <3> QED BY <2>3, <3>1, PersistedIs
    <2> HIDE DEF x
    <2>5. Records'
      BY <2>2, <2>3, <2>4, Types DEF Records, Entries, Procs, Ops
    <2>6. EntryIsReal'
      BY <1>0, <1>2, <2>1, <2>2, <2>3 DEF EntryIsReal, Alive, Probing
    <2>7. ASSUME ~rushed' PROVE Calm'
      <3>1. NoneUntold' /\ entry'.proc = None
        BY <1>2, <2>3, <2>7 DEF NoneUntold, Untold, Alive
      <3>2. Recorded'
        BY <1>2, <2>7, <3>1 DEF Calm, Recorded, NoneUntold, Alive
      <3>3. InTurn'
        BY <2>2, <2>7 DEF InTurn
      <3>4. StartIsAlone'
        BY <2>1, <2>2, <2>4, <2>7, <3>1 DEF StartIsAlone, Probing
      <3> QED BY <3>2, <3>3, <3>4 DEF Calm
    <2> QED BY <2>5, <2>6, <2>7
  <1>3. CASE /\ ~AlreadyUp /\ ~project.here /\ entry' = Starting(cmd)
             /\ op' = [op EXCEPT ![r] = IdleOp] /\ UNCHANGED row
    <2>1. op' \in [Starter -> Ops] /\ op'[r] = IdleOp
          /\ \A s \in Starter \ {r} : op'[s] = op[s]
      BY <1>0, <1>3, Blank
    <2>2. /\ entry' \in Entries /\ entry'.here /\ entry'.managed /\ entry'.status = "starting"
          /\ entry'.proc = IF entry.here THEN entry.proc ELSE None
      BY <1>3, StartingIs
    <2>3. Records'
      BY <1>3, <2>1, <2>2, Types DEF Records, Entries, Procs, Ops
    <2>4. EntryIsReal'
      BY <1>0, <1>3, <2>1, <2>2, Blank DEF EntryIsReal, Alive, Probing
    <2>5. rushed' \/ Calm'
      BY <1>0, <1>3, <2>1, <2>2, Blank
      DEF Calm, Recorded, InTurn, StartIsAlone, NoneUntold, Untold, Alive, Probing
    <2> QED BY <2>3, <2>4, <2>5
  <1> QED BY <1>1, <1>2, <1>3 DEF StartBody

LEMMA StartKeeps ==
  ASSUME IInv, NEW r \in Req, Start(r)
  PROVE  IInv'
  <1>1. rushed' \in BOOLEAN /\ (~rushed' => ~rushed /\ Settled)
    BY RushIs DEF IInv, Start, Drifts
  <1>2. ~rushed' => NoneUntold /\ entry.proc = None
    BY <1>1, AtRest, Types DEF IInv, Start, AlreadyUp, Calm, Recorded, NoneUntold, EntryIsReal
  <1>3. ~rushed' => \A s \in Starter : op[s].at = "idle"
    BY <1>1 DEF Settled
  <1>4. r \in Starter /\ project.cmd \in Cmd
    BY Types DEF Starter, IInv
  <1> QED BY <1>1, <1>2, <1>3, <1>4, StartBodyKeeps, Types DEF IInv, Start, Settled

LEMMA RestartGoesKeeps ==
  ASSUME IInv, NEW r \in Req, RestartGoes(r)
  PROVE  IInv'
  <1>1. r \in Starter /\ op[r].cmd \in Cmd
    BY Types DEF Starter, IInv, Ops
  <1>2. rushed' \in BOOLEAN /\ restore' = restore /\ op[r].at = "woken"
    BY Types DEF RestartGoes, IInv
  <1>3. ~rushed' => /\ Calm /\ NoneUntold /\ entry.proc = None /\ restore.at = "done"
                    /\ \A s \in Starter \ {r} : op[s].at = "idle"
    BY <1>1, <1>2, Types DEF IInv, RestartGoes, Calm, InTurn, StartIsAlone
  <1> QED BY <1>1, <1>2, <1>3, StartBodyKeeps, Types DEF IInv, RestartGoes

LEMMA RestoreStartKeeps ==
  ASSUME IInv, RestoreStart
  PROVE  IInv'
  <1>1. Boot \in Starter /\ project.cmd \in Cmd
    BY Types DEF Starter, IInv
  <1>2. /\ rushed' \in BOOLEAN /\ restore.at = "reaped"
        /\ restore' = [at |-> "done", snap |-> NoRow]
    BY Types DEF RestoreStart, IInv
  <1>3. ~rushed' => /\ Calm /\ entry.proc = None /\ restore'.at = "done"
                    /\ \A s \in Starter \ {Boot} : op[s].at = "idle"
    BY <1>2, Types DEF IInv, RestoreStart, Calm, InTurn
  <1>4. ~rushed' => NoneUntold
    BY <1>2, <1>3, Types DEF IInv, Calm, Recorded, NoneUntold
  <1>5. restore' \in [at : {"unpinged", "reaping", "reaped", "done"}, snap : Row]
    BY <1>2, Blank
  <1> QED BY <1>1, <1>2, <1>3, <1>4, <1>5, StartBodyKeeps DEF RestoreStart

LEMMA RestartIdleKeeps ==
  ASSUME IInv, NEW r \in Req, RestartIdle(r)
  PROVE  IInv'
  <1>1. rushed' \in BOOLEAN /\ (~rushed' => ~rushed /\ Settled)
    BY RushIs DEF IInv, RestartIdle
  <1>2. ~rushed' => NoneUntold
    BY <1>1, AtRest, Types DEF IInv, RestartIdle, NoneUntold
  <1> DEFINE x == [IdleOp EXCEPT !.at = "probing", !.cmd = project.cmd]
  <1>3. r \in Starter /\ project.cmd \in Cmd /\ entry.proc = None /\ project.here
    BY Types DEF Starter, IInv, RestartIdle
  <1>4. x \in Ops /\ x.at = "probing" /\ ~x.retired /\ x.cmd = project.cmd
    BY <1>3, Blank DEF Ops
  <1>5. /\ op' \in [Starter -> Ops] /\ op'[r] = x
        /\ \A s \in Starter \ {r} : op'[s] = op[s]
    BY <1>3, <1>4, Types DEF RestartIdle, IInv
  <1>6. /\ entry' \in Entries /\ entry'.here /\ entry'.managed /\ entry'.status = "starting"
        /\ entry'.proc = None
        /\ entry'.cmd = project.cmd
    BY <1>3, StartingIs DEF RestartIdle, IInv
  <1>7. row' \in Row /\ row'.here /\ row'.managed /\ row'.cmd = project.cmd
    BY <1>6, PersistedIs DEF RestartIdle, IInv
  <1> HIDE DEF x
  <1>8. UNCHANGED <<project, proc, restore>>
    BY DEF RestartIdle
  <1>9. Records'
    BY <1>1, <1>5, <1>6, <1>7, <1>8, Types DEF IInv, Records, Entries, Procs, Ops
  <1>10. EntryIsReal'
    BY <1>3, <1>4, <1>5, <1>6, <1>8 DEF IInv, EntryIsReal, Alive, Probing
  <1>11. rushed' \/ Calm'
    BY <1>1, <1>2, <1>3, <1>4, <1>5, <1>6, <1>7, <1>8
    DEF IInv, Settled, Calm, Recorded, InTurn, StartIsAlone, NoneUntold, Untold, Alive, Probing
  <1> QED BY <1>9, <1>10, <1>11 DEF IInv

LEMMA RestartKeeps ==
  ASSUME IInv, NEW r \in Req, Restart(r)
  PROVE  IInv'
  <1>1. rushed' \in BOOLEAN /\ (~rushed' => ~rushed /\ Settled)
    BY RushIs DEF IInv, Restart
  <1> DEFINE x == [IdleOp EXCEPT !.at = "waiting", !.on = entry.proc, !.cmd = project.cmd]
  <1>2. r \in Starter /\ project.cmd \in Cmd /\ entry.proc \in Pid
    BY Types DEF Starter, IInv, Restart, Entries
  <1>3. x \in Ops /\ x.at = "waiting" /\ x.on = entry.proc
    BY <1>2, Blank DEF Ops
  <1>4. /\ op' \in [Starter -> Ops] /\ op'[r] = x
        /\ \A s \in Starter \ {r} : op'[s] = op[s]
    BY <1>2, <1>3, Types DEF Restart, IInv
  <1> HIDE DEF x
  <1>5. /\ row' \in Row /\ row'.here = row.here
        /\ row'.managed = row.managed /\ row'.pid = row.pid /\ row'.cmd = row.cmd
    BY SetDesiredIs DEF Restart, IInv
  <1>6. /\ proc' \in [Pid -> Procs]
        /\ \A p \in Pid : /\ proc'[p].life = proc[p].life /\ proc'[p].orphan = proc[p].orphan
                          /\ proc'[p].cmd = proc[p].cmd
                          /\ proc'[p].told = (proc[p].told \/ (p = entry.proc /\ Alive(p)))
    BY <1>2, KillGroupIs DEF Restart, IInv
  <1>7. UNCHANGED <<project, entry, restore>>
    BY DEF Restart
  <1>8. ~rushed' => NoneUntold'
    BY <1>1, <1>6, AtRest DEF IInv, NoneUntold, Untold, Alive
  <1>9. Records'
    BY <1>1, <1>4, <1>5, <1>6, <1>7, Types DEF IInv, Records, Entries, Procs, Ops
  <1>10. EntryIsReal'
    BY <1>2, <1>3, <1>4, <1>6, <1>7 DEF IInv, EntryIsReal, Alive, Probing
  <1>11. rushed' \/ Calm'
    BY <1>1, <1>2, <1>3, <1>4, <1>5, <1>6, <1>7, <1>8
    DEF IInv, Settled, Calm, Recorded, InTurn, StartIsAlone, NoneUntold, Untold, Alive, Probing
  <1> QED BY <1>9, <1>10, <1>11 DEF IInv

----------------------------------------------------------------------------
(* Spawns and exits *)

LEMMA SpawnKeeps ==
  ASSUME IInv, NEW r \in Starter, Spawn(r)
  PROVE  IInv'
  <1> DEFINE x == [Unborn EXCEPT !.life = "alive", !.cmd = op[r].cmd]
  <1>1. PICK p \in Pid :
          /\ proc[p].life = "unborn"
          /\ proc' = [proc EXCEPT ![p] = x]
          /\ entry' = IF op[r].retired THEN entry
                      ELSE [entry EXCEPT !.proc = p, !.status = "running"]
          /\ row' = SetPid(p)
    BY DEF Spawn
  <1>2. x \in Procs /\ x.life = "alive" /\ ~x.told /\ ~x.orphan /\ x.cmd = op[r].cmd
    BY Types, Blank DEF Procs, Ops, IInv
  <1>3. proc' \in [Pid -> Procs] /\ proc'[p] = x /\ \A q \in Pid \ {p} : proc'[q] = proc[q]
    BY <1>1, <1>2, Types DEF IInv
  <1> HIDE DEF x
  <1>4. /\ entry' \in Entries /\ entry'.here = entry.here /\ entry'.managed = entry.managed
        /\ op[r].retired => entry' = entry
        /\ ~op[r].retired => entry'.proc = p /\ entry'.status = "running"
    BY <1>1, Types DEF IInv, Entries
  <1>5. /\ row' \in Row /\ row'.managed = row.managed /\ row'.cmd = row.cmd
        /\ row'.here = row.here /\ row'.pid = IF row.here THEN p ELSE row.pid
    BY <1>1, SetPidIs DEF IInv
  <1>6. /\ op' \in [Starter -> Ops] /\ op'[r] = IdleOp
        /\ \A s \in Starter \ {r} : op'[s] = op[s]
    BY Types, Blank DEF IInv, Spawn
  <1>7. UNCHANGED <<project, restore, rushed>> /\ Probing(r)
    BY DEF Spawn, Probing
  <1>8. Records'
    BY <1>3, <1>4, <1>5, <1>6, <1>7, Types DEF IInv, Records, Entries, Procs, Ops
  <1>9. EntryIsReal'
    BY <1>1, <1>2, <1>3, <1>4, <1>6, <1>7, Blank DEF IInv, EntryIsReal, Alive, Probing
  <1>10. rushed' \/ Calm'
    <2> SUFFICES ASSUME ~rushed PROVE Calm'
      BY <1>7
    <2>1. /\ NoneUntold /\ entry.proc = None /\ ~op[r].retired /\ restore.at = "done"
          /\ row.here /\ row.managed /\ row.cmd = op[r].cmd /\ entry.here /\ project.here
          /\ \A s \in Starter \ {r} : op[s].at = "idle"
      BY <1>7 DEF IInv, Calm, InTurn, StartIsAlone, Probing, EntryIsReal
    <2>2. entry.managed
      BY <1>7, <2>1 DEF IInv, EntryIsReal
    <2> QED BY <1>1, <1>2, <1>3, <1>4, <1>5, <1>6, <1>7, <2>1, <2>2, Blank
        DEF IInv, Calm, Recorded, InTurn, StartIsAlone, NoneUntold, Untold, Alive, Probing
  <1> QED BY <1>8, <1>9, <1>10 DEF IInv

LEMMA StartFailsKeeps ==
  ASSUME IInv, NEW r \in Starter, StartFails(r)
  PROVE  IInv'
  <1>1. /\ entry' \in Entries /\ entry'.here = entry.here /\ entry'.managed = entry.managed
        /\ entry'.proc = entry.proc
        /\ op[r].retired => entry' = entry
        /\ ~op[r].retired => entry'.status = "errored"
    BY Types DEF IInv, Entries, StartFails
  <1>2. /\ op' \in [Starter -> Ops] /\ op'[r] = IdleOp
        /\ \A s \in Starter \ {r} : op'[s] = op[s]
    BY Types, Blank DEF IInv, StartFails
  <1>3. UNCHANGED <<project, row, proc, restore, rushed>> /\ Probing(r)
    BY DEF StartFails, Probing
  <1>4. Records'
    BY <1>1, <1>2, <1>3, Types DEF IInv, Records, Entries, Procs, Ops
  <1>5. EntryIsReal'
    BY <1>1, <1>2, <1>3, Blank DEF IInv, EntryIsReal, Alive, Probing
  <1>6. rushed' \/ Calm'
    BY <1>1, <1>2, <1>3, Blank
    DEF IInv, Calm, Recorded, InTurn, StartIsAlone, NoneUntold, Untold, Alive, Probing
  <1> QED BY <1>4, <1>5, <1>6 DEF IInv

(* Whoever waits for the process goes on; nobody else notices. *)
LEMMA WokenIs ==
  ASSUME Records, NEW p \in Pid, Exits(p)
  PROVE  /\ op' \in [Starter -> Ops]
         /\ \A r \in Starter :
              IF op[r].at = "waiting" /\ op[r].on = p
                THEN op'[r].at = "woken" /\ op'[r].retired = op[r].retired
                ELSE op'[r] = op[r]
  <1>1. \A r \in Starter : [op[r] EXCEPT !.at = "woken", !.on = None] \in Ops
    BY Types DEF Ops
  <1>2. \A r \in Starter : /\ [op[r] EXCEPT !.at = "woken", !.on = None].at = "woken"
                           /\ [op[r] EXCEPT !.at = "woken", !.on = None].retired = op[r].retired
    BY Types DEF Ops
  <1> QED BY <1>1, <1>2, Types DEF Exits

LEMMA ExitsKeeps ==
  ASSUME IInv, NEW p \in Pid, Alive(p), Exits(p)
  PROVE  IInv'
  <1> DEFINE handled == ~proc[p].orphan /\ project.here
  <1>1. /\ proc' = Dead(proc, p)
        /\ entry' = (IF handled /\ entry.here THEN AfterExit(entry) ELSE entry)
        /\ row' = (IF handled THEN SetPid(None) ELSE row)
        /\ UNCHANGED <<project, restore, rushed>>
    BY DEF Exits
  <1>2. /\ proc' \in [Pid -> Procs] /\ proc'[p].life = "dead"
        /\ \A q \in Pid \ {p} : proc'[q] = proc[q]
    BY <1>1, DeadIs DEF IInv
  <1>3. /\ entry' \in Entries /\ entry'.here = entry.here /\ entry'.managed = entry.managed
        /\ handled /\ entry.here => entry'.proc = None /\ entry'.status = "stopped"
        /\ ~(handled /\ entry.here) => entry' = entry
    BY <1>1, AfterExitIs, Types DEF IInv
  <1>4. /\ row' \in Row /\ row'.here = row.here /\ row'.managed = row.managed /\ row'.cmd = row.cmd
        /\ ~handled => row' = row
    BY <1>1, SetPidIs, Types DEF IInv
  <1> HIDE DEF handled
  <1>5. /\ op' \in [Starter -> Ops]
        /\ \A r \in Starter :
             IF op[r].at = "waiting" /\ op[r].on = p
               THEN op'[r].at = "woken" /\ op'[r].retired = op[r].retired
               ELSE op'[r] = op[r]
    BY WokenIs DEF IInv
  <1>6. entry.proc = p => handled /\ entry.here
    BY DEF IInv, EntryIsReal, handled
  <1>7. Records'
    BY <1>1, <1>2, <1>3, <1>4, <1>5, Types DEF IInv, Records, Entries, Procs, Ops
  <1>8. EntryIsReal'
    <2>1. entry'.proc # None =>
            entry'.here /\ project'.here /\ Alive(entry.proc)' /\ ~proc'[entry'.proc].orphan
      <3> SUFFICES ASSUME entry'.proc # None
                   PROVE  entry'.here /\ project'.here /\ Alive(entry.proc)' /\ ~proc'[entry'.proc].orphan
        OBVIOUS
      <3>1. entry' = entry /\ entry.proc \in Pid /\ entry.proc # p
        BY <1>3, <1>6, Types DEF IInv, Entries
      <3> QED BY <1>1, <1>2, <3>1 DEF IInv, EntryIsReal, Alive
    <2>2. entry'.status = "running" /\ entry'.managed => entry'.proc # None
      BY <1>3 DEF IInv, EntryIsReal
    <2>3. \A r \in Starter : Probing(r)' /\ ~op'[r].retired =>
            entry'.here /\ entry'.managed /\ project'.here
      BY <1>1, <1>3, <1>5 DEF IInv, EntryIsReal, Probing
    <2> QED BY <1>3, <2>1, <2>2, <2>3 DEF EntryIsReal, Alive, Probing
  <1>9. rushed' \/ Calm'
    <2> SUFFICES ASSUME ~rushed PROVE Calm'
      BY <1>1
    <2>1. Calm
      BY DEF IInv
    <2>2. handled => entry.proc = p
      BY <2>1 DEF Calm, Recorded, handled
    <2>3. \A q \in Pid : Untold(q)' => q # p /\ Untold(q) /\ proc'[q] = proc[q]
      BY <1>2 DEF Untold, Alive
    <2>4. handled => NoneUntold'
      BY <2>1, <2>2, <2>3 DEF Calm, Recorded, InTurn, NoneUntold
    <2>5. Recorded'
      BY <1>1, <1>2, <1>3, <1>4, <1>6, <2>1, <2>2, <2>3, <2>4
      DEF Calm, Recorded, NoneUntold, Alive
    <2>6. InTurn'
      BY <1>1, <1>3, <1>5, <2>1 DEF Calm, InTurn
    <2>7. StartIsAlone'
      <3>1. \A r \in Starter : op'[r].at # "idle" => NoneUntold'
        BY <1>5, <2>1, <2>3 DEF Calm, StartIsAlone, NoneUntold
      <3>2. \A r \in Starter : op'[r].at = "waiting" => entry'.proc = op'[r].on
        <4> SUFFICES ASSUME NEW r \in Starter, op'[r].at = "waiting"
                     PROVE  entry'.proc = op'[r].on
          OBVIOUS
        <4>1. op'[r] = op[r] /\ op[r].at = "waiting" /\ op[r].on # p
          BY <1>5
        <4>2. entry.proc = op[r].on
          BY <2>1, <4>1 DEF Calm, StartIsAlone
        <4> QED BY <1>3, <2>2, <4>1, <4>2
      <3>3. \A r \in Starter : op'[r].at \in {"probing", "woken"} => entry'.proc = None
        <4> SUFFICES ASSUME NEW r \in Starter, op'[r].at \in {"probing", "woken"}
                     PROVE  entry'.proc = None
          OBVIOUS
        <4>1. CASE op[r].at = "waiting" /\ op[r].on = p
          BY <1>3, <1>6, <2>1, <4>1 DEF Calm, StartIsAlone
        <4>2. CASE ~(op[r].at = "waiting" /\ op[r].on = p)
          BY <1>3, <1>5, <2>1, <4>2 DEF Calm, StartIsAlone
        <4> QED BY <4>1, <4>2
      <3>4. \A r \in Starter : Probing(r)' =>
              ~op'[r].retired /\ row'.here /\ row'.managed /\ row'.cmd = op'[r].cmd
        BY <1>4, <1>5, <2>1 DEF Calm, StartIsAlone, Probing
      <3> QED BY <3>1, <3>2, <3>3, <3>4 DEF StartIsAlone, Probing
    <2> QED BY <2>5, <2>6, <2>7 DEF Calm
  <1> QED BY <1>7, <1>8, <1>9 DEF IInv

----------------------------------------------------------------------------
(* Requests that start nothing *)

LEMMA StopKeeps ==
  ASSUME IInv, Stop
  PROVE  IInv'
  <1>1. rushed' \in BOOLEAN /\ (~rushed' => ~rushed /\ Settled)
    BY RushIs DEF IInv, Stop
  <1>2. /\ row' \in Row /\ row'.here = row.here
        /\ row'.managed = row.managed /\ row'.pid = row.pid /\ row'.cmd = row.cmd
    BY SetDesiredIs DEF Stop, IInv
  <1>3. /\ entry' \in Entries /\ entry'.here = entry.here /\ entry'.managed = entry.managed
        /\ entry'.proc = entry.proc
        /\ IF entry.proc = None THEN entry'.status = "stopped" ELSE entry'.status = entry.status
    BY StoppedIs DEF Stop, IInv
  <1>4. /\ proc' \in [Pid -> Procs]
        /\ \A p \in Pid : /\ proc'[p].life = proc[p].life /\ proc'[p].orphan = proc[p].orphan
                          /\ proc'[p].cmd = proc[p].cmd
                          /\ proc'[p].told = (proc[p].told \/ (p = entry.proc /\ Alive(p)))
    BY KillGroupIs, Types DEF Stop, IInv, Entries
  <1>5. UNCHANGED <<project, op, restore>> /\ entry.here
    BY DEF Stop
  <1>6. ~rushed' => NoneUntold'
    BY <1>1, <1>4, AtRest DEF IInv, NoneUntold, Untold, Alive
  <1>7. Records'
    BY <1>1, <1>2, <1>3, <1>4, <1>5, Types DEF IInv, Records, Entries, Procs, Ops
  <1>8. EntryIsReal'
    BY <1>3, <1>4, <1>5, Types DEF IInv, EntryIsReal, Alive, Probing, Entries
  <1>9. rushed' \/ Calm'
    BY <1>1, <1>2, <1>3, <1>4, <1>5, <1>6
    DEF IInv, Settled, Calm, Recorded, InTurn, StartIsAlone, NoneUntold, Untold, Alive, Probing
  <1> QED BY <1>7, <1>8, <1>9 DEF IInv

LEMMA RetireKeeps ==
  ASSUME IInv, Retire
  PROVE  IInv'
  <1>1. rushed' \in BOOLEAN /\ (~rushed' => ~rushed /\ Settled)
    BY RushIs DEF IInv, Retire
  <1>2. /\ proc' \in [Pid -> Procs]
        /\ \A p \in Pid : /\ proc'[p].life = proc[p].life /\ proc'[p].orphan = proc[p].orphan
                          /\ proc'[p].cmd = proc[p].cmd
                          /\ proc'[p].told = (proc[p].told \/ (p = entry.proc /\ Alive(p)))
    BY KillGroupIs, Types DEF Retire, IInv, Entries
  <1>3. /\ project' \in [here : BOOLEAN, cmd : Cmd] /\ ~project'.here
        /\ entry' = NoEntry /\ row' = NoRow /\ restore' = restore
    BY Types DEF Retire, IInv
  <1>4. \A r \in Starter : LET x == [op[r] EXCEPT !.retired = op[r].at = "probing"]
                           IN  x \in Ops /\ x.at = op[r].at /\ (Probing(r) => x.retired)
    BY Types DEF IInv, Ops, Probing
  <1>5. op' \in [Starter -> Ops] /\ \A r \in Starter : op'[r].at = op[r].at
                                                  /\ (Probing(r) => op'[r].retired)
    BY <1>4, Types DEF IInv, Retire
  <1>6. Records'
    BY <1>1, <1>2, <1>3, <1>5, Types, Blank DEF IInv, Records, Entries, Procs, Ops
  <1>7. EntryIsReal'
    BY <1>3, <1>5, Blank DEF IInv, EntryIsReal, Probing
  <1>8. ~rushed' => NoneUntold'
    BY <1>1, <1>2, AtRest DEF IInv, NoneUntold, Untold, Alive
  <1>9. rushed' \/ Calm'
    BY <1>1, <1>3, <1>5, <1>8, Blank
    DEF IInv, Settled, Calm, Recorded, InTurn, StartIsAlone, NoneUntold, Untold, Alive, Probing
  <1> QED BY <1>6, <1>7, <1>9 DEF IInv

(* A request that makes the entry if need be and records it. *)
LEMMA RecordKeeps ==
  ASSUME IInv, NEW running \in BOOLEAN, NEW e \in Entries, Rush(Drifts(e.cmd)),
         e.here, row' = Persisted(e, running), entry' = e,
         IF entry.here THEN /\ e.managed = entry.managed /\ e.proc = entry.proc
                            /\ e.managed => e.status = entry.status
         ELSE e.proc = None /\ (e.status = "running" => ~e.managed),
         UNCHANGED <<project, proc, op, restore>>
  PROVE  IInv'
  <1>1. rushed' \in BOOLEAN /\ (~rushed' => ~rushed /\ Settled /\ ~Drifts(e.cmd))
    BY RushIs DEF IInv, Drifts
  <1>2. /\ row' \in Row /\ row'.here
        /\ row'.managed = e.managed /\ row'.pid = row.pid /\ row'.cmd = e.cmd
    BY PersistedIs DEF IInv
  <1>3. Records'
    BY <1>1, <1>2, Types DEF IInv, Records, Entries, Procs, Ops
  <1>4. EntryIsReal'
    BY Types DEF IInv, EntryIsReal, Alive, Probing
  <1>5. rushed' \/ Calm'
    <2> SUFFICES ASSUME ~rushed' PROVE Calm'
      OBVIOUS
    <2>1. Calm /\ Settled /\ ~rushed
      BY <1>1 DEF IInv
    <2>2. \A p \in Pid : Untold(p)' => /\ Untold(p) /\ entry.proc = p /\ entry.managed
                                      /\ ~proc[p].orphan /\ entry.here /\ proc[p].cmd = e.cmd
      BY <1>1, <2>1, AtRest DEF IInv, EntryIsReal, Untold, Alive, Drifts
    <2> QED BY <1>2, <2>1, <2>2
        DEF IInv, EntryIsReal, Settled, Calm, Recorded, InTurn, StartIsAlone, NoneUntold, Alive, Probing
  <1> QED BY <1>3, <1>4, <1>5 DEF IInv

LEMMA ExposeKeeps ==
  ASSUME IInv, Expose
  PROVE  IInv'
  <1> DEFINE e == IF entry.here THEN entry ELSE Fresh(FALSE)
             up == IF e.managed THEN e ELSE [e EXCEPT !.status = "running"]
  <1>1. /\ entry' = up /\ row' = Persisted(up, FALSE) /\ Rush(Drifts(up.cmd))
        /\ UNCHANGED <<project, proc, op, restore>>
    BY DEF Expose
  <1>2. /\ e \in Entries /\ e.here
        /\ entry.here => e = entry
        /\ ~entry.here => e.proc = None /\ ~e.managed
    BY FreshIs, Types DEF IInv
  <1> HIDE DEF e
  <1>3. /\ up \in Entries /\ up.here /\ up.managed = e.managed /\ up.proc = e.proc
        /\ up.managed => up = e
    BY <1>2 DEF Entries
  <1> HIDE DEF up
  <1> QED BY <1>1, <1>2, <1>3, RecordKeeps

LEMMA ShareKeeps ==
  ASSUME IInv, Share
  PROVE  IInv'
  <1> DEFINE e == IF entry.here THEN entry ELSE Found
  <1>1. /\ entry' = e /\ row' = Persisted(e, row.running) /\ Rush(Drifts(e.cmd))
        /\ UNCHANGED <<project, proc, op, restore>>
    BY DEF Share
  <1>2. /\ e \in Entries /\ e.here
        /\ entry.here => e = entry
        /\ ~entry.here => e.proc = None /\ e.status = "stopped"
    BY FoundIs, Types DEF IInv
  <1>3. row.running \in BOOLEAN
    BY Types DEF IInv, Row
  <1> HIDE DEF e
  <1> QED BY <1>1, <1>2, <1>3, RecordKeeps

LEMMA ListKeeps ==
  ASSUME IInv, List \/ EditCommand
  PROVE  IInv'
  <1>1. /\ project' \in [here : BOOLEAN, cmd : Cmd] /\ project'.here = project.here
        /\ UNCHANGED <<row, proc, op, restore, rushed>>
    BY Types DEF IInv, List, EditCommand, Cmd
  <1>2. /\ entry' \in Entries /\ entry'.here = entry.here /\ entry'.managed = entry.managed
        /\ entry'.proc = entry.proc /\ entry'.status = entry.status
    BY Types DEF IInv, List, EditCommand, Entries
  <1>3. Records'
    BY <1>1, <1>2, Types DEF IInv, Records, Entries, Procs, Ops
  <1>4. EntryIsReal'
    BY <1>1, <1>2 DEF IInv, EntryIsReal, Alive, Probing
  <1>5. rushed' \/ Calm'
    BY <1>1, <1>2
    DEF IInv, Calm, Recorded, InTurn, StartIsAlone, NoneUntold, Untold, Alive, Probing
  <1> QED BY <1>3, <1>4, <1>5 DEF IInv

----------------------------------------------------------------------------
(* The end of the server, and its boot *)

(* Whatever the exit hook has killed, the rest are orphans. *)
LEMMA DownKeeps ==
  ASSUME IInv, NEW ps \in [Pid -> Procs], Down(ps),
         \A p \in Pid : ps[p] = proc[p] \/ ps[p].life = "dead"
  PROVE  IInv'
  <1>1. \A p \in Pid :
          LET x == [ps[p] EXCEPT !.orphan = ps[p].life = "alive",
                                 !.doom = IF @ = "timer" THEN "none" ELSE @]
          IN  /\ x \in Procs /\ x.life = ps[p].life /\ x.told = ps[p].told /\ x.cmd = ps[p].cmd
              /\ x.orphan = (ps[p].life = "alive")
    BY DEF Procs, Alive
  <1>2. /\ proc' \in [Pid -> Procs]
        /\ \A p \in Pid : /\ proc'[p].life = ps[p].life /\ proc'[p].told = ps[p].told
                          /\ proc'[p].cmd = ps[p].cmd
                          /\ proc'[p].orphan = (ps[p].life = "alive")
    BY <1>1 DEF Down
  <1>3. /\ entry' = NoEntry /\ restore' = [at |-> "unpinged", snap |-> NoRow]
        /\ op' \in [Starter -> Ops] /\ \A r \in Starter : op'[r].at = "idle"
        /\ UNCHANGED <<project, row, rushed>>
    BY Blank DEF Down
  <1>4. Records'
    BY <1>2, <1>3, Types, Blank DEF IInv, Records, Entries, Procs, Ops
  <1>5. EntryIsReal'
    BY <1>3, Blank DEF EntryIsReal, Probing
  <1>6. rushed' \/ Calm'
    <2>1. \A p \in Pid : Alive(p)' => Alive(p) /\ proc'[p].orphan /\ proc'[p].cmd = proc[p].cmd
                                    /\ (proc'[p].told = proc[p].told)
      BY <1>2 DEF Alive
    <2>2. restore'.at = "unpinged" /\ entry'.proc = None
      BY <1>3, Blank
    <2> QED BY <1>3, <2>1, <2>2
        DEF IInv, Calm, Recorded, InTurn, StartIsAlone, Untold, Probing
  <1> QED BY <1>4, <1>5, <1>6 DEF IInv

LEMMA EndKeeps ==
  ASSUME IInv, Crash \/ CleanExit
  PROVE  IInv'
  <1>1. CASE Crash
    BY <1>1, DownKeeps, Types DEF IInv, Crash
  <1>2. CASE CleanExit
    <2>1. entry.proc \in Pid
      BY <1>2, Types DEF IInv, CleanExit, Entries
    <2>2. /\ Dead(proc, entry.proc) \in [Pid -> Procs]
          /\ \A p \in Pid : \/ Dead(proc, entry.proc)[p] = proc[p]
                            \/ Dead(proc, entry.proc)[p].life = "dead"
      BY <2>1, DeadIs DEF IInv
    <2> QED BY <1>2, <2>2, DownKeeps DEF CleanExit
  <1> QED BY <1>1, <1>2

LEMMA RestoreBeginKeeps ==
  ASSUME IInv, RestoreBegin
  PROVE  IInv'
  <1> DEFINE reaps == row.managed /\ LooksLikeService(row)
  <1>1. /\ restore.at = "unpinged"
        /\ restore' = [at |-> IF reaps THEN "reaping" ELSE "reaped", snap |-> row]
        /\ proc' = (IF reaps THEN [proc EXCEPT ![row.pid].told = TRUE, ![row.pid].doom = "killed"]
                   ELSE proc)
        /\ row' = (IF row.managed /\ ~reaps THEN SetPid(None) ELSE row)
        /\ UNCHANGED <<project, entry, op, rushed>>
    BY DEF RestoreBegin
  <1>2. /\ restore' \in [at : {"unpinged", "reaping", "reaped", "done"}, snap : Row]
        /\ restore'.at # "unpinged" /\ restore'.at # "done"
    BY <1>1, Types DEF IInv
  <1>3. reaps => row.pid \in Pid /\ proc[row.pid].cmd = row.cmd
    BY Types DEF IInv, LooksLikeService, Row
  <1>4. /\ proc' \in [Pid -> Procs]
        /\ \A p \in Pid : /\ proc'[p].life = proc[p].life /\ proc'[p].orphan = proc[p].orphan
                          /\ proc'[p].cmd = proc[p].cmd
                          /\ IF reaps /\ p = row.pid THEN proc'[p].told
                             ELSE proc'[p].told = proc[p].told
    <2>1. CASE reaps
      <3>1. [proc[row.pid] EXCEPT !.told = TRUE, !.doom = "killed"] \in Procs
        <4>1. proc[row.pid] \in Procs
          BY <1>3, <2>1, Types DEF IInv
        <4> QED BY <4>1 DEF Procs
      <3>2. LET x == [proc[row.pid] EXCEPT !.told = TRUE, !.doom = "killed"]
            IN  /\ x.told /\ x.life = proc[row.pid].life /\ x.orphan = proc[row.pid].orphan
                /\ x.cmd = proc[row.pid].cmd
        BY <1>3, <2>1, Types DEF IInv, Procs
      <3>3. proc' = [proc EXCEPT ![row.pid] = [proc[row.pid] EXCEPT !.told = TRUE, !.doom = "killed"]]
        BY <1>1, <1>3, <2>1, Types DEF IInv
      <3> QED BY <1>3, <2>1, <3>1, <3>2, <3>3, Types DEF IInv
    <2>2. CASE ~reaps
      BY <1>1, <2>2, Types DEF IInv
    <2> QED BY <2>1, <2>2
  <1>5. row' \in Row
    BY <1>1, SetPidIs, Types DEF IInv
  <1>6. Records'
    BY <1>1, <1>2, <1>4, <1>5, Types DEF IInv, Records, Entries, Procs, Ops
  <1>7. EntryIsReal'
    BY <1>1, <1>4, Types DEF IInv, EntryIsReal, Alive, Probing, Entries
  <1>8. rushed' \/ Calm'
    <2> SUFFICES ASSUME ~rushed PROVE Calm'
      BY <1>1
    <2>1. Calm /\ entry.proc = None
      BY <1>1 DEF IInv, Calm, InTurn
    <2>2. \A p \in Pid : Untold(p) => reaps /\ row.pid = p
      BY <2>1 DEF Calm, Recorded, LooksLikeService, Untold
    <2>3. NoneUntold'
      BY <1>4, <2>2 DEF NoneUntold, Untold, Alive
    <2> QED BY <1>1, <1>2, <1>4, <2>1, <2>3
        DEF Calm, Recorded, InTurn, StartIsAlone, NoneUntold, Alive, Probing
  <1> QED BY <1>6, <1>7, <1>8 DEF IInv

(* Nothing that a restore finds at its end was not told to stop. *)
LEMMA ReapedIsQuiet ==
  ASSUME IInv, ~rushed, restore.at \in {"reaping", "reaped"}
  PROVE  Calm /\ NoneUntold /\ entry.proc = None /\ \A r \in Starter : op[r].at = "idle"
  <1>1. Calm /\ entry.proc = None /\ \A r \in Starter : op[r].at = "idle"
    BY DEF IInv, Calm, InTurn
  <1> QED BY <1>1 DEF Calm, Recorded, NoneUntold

LEMMA RestKeeps ==
  ASSUME IInv, ReapEnds \/ RestoreSkip \/ RestoreSeed
  PROVE  IInv'
  <1>1. /\ UNCHANGED <<project, proc, op, rushed>>
        /\ restore.at \in {"reaping", "reaped"}
    BY DEF ReapEnds, RestoreSkip, RestoreSeed
  <1>2. restore' \in [at : {"unpinged", "reaping", "reaped", "done"}, snap : Row]
    <2>1. CASE ReapEnds
      BY <2>1, Types DEF IInv, ReapEnds
    <2>2. CASE RestoreSkip \/ RestoreSeed
      <3>1. restore' = [at |-> "done", snap |-> NoRow]
        BY <2>2 DEF RestoreSkip, RestoreSeed
      <3> QED BY <3>1, Blank
    <2> QED BY <2>1, <2>2
  <1>3. row' \in Row
    BY Types, SetPidIs, SetDesiredIs DEF IInv, ReapEnds, RestoreSkip, RestoreSeed
  <1>4. \/ entry' = entry
        \/ /\ ~entry.here /\ entry' \in Entries /\ entry'.proc = None
           /\ entry'.status = "stopped"
    <2>1. CASE RestoreSeed
      <3> DEFINE x == [NoEntry EXCEPT !.here = TRUE, !.managed = restore.snap.managed,
                                      !.cmd = restore.snap.cmd]
      <3>1. x \in Entries /\ x.proc = None /\ x.status = "stopped"
        BY Types, Blank DEF IInv, Entries, Row
      <3> QED BY <2>1, <3>1 DEF RestoreSeed, Skipped
    <2> QED BY <2>1 DEF ReapEnds, RestoreSkip
  <1>5. Records'
    BY <1>1, <1>2, <1>3, <1>4, Types DEF IInv, Records, Entries, Procs, Ops
  <1>6. EntryIsReal'
    BY <1>1, <1>4 DEF IInv, EntryIsReal, Alive, Probing
  <1>7. rushed' \/ Calm'
    <2> SUFFICES ASSUME ~rushed PROVE Calm'
      BY <1>1
    <2>1. Calm /\ NoneUntold /\ entry.proc = None /\ \A r \in Starter : op[r].at = "idle"
      BY <1>1, ReapedIsQuiet
    <2> QED BY <1>1, <1>4, <2>1
        DEF Calm, Recorded, InTurn, StartIsAlone, NoneUntold, Untold, Alive, Probing
  <1> QED BY <1>5, <1>6, <1>7 DEF IInv

----------------------------------------------------------------------------
LEMMA StepHolds == IInv /\ [Next]_vars => IInv'
  <1> SUFFICES ASSUME IInv, [Next]_vars PROVE IInv'
    OBVIOUS
  <1>1. ASSUME NEW r \in Req, Start(r) \/ Restart(r) \/ RestartIdle(r) \/ RestartGoes(r)
        PROVE  IInv'
    BY <1>1, StartKeeps, RestartKeeps, RestartIdleKeeps, RestartGoesKeeps
  <1>2. ASSUME NEW r \in Starter, Progress(r) PROVE IInv'
    BY <1>2, SpawnKeeps, StartFailsKeeps DEF Progress
  <1>3. ASSUME NEW p \in Pid, Exit(p) \/ Killed(p) PROVE IInv'
    BY <1>3, ExitsKeeps DEF Exit, Killed
  <1>4. CASE Stop \/ Retire \/ Expose \/ Share \/ List \/ EditCommand
    BY <1>4, StopKeeps, RetireKeeps, ExposeKeeps, ShareKeeps, ListKeeps
  <1>5. CASE Restoring
    BY <1>5, RestoreBeginKeeps, RestKeeps, RestoreStartKeeps DEF Restoring
  <1>6. CASE Crash \/ CleanExit
    BY <1>6, EndKeeps
  <1>7. CASE UNCHANGED vars \/ StopUnheard
    BY <1>7 DEF StopUnheard, vars, IInv, Records, EntryIsReal, Calm, Recorded, InTurn, StartIsAlone,
                NoneUntold, Untold, Alive, Probing
  <1> QED BY <1>1, <1>2, <1>3, <1>4, <1>5, <1>6, <1>7 DEF Next

----------------------------------------------------------------------------
(* What each request, exit, crash and boot leaves behind is inductive. *)
THEOREM Invariance == Spec => []IInv
  BY InitHolds, StepHolds, PTL DEF Spec

LEMMA RecordsHold == Spec => []Records
  <1>1. IInv => Records
    BY DEF IInv
  <1> QED BY <1>1, Invariance, PTL

(* A process that was not told to stop is recorded and supervised, however the server *)
(* crashes, exits and boots, if requests wait for each other; and what an entry shows *)
(* is real even if they do not (startService, its exit handlers, restoreServices).    *)
THEOREM Supervision == Spec => []Supervised
  <1>1. IInv => Supervised
    <2> SUFFICES ASSUME IInv PROVE Supervised
      OBVIOUS
    <2>1. rushed \/ \A p \in Pid : Untold(p) => row.pid = p /\ (proc[p].orphan \/ entry.proc = p)
      BY DEF IInv, Calm, Recorded
    <2> QED BY <2>1 DEF IInv, EntryIsReal, Supervised
  <1> QED BY <1>1, Invariance, PTL

(* The boot's start is still wanted when it comes: until an entry appears, or the *)
(* project goes, nobody changes what the row that the restore read asked for.     *)
StillWanted ==
  /\ restore.at \in {"reaping", "reaped"} /\ ~Skipped /\ Wanted(restore.snap)
  => row.running

(* Who wants the service to run has not asked for a stop since, if requests waited *)
(* for each other; rows go with their project.                                     *)
Obeyed == wish # "stopped" \/ rushed
Heeded ==
  /\ wish \in {"stopped", "running", "unheard"}
  /\ row.here => project.here
  /\ row.running => Obeyed
  /\ \A r \in Starter : op[r].at \in {"waiting", "woken"} => Obeyed

LEMMA StillWantedKeeps ==
  Records /\ StillWanted /\ [Next]_vars => StillWanted'
  <1> SUFFICES ASSUME Records, StillWanted, [Next]_vars PROVE StillWanted'
    OBVIOUS
  <1> USE DEF StillWanted, Skipped, Wanted
  <1>0. entry \in Entries /\ row \in Row
    BY Types
  <1>1. ASSUME NEW r \in Starter, NEW cmd \in Cmd, StartBody(r, cmd), UNCHANGED <<project, restore>>
        PROVE  StillWanted'
    <2>1. CASE UNCHANGED <<row, entry>>
      BY <1>1, <2>1
    <2>2. CASE entry' = Starting(cmd)
      <3>1. entry'.here
        BY <2>2, StartingIs
      <3> QED BY <3>1
    <2> QED BY <1>1, <2>1, <2>2 DEF StartBody
  <1>2. ASSUME NEW r \in Req, Start(r) \/ RestartGoes(r) PROVE StillWanted'
    BY <1>1, <1>2, Types DEF Start, RestartGoes, Starter, Ops
  <1>3. ASSUME NEW r \in Req, Restart(r) \/ RestartIdle(r) PROVE StillWanted'
    <2>1. CASE Restart(r)
      BY <2>1 DEF Restart
    <2>2. CASE RestartIdle(r)
      <3>1. entry' = Starting(project.cmd) /\ project.cmd \in Cmd
        BY <2>2, Types DEF RestartIdle
      <3>2. entry'.here
        BY <3>1, StartingIs
      <3> QED BY <3>2
    <2> QED BY <1>3, <2>1, <2>2
  <1>4. ASSUME NEW r \in Starter, Progress(r) PROVE StillWanted'
    <2>1. CASE StartFails(r)
      BY <1>0, <2>1 DEF StartFails, Entries
    <2>2. CASE Spawn(r)
      <3>1. PICK p \in Pid : row' = SetPid(p)
        BY <2>2 DEF Spawn
      <3>2. row'.running = row.running
        BY <1>0, <3>1 DEF SetPid, Row
      <3>3. entry'.here = entry.here /\ UNCHANGED <<project, restore>>
        BY <1>0, <2>2 DEF Spawn, Entries
      <3> QED BY <3>2, <3>3
    <2> QED BY <1>4, <2>1, <2>2 DEF Progress
  <1>5. ASSUME NEW p \in Pid, Exit(p) \/ Killed(p) PROVE StillWanted'
    <2>1. row' = SetPid(None) \/ row' = row
      BY <1>5 DEF Exit, Killed, Exits
    <2>2. row'.running = row.running
      BY <1>0, <2>1 DEF SetPid, Row
    <2>3. entry'.here = entry.here /\ UNCHANGED <<project, restore>>
      BY <1>0, <1>5 DEF Exit, Killed, Exits, AfterExit, Entries
    <2> QED BY <2>2, <2>3
  <1>6. CASE Stop \/ Retire
    <2>1. CASE Stop
      <3>1. entry'.here
        BY <2>1, StoppedIs DEF Stop
      <3> QED BY <3>1
    <2>2. CASE Retire
      <3>1. ~project'.here
        BY <2>2, Types DEF Retire
      <3> QED BY <3>1
    <2> QED BY <1>6, <2>1, <2>2
  <1>7. CASE Expose \/ Share
    <2>1. CASE Expose
      <3> DEFINE e == IF entry.here THEN entry ELSE Fresh(FALSE)
                 up == IF e.managed THEN e ELSE [e EXCEPT !.status = "running"]
      <3>1. e \in Entries /\ e.here
        BY <1>0, FreshIs
      <3>2. entry' = up
        BY <2>1 DEF Expose
      <3> HIDE DEF e
      <3>3. entry'.here
        BY <3>1, <3>2 DEF Entries
      <3> QED BY <3>3
    <2>2. CASE Share
      <3>1. entry'.here
        BY <1>0, <2>2, FoundIs DEF Share
      <3> QED BY <3>1
    <2> QED BY <1>7, <2>1, <2>2
  <1>8. CASE List \/ EditCommand
    <2>1. CASE List
      BY <1>0, <2>1 DEF List, Entries
    <2>2. CASE EditCommand
      BY <2>2, Types DEF EditCommand
    <2> QED BY <1>8, <2>1, <2>2
  <1>9. CASE RestoreBegin
    <2>1. restore'.snap = row /\ (row' = SetPid(None) \/ row' = row)
      BY <1>9 DEF RestoreBegin
    <2>2. row'.running = row.running
      BY <1>0, <2>1 DEF SetPid, Row
    <2> QED BY <2>1, <2>2
  <1>10. CASE ReapEnds
    <2>1. row'.running = row.running
      BY <1>0, <1>10 DEF ReapEnds, SetPid, Row
    <2>2. restore'.snap = restore.snap /\ restore.at = "reaping" /\ UNCHANGED <<project, entry>>
      BY <1>10, Types DEF ReapEnds
    <2> QED BY <2>1, <2>2
  <1>11. CASE RestoreSkip \/ RestoreStart \/ RestoreSeed
    <2>1. restore' = [at |-> "done", snap |-> NoRow]
      BY <1>11 DEF RestoreSkip, RestoreStart, RestoreSeed
    <2>2. restore'.at = "done"
      BY <2>1
    <2> QED BY <2>2
  <1>12. CASE Crash \/ CleanExit
    <2>1. restore' = [at |-> "unpinged", snap |-> NoRow]
      BY <1>12 DEF Crash, CleanExit, Down
    <2>2. restore'.at = "unpinged"
      BY <2>1
    <2> QED BY <2>2
  <1>13. CASE UNCHANGED vars \/ StopUnheard
    BY <1>13 DEF vars, StopUnheard
  <1> QED BY <1>2, <1>3, <1>4, <1>5, <1>6, <1>7, <1>8, <1>9, <1>10, <1>11, <1>12, <1>13
      DEF Next, Restoring

(* What a step of Next leaves of the row: its wish is kept, cleared or asked for. *)
LEMMA RowIs ==
  ASSUME Records
  PROVE  /\ \A p \in Pid \cup {None} : SetPid(p).running = row.running /\ SetPid(p).here = row.here
         /\ SetDesired(FALSE).running = FALSE /\ SetDesired(FALSE).here = row.here
         /\ \A e \in Entries, w \in BOOLEAN : Persisted(e, w).running = w
         /\ NoRow.running = FALSE /\ NoRow.here = FALSE
  <1>1. \A p \in Pid \cup {None} : SetPid(p).running = row.running /\ SetPid(p).here = row.here
    BY Types DEF SetPid, Row
  <1>2. SetDesired(FALSE).running = FALSE /\ SetDesired(FALSE).here = row.here
    BY Types DEF SetDesired, Row
  <1>3. \A e \in Entries, w \in BOOLEAN : Persisted(e, w).running = w
    BY DEF Persisted
  <1>4. NoRow.running = FALSE /\ NoRow.here = FALSE
    BY DEF NoRow
  <1> QED BY <1>1, <1>2, <1>3, <1>4

LEMMA HeededKeeps ==
  Records /\ StillWanted /\ Heeded /\ [Next]_vars => Heeded'
  <1> SUFFICES ASSUME Records, StillWanted, Heeded, [Next]_vars PROVE Heeded'
    OBVIOUS
  <1>0. /\ entry \in Entries /\ row \in Row /\ op \in [Starter -> Ops]
        /\ rushed \in BOOLEAN /\ project \in [here : BOOLEAN, cmd : Cmd]
    BY Types
  <1> USE DEF Heeded, Obeyed
  <1>1. ASSUME NEW r \in Starter, NEW cmd \in Cmd, StartBody(r, cmd), UNCHANGED project,
               wish' \in {"stopped", "running", "unheard"},
               wish' # "stopped" \/ rushed', wish' = "running" \/ wish' = wish, rushed => rushed'
        PROVE  Heeded'
    <2>1. row'.here => project'.here
      BY <1>0, <1>1 DEF StartBody
    <2> QED BY <1>1, <2>1
  <1>2. ASSUME NEW r \in Req, Start(r) PROVE Heeded'
    <2>1. r \in Starter /\ project.cmd \in Cmd /\ (rushed => rushed')
      BY <1>0, <1>2 DEF Starter, Start, Rush
    <2> QED BY <1>1, <1>2, <2>1 DEF Start
  <1>3. ASSUME NEW r \in Req, RestartGoes(r) PROVE Heeded'
    <2>1. r \in Starter /\ op[r].cmd \in Cmd /\ Obeyed
      BY <1>0, <1>3 DEF Starter, RestartGoes, Ops
    <2> QED BY <1>1, <1>3, <2>1 DEF RestartGoes
  <1>4. CASE RestoreStart
    <2>1. Boot \in Starter /\ project.cmd \in Cmd /\ Obeyed
      BY <1>0, <1>4 DEF Starter, RestoreStart, StillWanted, Restarts
    <2> QED BY <1>1, <1>4, <2>1 DEF RestoreStart
  <1>5. ASSUME NEW r \in Req, Restart(r) \/ RestartIdle(r) PROVE Heeded'
    BY <1>5, RowIs DEF Restart, RestartIdle
  <1>6. ASSUME NEW r \in Starter, Progress(r) PROVE Heeded'
    <2>1. UNCHANGED <<project, rushed, wish>> /\ op' = [op EXCEPT ![r] = IdleOp]
      BY <1>6 DEF Progress, Spawn, StartFails
    <2>2. row'.running = row.running /\ row'.here = row.here
      <3>1. row' = row \/ \E p \in Pid : row' = SetPid(p)
        BY <1>6 DEF Progress, Spawn, StartFails
      <3> QED BY <3>1, RowIs
    <2>3. \A s \in Starter : op'[s] = op[s] \/ op'[s].at = "idle"
      BY <1>0, <2>1, Blank
    <2> QED BY <2>1, <2>2, <2>3
  <1>7. ASSUME NEW p \in Pid, Exit(p) \/ Killed(p) PROVE Heeded'
    <2>1. UNCHANGED <<project, rushed, wish>> /\ Exits(p)
      BY <1>7 DEF Exit, Killed, Exits
    <2>2. row'.running = row.running /\ row'.here = row.here
      BY <2>1, RowIs DEF Exits
    <2>3. \A s \in Starter : op'[s] = op[s] \/ op[s].at = "waiting"
      BY <2>1, WokenIs
    <2> QED BY <2>1, <2>2, <2>3
  <1>8. CASE Stop
    <2>1. row'.running = FALSE /\ row'.here = row.here /\ UNCHANGED <<project, op>>
      BY <1>8, RowIs DEF Stop
    <2>2. wish' = "stopped" /\ rushed' = (rushed \/ ~Settled \/ FALSE)
      BY <1>8 DEF Stop, Rush
    <2>3. \A r \in Starter : op[r].at \in {"waiting", "woken"} => rushed'
      BY <2>2 DEF Settled
    <2> QED BY <2>1, <2>2, <2>3
  <1>9. CASE StopUnheard
    BY <1>9 DEF StopUnheard
  <1>10. CASE Retire
    <2>1. row'.running = FALSE /\ row'.here = FALSE
      BY <1>10, RowIs DEF Retire
    <2>2. wish' = "stopped" /\ rushed' = (rushed \/ ~Settled \/ FALSE)
      BY <1>10 DEF Retire, Rush
    <2>3. \A r \in Starter : op[r].at # "idle" => rushed'
      BY <2>2 DEF Settled
    <2>4. \A r \in Starter : op'[r].at = op[r].at
      BY <1>0, <1>10 DEF Retire, Ops
    <2> QED BY <2>1, <2>2, <2>3, <2>4
  <1>11. CASE Expose \/ Share
    <2>1. UNCHANGED <<project, op, wish>> /\ project.here /\ (rushed => rushed')
      BY <1>11 DEF Expose, Share, Rush
    <2>2. row'.running => row.running
      <3>1. CASE Expose
        BY <3>1 DEF Expose, Persisted
      <3>2. CASE Share
        BY <3>2 DEF Share, Persisted
      <3> QED BY <1>11, <3>1, <3>2
    <2> QED BY <2>1, <2>2
  <1>12. CASE List \/ EditCommand
    <2>1. UNCHANGED <<row, op, rushed, wish>> /\ project'.here = project.here
      BY <1>0, <1>12 DEF List, EditCommand
    <2> QED BY <2>1
  <1>13. CASE RestoreBegin \/ ReapEnds \/ RestoreSkip \/ RestoreSeed
    <2>1. UNCHANGED <<project, op, rushed, wish>>
      BY <1>13 DEF RestoreBegin, ReapEnds, RestoreSkip, RestoreSeed
    <2>2. row'.here = row.here /\ (row'.running => row.running)
      <3>1. row' = row \/ row' = SetPid(None) \/ row' = SetDesired(FALSE)
        BY <1>13 DEF RestoreBegin, ReapEnds, RestoreSkip, RestoreSeed
      <3> QED BY <3>1, RowIs
    <2> QED BY <2>1, <2>2
  <1>14. CASE Crash \/ CleanExit
    <2>1. UNCHANGED <<project, row, rushed, wish>> /\ op' = [r \in Starter |-> IdleOp]
      BY <1>14 DEF Crash, CleanExit, Down
    <2>2. \A r \in Starter : op'[r].at = "idle"
      BY <2>1, Blank
    <2> QED BY <2>1, <2>2
  <1>15. CASE UNCHANGED vars
    BY <1>15 DEF vars
  <1> QED BY <1>2, <1>3, <1>4, <1>5, <1>6, <1>7, <1>8, <1>9, <1>10, <1>11, <1>12, <1>13,
             <1>14, <1>15
      DEF Next, Restoring

LEMMA HeededHolds == Spec => [](StillWanted /\ Heeded)
  <1>1. Init => StillWanted /\ Heeded
    BY Blank DEF Init, StillWanted, Heeded, Obeyed, NoRow
  <1> QED BY <1>1, StillWantedKeeps, HeededKeeps, RecordsHold, PTL DEF Spec

(* Every state of project, rows, registry, processes and requests is well-formed, and *)
(* no row outlives its project (lib/services.ts).                                      *)
THEOREM TypeCorrect == Spec => []TypeOK
  <1>1. Records /\ Heeded => TypeOK
    BY DEF Heeded, TypeOK
  <1> QED BY <1>1, RecordsHold, HeededHolds, PTL

(* restoreServices reads the rows before it waits for the orphans to die; even so no *)
(* boot starts a service that its row no longer asks for, nor one that the user asked *)
(* to stop last, if the server recorded that stop and requests waited for each other. *)
THEOREM BootIsWanted == Spec => BootStartsWhatIsWanted
  <1>1. StillWanted /\ Heeded => [RestoreStart => row.running /\ (wish # "stopped" \/ rushed)]_vars
    BY DEF StillWanted, Heeded, Obeyed, RestoreStart, Restarts
  <1> QED BY <1>1, HeededHolds, PTL DEF BootStartsWhatIsWanted
=============================================================================
