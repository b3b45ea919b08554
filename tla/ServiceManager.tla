--------------------------- MODULE ServiceManager ---------------------------
(***************************************************************************)
(* `tuzy service` (internal/service, cli/service_cmd.go): one command at a *)
(* time drives launchd, systemd --user or the Task Scheduler, each of      *)
(* whose commands may fail, while the job exits and is started again and   *)
(* the user logs out and in.  What a definition says is only which install *)
(* wrote it.  The supervisors are external: what the templates and the     *)
(* comments of the code expect of them.                                    *)
(***************************************************************************)
EXTENDS Naturals, Sequences

CONSTANT MAX_INSTALLS  \* bound

ASSUME ServiceAssumption == MAX_INSTALLS \in Nat

VARIABLES
  goos,
  unit,     \* the definition on disk (Windows: in the scheduler), 0 for none
  held,     \* the definition the supervisor has read, 0 for none
  active,   \* the supervisor keeps the job running
  enabled,  \* Linux: started at login
  job,      \* the definition the running job was started from, 0 for none
  draining, \* macOS: bootout was accepted, the job has yet to exit
  command, todo, \* the command that runs, and the steps it has yet to take
  clean,    \* none of its steps has failed
  installed,\* the last install succeeded
  writes,   \* definitions written
  restarted \* a restart has since gone through without a failing step

serviceVars == <<goos, unit, held, active, enabled, job, draining, command, todo, clean,
                 installed, writes, restarted>>
supervisorVars == <<held, active, enabled, job, draining>>

Commands == {"install", "uninstall", "start", "stop", "restart"}

ServiceTypeOK ==
  /\ goos \in {"darwin", "linux", "windows"}
  /\ {unit, held, job, writes} \subseteq 0 .. MAX_INSTALLS
  /\ {active, enabled, draining, clean, installed, restarted} \subseteq BOOLEAN
  /\ command \in Commands \cup {"none"}

ServiceInit ==
  /\ goos \in {"darwin", "linux", "windows"}
  /\ unit = 0 /\ held = 0 /\ job = 0 /\ writes = 0
  /\ active = FALSE /\ enabled = FALSE /\ draining = FALSE
  /\ command = "none" /\ todo = <<>> /\ clean = TRUE
  /\ installed = FALSE /\ restarted = FALSE

---------------------------------------------------------------------------
(* The steps of each command on each platform.  "load" is Start on macOS:  *)
(* bootstrap, or kickstart when a definition is loaded.                    *)
Plan(c) ==
  CASE goos = "darwin" ->
         [install |-> <<"write", "bootout", "wait">>, uninstall |-> <<"bootout", "remove">>,
          start |-> <<"load">>, stop |-> <<"bootout", "wait">>,
          restart |-> <<"bootout", "wait", "load">>][c]
    [] goos = "linux" ->
         [install |-> <<"write", "reload", "enable">>,
          uninstall |-> <<"disable", "remove", "reload">>,
          start |-> <<"start">>, stop |-> <<"stop">>, restart |-> <<"restart">>][c]
    [] OTHER ->
         [install |-> <<"write">>, uninstall |-> <<"stop", "remove">>,
          start |-> <<"start">>, stop |-> <<"stop">>, restart |-> <<"stop", "start">>][c]

RunCommand(c) ==
  /\ command = "none" /\ command' = c /\ todo' = Plan(c) /\ clean' = TRUE
  /\ restarted' = (restarted /\ c = "start")
  /\ installed' = (installed /\ c \notin {"install", "uninstall"})
  /\ UNCHANGED <<goos, unit, supervisorVars, writes>>

(* A command of the supervisor whose failure Uninstall, or Restart on      *)
(* Windows, leaves alone.                                                  *)
Tolerated(step) ==
  \/ command = "uninstall" /\ step \in {"bootout", "disable", "stop"}
  \/ command = "restart" /\ step = "stop"

(* Re-install on macOS is done when the old definition cannot be dropped.  *)
StepFails ==
  /\ todo # <<>> /\ clean' = FALSE
  /\ todo' = IF Tolerated(Head(todo)) THEN Tail(todo) ELSE <<>>
  /\ command' = IF Tolerated(Head(todo)) THEN command ELSE "none"
  /\ installed' = IF command = "install" THEN Head(todo) = "bootout" ELSE installed
  /\ UNCHANGED <<goos, unit, supervisorVars, writes, restarted>>

Done ==
  /\ command # "none" /\ todo = <<>> /\ command' = "none"
  /\ installed' = (command = "install" \/ installed)
  /\ restarted' = (restarted \/ (command = "restart" /\ clean /\ installed))
  /\ UNCHANGED <<goos, unit, supervisorVars, todo, clean, writes>>

TakeStep(step) ==
  /\ todo # <<>> /\ Head(todo) = step /\ todo' = Tail(todo)
  /\ UNCHANGED <<goos, command, clean, installed, restarted>>

WriteUnit ==
  /\ TakeStep("write") /\ writes < MAX_INSTALLS /\ writes' = writes + 1 /\ unit' = writes'
  /\ held' = IF goos = "windows" THEN writes' ELSE held
  /\ UNCHANGED <<active, enabled, job, draining>>

RemoveUnit ==
  /\ TakeStep("remove") /\ unit' = 0
  /\ held' = IF goos = "windows" THEN 0 ELSE held
  /\ UNCHANGED <<writes, active, enabled, job, draining>>

Reload ==
  /\ TakeStep("reload") /\ held' = unit
  /\ UNCHANGED <<unit, writes, active, enabled, job, draining>>

Enable ==
  /\ TakeStep("enable") /\ enabled' = TRUE
  /\ UNCHANGED <<unit, writes, held, active, job, draining>>

(* bootout returns while the job still drains.                             *)
Bootout ==
  /\ TakeStep("bootout") /\ active' = FALSE
  /\ draining' = (job # 0) /\ held' = IF job = 0 THEN 0 ELSE held
  /\ UNCHANGED <<unit, writes, enabled, job>>

WaitNotAtAll ==
  /\ TakeStep("wait")
  /\ UNCHANGED <<unit, writes, supervisorVars>>

(* waitUnloaded polls until launchctl no longer knows the job.             *)
WaitUnloaded ==
  /\ TakeStep("wait") /\ held = 0
  /\ UNCHANGED <<unit, writes, supervisorVars>>

Load ==
  /\ TakeStep("load")
  /\ IF held = 0
     THEN unit # 0 /\ held' = unit /\ job' = unit /\ active' = TRUE
     ELSE job' = (IF job = 0 THEN held ELSE job) /\ UNCHANGED <<held, active>>
  /\ UNCHANGED <<unit, writes, enabled, draining>>

(* systemctl start and schtasks /Run leave a running job as it is.         *)
StartJob ==
  /\ TakeStep("start") /\ held # 0 /\ active' = TRUE
  /\ job' = IF job = 0 THEN held ELSE job
  /\ UNCHANGED <<unit, writes, held, enabled, draining>>

RestartJob ==
  /\ TakeStep("restart") /\ held # 0 /\ active' = TRUE /\ job' = held
  /\ UNCHANGED <<unit, writes, held, enabled, draining>>

StopJob ==
  /\ \E step \in {"stop", "disable"} :
       TakeStep(step) /\ enabled' = (enabled /\ step = "stop")
  /\ active' = FALSE /\ job' = 0
  /\ UNCHANGED <<unit, writes, held, draining>>

---------------------------------------------------------------------------
(* The supervisor: KeepAlive, Restart=always, RestartOnFailure; RunAtLoad, *)
(* WantedBy and the logon trigger start the job at login.                  *)
JobExits ==
  /\ job # 0 /\ job' = 0 /\ draining' = FALSE
  /\ held' = IF draining THEN 0 ELSE held
  /\ UNCHANGED <<goos, unit, active, enabled, command, todo, clean, installed, writes,
                 restarted>>

Respawn ==
  /\ active /\ job = 0 /\ job' = held
  /\ UNCHANGED <<goos, unit, held, active, enabled, draining, command, todo, clean,
                 installed, writes, restarted>>

Relogin ==
  /\ command = "none" /\ job' = 0 /\ draining' = FALSE /\ held' = unit
  /\ active' = (unit # 0 /\ (goos = "linux" => enabled))
  /\ UNCHANGED <<goos, unit, enabled, command, todo, clean, installed, writes, restarted>>

ServiceNext ==
  \/ \E c \in Commands : RunCommand(c)
  \/ StepFails \/ Done \/ WriteUnit \/ RemoveUnit \/ Reload \/ Enable \/ Bootout \/ WaitUnloaded
  \/ Load \/ StartJob \/ RestartJob \/ StopJob \/ JobExits \/ Respawn \/ Relogin

ServiceSpec == ServiceInit /\ [][ServiceNext]_serviceVars

---------------------------------------------------------------------------
(* After an install that reported success, whatever failed on the way to   *)
(* it and whatever ran before, a restart whose own steps succeed leaves    *)
(* the job kept up from the installed definition, never from an older one, *)
(* until the next install, stop or uninstall, across crashes and logins.   *)
RestartRunsInstalled == restarted => active /\ held = unit /\ job \in {0, unit}
=============================================================================
