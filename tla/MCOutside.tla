------------------------------ MODULE MCOutside -----------------------------
(* What a process does to the world around it, one scene at a time: the     *)
(* effects of tools, a command-line agent, the gateway daemon, a person,    *)
(* the clients that watch a run, the flows of the dashboard and its         *)
(* wizards, the command that runs flows, the log a run leaves behind, and   *)
(* the runs other people see.  They share no state.  The effects run in the *)
(* two deployments of the README: everything in memory, and the durable     *)
(* journal with a suspending sink, with tools that may or may not go stale. *)
EXTENDS EffectInterceptor, CliTurn, Daemon, HumanTalk, EventHub, Dashboard, Wizards, RunCommand,
        RunLog, ConsoleRuns

VARIABLE scene   \* which of them, never changed

MCSetup == [durable : {FALSE}, sinkSuspends : {FALSE}, slowTools : {FALSE}]
           \cup [durable : {TRUE}, sinkSuspends : {TRUE}, slowTools : {TRUE}]

\* The durable journal alone, with tools that do not go stale.
MCDurable == [durable : {TRUE}, sinkSuspends : {TRUE}, slowTools : {FALSE}]

\* What WorkflowRuntime hands over with a step, nothing, and what the tests of the
\* two managers do.
MCEventLists == {<<>>, <<"component_finished">>, <<"component_finished", "checkpoint_saved">>}

\* Choices of the scenes that are not on are made once.
OutsideInit ==
  /\ Init /\ CliInit /\ DaemonInit /\ HumanInit /\ HubInit
  /\ DashInit /\ WizardInit /\ CommandInit /\ LogInit /\ ShownInit
  /\ scene \in {"effects", "cli", "daemon", "person", "watchers", "dashboard", "wizards",
                "command", "log", "console", "store"}
  /\ scene # "effects" => ~setup.durable
  /\ scene # "cli" => size = 0
  /\ scene # "person" => medium = "queue"
  /\ scene # "wizards" => roster = {}
  /\ scene # "command" => ~project.database /\ ~project.target
  /\ scene # "log" => keeping = "memory" /\ \A k \in 1..MaxSteps : enclosed[k] = <<>>
  /\ scene # "store" => ~database

\* Everything stays as it is but for the scene that is on.
Only(on) ==
  /\ scene = on /\ UNCHANGED scene
  /\ IF on = "effects" THEN TRUE ELSE UNCHANGED vars
  /\ IF on = "cli" THEN TRUE ELSE UNCHANGED turnVars
  /\ IF on = "daemon" THEN TRUE ELSE UNCHANGED daemonVars
  /\ IF on = "person" THEN TRUE ELSE UNCHANGED humanVars
  /\ IF on = "watchers" THEN TRUE ELSE UNCHANGED hubVars
  /\ IF on = "dashboard" THEN TRUE ELSE UNCHANGED dashVars
  /\ IF on = "wizards" THEN TRUE ELSE UNCHANGED wizardVars
  /\ IF on = "command" THEN TRUE ELSE UNCHANGED commandVars
  /\ IF on = "log" THEN TRUE ELSE UNCHANGED logVars
  /\ IF on \in {"console", "store"} THEN TRUE ELSE UNCHANGED shownVars

Effects   == Only("effects") /\ Next
CliAgent  == Only("cli") /\ CliNext
Gateway   == Only("daemon") /\ DaemonNext
Asking    == Only("person") /\ HumanNext
Watchers  == Only("watchers") /\ HubNext
Flows     == Only("dashboard") /\ DashNext
Wizard    == Only("wizards") /\ WizardNext
Commands  == Only("command") /\ CommandRuns
Logging   == Only("log") /\ LogNext
Console   == Only("console") /\ Shown
RunStore  == Only("store") /\ Stored

OutsideNext == Effects \/ CliAgent \/ Gateway \/ Asking \/ Watchers
               \/ Flows \/ Wizard \/ Commands \/ Logging \/ Console \/ RunStore

OutsideSpec ==
  OutsideInit
  /\ [][OutsideNext]_<<vars, turnVars, daemonVars, humanVars, hubVars, dashVars,
                       wizardVars, commandVars, logVars, shownVars, scene>>
=============================================================================
