------------------------------ MODULE Workspace ------------------------------
(***************************************************************************)
(* The files of a workspace: miniautogen.yaml with its engines and flows,  *)
(* agents/<name>.yaml, pipelines/<name>.py; and the commands that change   *)
(* them, from the command line, the console and the tools of a lead agent. *)
(*                                                                         *)
(* A command reads the files, checks its request against them and gives up *)
(* or drafts the new text of one file, which it writes beside the old one  *)
(* (path.yaml.tmp) and then puts in its place.  It may fail or its process *)
(* may die at any point.  Commands of one process run one after the other: *)
(* the services never await.  Commands of two processes that overlap share *)
(* path.yaml.tmp and overwrite each other; they are not modelled.          *)
(*                                                                         *)
(* Flows created by a command have a target; the one of the template       *)
(* `quickstart' has none, and must have members for load_config to accept  *)
(* the file.  Modes, their other requirements, `lead' and `router', models *)
(* and texts are left out, and so are the hand edits of files.  `init'     *)
(* writes in place: of what it may leave half written only the             *)
(* configuration is kept, its agents and modules are written at once.  The *)
(* temporary file of a dead command is overwritten by the next.            *)
(***************************************************************************)
EXTENDS FiniteSets, Naturals

CONSTANTS EngineName, AgentName, FlowName, None,
          DefaultEngine, MainFlow, Sample,  \* what a template furnishes
          MaxEntries   \* bound: agents and flows there may be when one is created

ASSUME NameAssumption ==
  /\ DefaultEngine \in EngineName /\ MainFlow \in FlowName /\ Sample \in AgentName
  /\ None \notin EngineName \cup AgentName \cup FlowName

VARIABLES template,  \* the template `init' is given, never changed
          root,      \* the project directory exists
          config,    \* miniautogen.yaml
          agents,    \* the engine each agent's file names, None without a file
          modules,   \* the flows with a module under pipelines/
          job        \* the command under way and the files as it will leave them

workspaceVars == <<template, root, config, agents, modules, job>>

\* here: is there such a flow?  built: it has a target.
FlowText == [here : BOOLEAN, members : SUBSET AgentName,
             leader : AgentName \cup {None}, chain : SUBSET FlowName, built : BOOLEAN]
NoFlow   == [here |-> FALSE, members |-> {}, leader |-> None, chain |-> {}, built |-> FALSE]

Configs == [text : {"absent", "whole", "torn"}, engines : SUBSET EngineName,
            flows : [FlowName -> FlowText]]
Broken(text) == [text |-> text, engines |-> {}, flows |-> [f \in FlowName |-> NoFlow]]
NoAgents == [a \in AgentName |-> None]

\* fresh: a failed `init' will remove the directory.
Idle == [at |-> "idle", config |-> Broken("absent"), agents |-> NoAgents,
         flow |-> None, fresh |-> FALSE]
Stage == {"idle", "checked", "open", "module", "config", "agent", "main"}

WorkspaceTypeOK ==
  /\ template \in {"project", "quickstart"} /\ root \in BOOLEAN
  /\ config \in Configs
  /\ agents \in [AgentName -> EngineName \cup {None}]
  /\ modules \subseteq FlowName
  /\ job \in [at : Stage, config : Configs, agents : [AgentName -> EngineName \cup {None}],
              flow : FlowName \cup {None}, fresh : BOOLEAN]

WorkspaceInit ==
  /\ template \in {"project", "quickstart"} /\ root = FALSE
  /\ config = Broken("absent") /\ agents = NoAgents /\ modules = {}
  /\ job = Idle

Agents == {a \in AgentName : agents[a] # None}
Flows  == {f \in FlowName : config.flows[f].here}

\* load_config accepts the file; every command of the command line starts so.
Loadable ==
  /\ config.text = "whole"
  /\ \A f \in Flows : config.flows[f].built \/ config.flows[f].members # {}

-----------------------------------------------------------------------------
\* Writing a file.

\* No other command of the process is under way, and there is a workspace: a
\* console, a lead agent and the command line start by loading it.
Ready == job.at = "idle" /\ config.text = "whole"

Draft(text, files, flow, at) ==
  /\ job' = [at |-> at, config |-> text, agents |-> files, flow |-> flow, fresh |-> FALSE]
  /\ UNCHANGED <<template, root, config, agents, modules>>

DraftConfig(text) == Draft(text, agents, None, "checked")
DraftAgent(a, e)  == Draft(config, [agents EXCEPT ![a] = e], None, "checked")

\* The old file is copied to path.yaml.bak, path.yaml.tmp is opened.
OpenDraft ==
  /\ job.at = "checked"
  /\ job' = [job EXCEPT !.at = "open"]
  /\ UNCHANGED <<template, root, config, agents, modules>>

\* tmp.replace(path).  A flow just created gets a module if it has none.
ReplaceFile ==
  /\ job.at = "open"
  /\ config' = job.config /\ agents' = job.agents
  /\ job' = IF job.flow \in modules \cup {None} THEN Idle ELSE [job EXCEPT !.at = "module"]
  /\ UNCHANGED <<template, root, modules>>

WriteModule ==
  /\ job.at = "module"
  /\ modules' = modules \cup {job.flow}
  /\ job' = Idle
  /\ UNCHANGED <<template, root, config, agents>>

\* A disk that is full, a right that is missing, a process that dies: the
\* draft is lost, what has been replaced stays.
GiveUp ==
  /\ job.at \in {"checked", "open", "module"}
  /\ job' = Idle
  /\ UNCHANGED <<template, root, config, agents, modules>>
-----------------------------------------------------------------------------
\* The services: what a request must satisfy, and what it drafts.

CreateEngine(e) ==
  /\ Ready /\ e \notin config.engines
  /\ DraftConfig([config EXCEPT !.engines = @ \cup {e}])

\* The bound.
Room == Cardinality(Agents) + Cardinality(Flows) < MaxEntries

\* Provider, model and the like of an engine.
UpdateEngine(e) ==
  /\ Ready /\ e \in config.engines
  /\ DraftConfig(config)

\* The check of the default engine reads a key nobody writes.
DeleteEngine(e) ==
  /\ Ready /\ e \in config.engines
  /\ \A a \in AgentName : agents[a] # e
  /\ DraftConfig([config EXCEPT !.engines = @ \ {e}])

CreateAgent(a, e) ==
  /\ Ready /\ agents[a] = None /\ Room
  /\ e \in config.engines
  /\ DraftAgent(a, e)

\* With None for e the engine stays.
UpdateAgent(a, e) ==
  /\ Ready /\ agents[a] # None
  /\ e \in config.engines \cup {None}
  /\ DraftAgent(a, IF e = None THEN agents[a] ELSE e)

\* Variant: the leaders are forgotten.
DeleteAgentOfLeaders(a) ==
  /\ Ready /\ agents[a] # None
  /\ \A f \in Flows : a \notin config.flows[f].members
  /\ agents' = [agents EXCEPT ![a] = None]
  /\ UNCHANGED <<template, root, config, modules, job>>

\* The file is removed at once.
DeleteAgent(a) ==
  /\ Ready /\ agents[a] # None
  /\ \A f \in Flows : a \notin config.flows[f].members /\ a # config.flows[f].leader
  /\ agents' = [agents EXCEPT ![a] = None]
  /\ UNCHANGED <<template, root, config, modules, job>>

CreateFlow(f, members, leader, chain) ==
  /\ Ready /\ ~config.flows[f].here /\ Room
  /\ members \subseteq Agents /\ leader \in Agents \cup {None} /\ chain \subseteq Flows
  /\ Draft([config EXCEPT !.flows[f] = [here |-> TRUE, members |-> members,
              leader |-> leader, chain |-> chain, built |-> TRUE]], agents, f, "checked")

\* Members after add_participant, remove_participant and participants; the last
\* is {} when it is not given, and else the set of the members given.
Replaced(old, add, remove, given) ==
  IF given = {} THEN (old \cup ({add} \ {None})) \ {remove} ELSE UNION given

\* None stands for a parameter that is not given.
UpdateFlow(f, add, remove, given, leader, target) ==
  /\ Ready /\ config.flows[f].here
  /\ {add, leader} \subseteq Agents \cup {None}
  /\ UNION given \subseteq Agents
  /\ LET old == config.flows[f] IN
     DraftConfig([config EXCEPT !.flows[f] =
       [old EXCEPT !.members = Replaced(old.members, add, remove, given),
                   !.leader = IF leader = None THEN @ ELSE leader,
                   !.built = @ \/ target]])

DeleteFlow(f) ==
  /\ Ready /\ config.flows[f].here
  /\ \A g \in Flows \ {f} : f \notin config.flows[g].chain
  /\ DraftConfig([config EXCEPT !.flows[f] = NoFlow])

-----------------------------------------------------------------------------
\* init: the files of the template, those that are missing.

TemplateConfig ==
  [text |-> "whole", engines |-> {DefaultEngine},
   flows |-> [f \in FlowName |->
     IF f # MainFlow THEN NoFlow
     ELSE [NoFlow EXCEPT !.here = TRUE, !.built = (template = "project"),
                         !.members = IF template = "project" THEN {} ELSE {Sample}]]]

\* The order of the files; `quickstart' has no module.
After(at) ==
  IF template = "project"
  THEN [start |-> "config", config |-> "agent", agent |-> "main", main |-> "idle"][at]
  ELSE [start |-> "agent", agent |-> "config", config |-> "idle", main |-> "idle"][at]

Furnished(at) ==
  job' = IF After(at) = "idle" THEN Idle ELSE [job EXCEPT !.at = After(at)]

\* Variant: nothing that fails is kept, as with the other template.
ScaffoldFresh ==
  /\ job.at = "idle"
  /\ job' = [Idle EXCEPT !.at = After("start"), !.fresh = TRUE]
  /\ root' = TRUE
  /\ UNCHANGED <<template, config, agents, modules>>

\* A directory that is not empty takes --force.  With `quickstart', created_new
\* is true whatever was there.
Scaffold ==
  /\ job.at = "idle"
  /\ job' = [Idle EXCEPT !.at = After("start"), !.fresh = (template = "quickstart" \/ ~root)]
  /\ root' = TRUE
  /\ UNCHANGED <<template, config, agents, modules>>

FurnishConfig ==
  /\ job.at = "config" /\ Furnished("config")
  /\ config' = IF config.text = "absent" THEN TemplateConfig ELSE config
  /\ UNCHANGED <<template, root, agents, modules>>

\* --no-examples leaves the agent of `project' out.
FurnishAgent ==
  /\ job.at = "agent" /\ Furnished("agent")
  /\ \/ agents' = [agents EXCEPT ![Sample] = IF @ = None THEN DefaultEngine ELSE @]
     \/ template = "project" /\ UNCHANGED agents
  /\ UNCHANGED <<template, root, config, modules>>

FurnishModule ==
  /\ job.at = "main" /\ Furnished("main")
  /\ modules' = modules \cup {MainFlow}
  /\ UNCHANGED <<template, root, config, agents>>

\* The configuration may be cut short while it is written.
CutShort ==
  \/ config' = config
  \/ job.at = "config" /\ config.text = "absent" /\ config' = Broken("torn")

\* shutil.rmtree, if the directory counts as created by this call.
ScaffoldFails ==
  /\ job.at \in {"config", "agent", "main"}
  /\ job' = Idle
  /\ IF job.fresh
     THEN /\ root' = FALSE /\ config' = Broken("absent")
          /\ agents' = NoAgents /\ modules' = {}
     ELSE CutShort /\ UNCHANGED <<root, agents, modules>>
  /\ UNCHANGED template

ScaffoldDies ==
  /\ job.at \in {"config", "agent", "main"}
  /\ job' = Idle
  /\ CutShort
  /\ UNCHANGED <<template, root, agents, modules>>

-----------------------------------------------------------------------------
\* Who may ask for what.

\* The tools of a lead agent, called from its turns.
AgentTools ==
  \E a \in AgentName : \/ DeleteAgent(a)
                       \/ \E e \in EngineName : CreateAgent(a, e)
                       \/ \E e \in EngineName \cup {None} : UpdateAgent(a, e)

FlowTools ==
  \E f \in FlowName :
     \/ DeleteFlow(f)
     \/ \E ms \in SUBSET AgentName, l \in AgentName \cup {None} : CreateFlow(f, ms, l, {})

\* The routes of the console; one request is served at a time.
AgentRoutes ==
  \E a \in AgentName : \/ DeleteAgent(a)
                       \/ \E e \in EngineName : CreateAgent(a, e)
                       \/ \E e \in EngineName \cup {None} : UpdateAgent(a, e)

EngineRoutes == \E e \in EngineName : CreateEngine(e) \/ UpdateEngine(e) \/ DeleteEngine(e)

FlowRoutes ==
  \E f \in FlowName, l \in AgentName \cup {None} :
     \/ DeleteFlow(f)
     \/ \E ms \in SUBSET AgentName : CreateFlow(f, ms, l, {})
     \/ \E given \in {{}} \cup {{ms} : ms \in SUBSET AgentName}, target \in BOOLEAN :
           UpdateFlow(f, None, None, given, l, target)

\* The dashboard; its wizards create, its panes delete, its form updates.
NewCommands ==
  \/ \E e \in EngineName : CreateEngine(e)
  \/ \E a \in AgentName, e \in EngineName : CreateAgent(a, e)
  \/ \E f \in FlowName, ms \in SUBSET AgentName, l \in AgentName \cup {None} :
        CreateFlow(f, ms, l, {})

EnginesPane == \E e \in EngineName : DeleteEngine(e)
AgentsPane  == \E a \in AgentName : DeleteAgent(a)
FlowsPane   == \E f \in FlowName : DeleteFlow(f)
AgentForm   == \E a \in AgentName, e \in EngineName : UpdateAgent(a, e)

\* The command line, which loads the configuration first.
CreateAgentCommand ==
  Loadable /\ \E a \in AgentName, e \in EngineName : CreateAgent(a, e)

ChangeAgentCommands ==
  /\ Loadable
  /\ \E a \in AgentName : \/ DeleteAgent(a)
                          \/ \E e \in EngineName \cup {None} : UpdateAgent(a, e)

CreateEngineCommand == Loadable /\ \E e \in EngineName : CreateEngine(e)

ChangeEngineCommands ==
  Loadable /\ \E e \in EngineName : UpdateEngine(e) \/ DeleteEngine(e)

\* A composite flow chains flows, the others have members.
CreateFlowCommand ==
  /\ Loadable
  /\ \E f \in FlowName, l \in AgentName \cup {None} :
        \/ \E ms \in SUBSET AgentName : CreateFlow(f, ms, l, {})
        \/ \E chain \in SUBSET FlowName : CreateFlow(f, {}, l, chain)

\* --participants names at least one agent.
UpdateFlowCommand ==
  /\ Loadable
  /\ \E f \in FlowName, add, remove, l \in AgentName \cup {None},
        given \in {{}} \cup {{ms} : ms \in (SUBSET AgentName) \ {{}}} :
        UpdateFlow(f, add, remove, given, l, FALSE)

DeleteFlowCommand == Loadable /\ \E f \in FlowName : DeleteFlow(f)

InitCommand ==
  Scaffold \/ FurnishConfig \/ FurnishAgent \/ FurnishModule \/ ScaffoldFails \/ ScaffoldDies

Commands ==
  \/ AgentTools \/ FlowTools
  \/ AgentRoutes \/ EngineRoutes \/ FlowRoutes
  \/ NewCommands \/ EnginesPane \/ AgentsPane \/ FlowsPane \/ AgentForm
  \/ CreateAgentCommand \/ ChangeAgentCommands
  \/ CreateEngineCommand \/ ChangeEngineCommands
  \/ CreateFlowCommand \/ UpdateFlowCommand \/ DeleteFlowCommand
  \/ InitCommand

WorkspaceNext == Commands \/ OpenDraft \/ ReplaceFile \/ WriteModule \/ GiveUp
WorkspaceSpec == WorkspaceInit /\ [][WorkspaceNext]_workspaceVars

-----------------------------------------------------------------------------
\* What `check' finds in order: an agent's engine, and a flow's participants and
\* leader.  Skills, tools and the shape of a file are left out.
CheckAgents == \A a \in Agents : agents[a] \in config.engines \cup {DefaultEngine}

CheckPipelineParticipants ==
  \A f \in Flows : /\ config.flows[f].members \subseteq Agents
                   /\ config.flows[f].leader \in Agents \cup {None}

ChainsResolve == \A f \in Flows : config.flows[f].chain \subseteq Flows

\* What check_project looks for holds at every moment, in the middle of a
\* command and after one that failed or died: an agent's engine is defined or
\* is the default, and the members, leader and chained flows of a flow exist.
Consistent == CheckAgents /\ CheckPipelineParticipants /\ ChainsResolve

\* The files are a registry: every command takes effect whole or not at all,
\* only where nothing is left pointing at what is gone, and `init' takes back
\* no more than it brought unless the template is `quickstart'.
Tables == INSTANCE Registry WITH engines <- config.engines, flows <- config.flows

WorkspaceIsRegistry == Tables!Spec
=============================================================================
