------------------------------ MODULE MCProject -----------------------------
(* What programs and commands do with a project, one scene at a time: the   *)
(* runs of its agents and the memory they keep, with two runs and two       *)
(* agents, no fault or one kind of fault; the commands that change its      *)
(* files; drivers built from engine profiles, by runs side by side and by a *)
(* resolver; scripts without a project; conversations; and the task board   *)
(* with its whole surface, the search of add taken step by step, for one    *)
(* actor and two entries that may depend on any.  The scenes share no       *)
(* state.                                                                   *)
EXTENDS AgentLife, Workspace, Script, ChatSession, CycleSearch

CONSTANTS r1, r2, a1, t1, t2

VARIABLE scene   \* which of them, never changed

MCFaultSets == {{}} \cup {{f} : f \in Fault}

MCProfile(provider, model, key, fallbacks) ==
  [provider |-> provider, model |-> model, key |-> key, fallbacks |-> fallbacks,
   endpoint |-> FALSE, command |-> FALSE]

\* A command-line agent with a model of its own, another that falls back on
\* Google, and Google, with a key, falling back on the default.
MCProfiles == {MCProfile("cli", "m1", "variable", <<>>),
               MCProfile("cli", "m2", "variable", <<"google">>),
               MCProfile("google", NoModel, "variable", <<"default">>)}
MCWorlds   == [variable : BOOLEAN, providerKey : {FALSE}, installed : {TRUE}]
MCAsks     == <<NoEngine, "google">>
MCEnv      == <<[var |-> "GOOGLE_API_KEY", engine |-> "google"],
                [var |-> "GEMINI_API_KEY", engine |-> "google"]>>

MCScriptProfiles == {MCProfile("openai", "m1", "literal", <<>>),
                     MCProfile("anthropic", "m1", "none", <<>>),
                     MCProfile("unknown", "m1", "literal", <<>>)}

\* Of a project, of the builder of drivers, and of scripts.
MCRun == {r1, r2}
ProjectSymmetry == Permutations(MCRun)

MCActorApi == {a1}
MCTaskApi == {t1, t2}
MCPayload == [status : {"pending"}, assigned_to : {NoOne}, labels : {{}},
              depends_on : SUBSET MCTaskApi, claimed_by : {NoOne}]

\* Choices of the scenes that are not on are made once.
ProjectInit ==
  /\ LifeInit /\ WorkspaceInit /\ EnginesInit /\ ScriptInit /\ ChatInit
  /\ SearchInit
  /\ scene \in {"runs", "commands", "engines", "script", "chat", "board"}
  /\ scene # "runs" => faults = {}
  /\ scene # "commands" => template = "project"
  /\ scene # "engines" => ~world.variable /\ profileOf = [e \in Engine |-> NoProfile]
  /\ scene # "chat" => mode = "chat" /\ present = {}

\* Everything stays as it is but for the scene that is on.
Only(on) ==
  /\ scene = on /\ UNCHANGED scene
  /\ IF on = "runs" THEN TRUE ELSE UNCHANGED lifeVars
  /\ IF on = "commands" THEN TRUE ELSE UNCHANGED workspaceVars
  /\ IF on = "engines" THEN TRUE ELSE UNCHANGED engineVars
  /\ IF on = "script" THEN TRUE ELSE UNCHANGED scriptVars
  /\ IF on = "chat" THEN TRUE ELSE UNCHANGED chatVars
  /\ IF on = "board" THEN TRUE ELSE UNCHANGED <<vars, searchVars>>

Runs       == Only("runs") /\ LifeNext
Commanding == Only("commands") /\ WorkspaceNext
Building   == Only("engines") /\ EnginesNext
Scripting  == Only("script") /\ ScriptNext
Talking    == Only("chat") /\ ChatNext
BoardApi   == Only("board") /\ SearchNext

ProjectNext == Runs \/ Commanding \/ Building \/ Scripting \/ Talking \/ BoardApi

ProjectSpec ==
  ProjectInit
  /\ [][ProjectNext]_<<lifeVars, workspaceVars, engineVars, scriptVars, chatVars,
                       vars, searchVars, scene>>
=============================================================================
