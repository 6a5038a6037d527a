-------------------------------- MODULE Engines ------------------------------
(***************************************************************************)
(* From the engine profiles of a configuration to drivers.                 *)
(*                                                                         *)
(* A run builds a fresh driver for each of its agents, one agent after the *)
(* other; reading the agent's prompt lets another run of the process build *)
(* in between.  A program that uses the library may keep a resolver: its   *)
(* drivers are cached, and an engine that fails is replaced by the first   *)
(* of its fallbacks that does not.  The command of a command-line agent    *)
(* without one of its own is a list of the module, shared by all.          *)
(*                                                                         *)
(* A profile is its provider, its model, its key, its fallbacks, and       *)
(* whether it gives an endpoint or a command.  The keys themselves, the    *)
(* variables the process keeps them in and the numbers are left out; one   *)
(* variable stands for those that keys refer to, one for those that the    *)
(* providers' libraries read, and one command-line provider for three.     *)
(***************************************************************************)
EXTENDS FiniteSets, FiniteSetsExt, Naturals, SequencesExt

CONSTANTS Engine, Model, NoModel, NoEngine, NoProfile, NoDriver,
          DefaultProfile,    \* "default", what an agent without a profile runs on
          Profiles,          \* the profiles engines may have
          Worlds,            \* what a process may find around it
          BuildRun,          \* the runs
          Asks,              \* the profiles the agents of a run name, in order
          EnvMappings,       \* <<[var, engine], ...>>, in the order of the code
          LocalServers,      \* the engines of known local servers
          MaxEdits, MaxCalls \* bounds: changes of the configuration, calls for drivers or lists

\* _PROVIDER_TO_DRIVER: a name that is not there has no driver.
Provider == {"openai-compat", "openai", "anthropic", "google", "litellm", "cli"}

\* key: none, the key itself, or a reference to a variable.
Profile == [provider : Provider \cup {"unknown"}, model : Model \cup {NoModel},
            key : {"none", "literal", "variable"}, fallbacks : Seq(Engine),
            endpoint : BOOLEAN, command : BOOLEAN]

ASSUME ProfileAssumption ==
  /\ Worlds \subseteq [variable : BOOLEAN, providerKey : BOOLEAN, installed : BOOLEAN]
  /\ Profiles \subseteq Profile /\ NoProfile \notin Profiles
  /\ DefaultProfile \in Engine /\ NoEngine \notin Engine
  /\ MaxEdits \in Nat /\ MaxCalls \in Nat
  /\ Asks \in Seq(Engine \cup {NoEngine})
  /\ \A i \in DOMAIN EnvMappings : EnvMappings[i].engine \notin LocalServers
  /\ NoDriver \notin [engine : Engine, profile : Profiles, models : Seq(Model)]

VARIABLES world,    \* what the process finds around it, never changed
          profileOf,   \* the profiles now
          command,  \* the models given to the shared command so far
          pool,     \* the resolver kept: the backend and the driver of each engine
          answer,   \* of the last step: the driver of a chain, or lists of engines
          building, \* how far a run is
          held,     \* the configuration a run has loaded
          drivers,  \* those a run has built, with the profiles they are for
          edits, calls

engineVars == <<world, profileOf, command, pool, answer, building, held, drivers, edits, calls>>

Configuration == [Engine -> Profiles \cup {NoProfile}]
Unresolved == [backend |-> NoProfile, models |-> <<>>, driver |-> NoDriver]
NoAnswer == [chain |-> <<>>, got |-> NoEngine, lists |-> {}]

EnginesTypeOK ==
  /\ world \in Worlds
  /\ profileOf \in Configuration /\ edits \in 0..MaxEdits /\ calls \in 0..MaxCalls
  /\ DOMAIN pool = Engine /\ DOMAIN held = BuildRun /\ DOMAIN drivers = BuildRun
  /\ building \in [BuildRun -> {"idle", "building", "built", "failed"}]

EnginesInit ==
  /\ world \in Worlds
  /\ profileOf \in Configuration
  /\ command = <<>> /\ pool = [e \in Engine |-> Unresolved] /\ answer = NoAnswer
  /\ building = [r \in BuildRun |-> "idle"]
  /\ held = [r \in BuildRun |-> [e \in Engine |-> NoProfile]]
  /\ drivers = [r \in BuildRun |-> <<>>]
  /\ edits = 0 /\ calls = 0

-----------------------------------------------------------------------------
\* A backend from a profile, a driver from a backend.

\* A reference to a variable that is not set is no key.
HasKey(p) == p.key = "literal" \/ (p.key = "variable" /\ world.variable)

OwnModels(p) == IF p.model = NoModel THEN <<>> ELSE <<p.model>>

\* Variant: the option is put before those that are there.
ExtendFront(p, line) ==
  IF p.provider = "cli" /\ ~p.command THEN OwnModels(p) \o line ELSE line

\* command.extend(["-m", model]), in place, on the list of the module.
Extend(p, line) ==
  IF p.provider = "cli" /\ ~p.command THEN line \o OwnModels(p) ELSE line

\* The backend keeps a copy of the command as it is now.
BackendModels(p, line) ==
  IF p.provider = "cli" /\ ~p.command THEN line ELSE OwnModels(p)

\* Without a key of its own the library looks for the provider's; a local
\* endpoint gets a sentinel, OpenAI's is refused.
OpenAiFactory(p) == HasKey(p) \/ world.providerKey \/ p.endpoint

\* The packages are optional; the library of Google wants a key at once.
AnthropicFactory(p) == world.installed
GoogleFactory(p)    == world.installed /\ (HasKey(p) \/ world.providerKey)

\* A client without a key is made too, and without an endpoint of its own it
\* asks the public one; the command of an engine is never empty.
AgentApiFactory(p) == p.provider = "openai-compat"
CliFactory(p)      == p.provider = "cli"

\* LiteLLM has no factory.
Makes(p) ==
  CASE p.provider = "openai"        -> OpenAiFactory(p)
    [] p.provider = "anthropic"     -> AnthropicFactory(p)
    [] p.provider = "google"        -> GoogleFactory(p)
    [] OTHER -> AgentApiFactory(p) \/ CliFactory(p)

\* Is there a backend for it at all?
Mapped(p) == p # NoProfile /\ p.provider \in Provider

Driver(e, p, models) == [engine |-> e, profile |-> p, models |-> models]

-----------------------------------------------------------------------------
\* The runs of the process.

Apart == UNCHANGED <<world, profileOf, pool, edits, calls>> /\ answer' = NoAnswer

StartBuilding(r) ==
  /\ building[r] = "idle"
  /\ building' = [building EXCEPT ![r] = "building"]
  /\ held' = [held EXCEPT ![r] = profileOf]
  /\ UNCHANGED <<command, drivers>> /\ Apart

\* The engine of the agent that is next.
Wanted(r) == LET ask == Asks[Len(drivers[r]) + 1] IN IF ask = NoEngine THEN DefaultProfile ELSE ask

Fails(r) == building' = [building EXCEPT ![r] = "failed"] /\ UNCHANGED drivers

\* create_fresh_driver: the command is extended though the factory may then fail.
FreshDriver(r) ==
  /\ building[r] = "building" /\ Len(drivers[r]) < Len(Asks)
  /\ LET e == Wanted(r)
         p == held[r][e]
     IN IF ~Mapped(p) THEN Fails(r) /\ UNCHANGED command
        ELSE /\ command' = Extend(p, command)
             /\ IF Makes(p)
                THEN /\ drivers' = [drivers EXCEPT ![r] =
                            Append(@, Driver(e, p, BackendModels(p, command')))]
                     /\ UNCHANGED building
                ELSE Fails(r)
  /\ UNCHANGED held /\ Apart

\* _build_agent_runtimes returns; the agents' lives are in AgentLife.
Built(r) ==
  /\ building[r] = "building" /\ Len(drivers[r]) = Len(Asks)
  /\ building' = [building EXCEPT ![r] = "built"]
  /\ UNCHANGED <<command, held, drivers>> /\ Apart

-----------------------------------------------------------------------------
\* The resolver that is kept.

\* The registration of a profile stays as it was first made.
AddBackend(e, s) ==
  IF s.pool[e].backend # NoProfile THEN s
  ELSE LET p == profileOf[e]
           line == Extend(p, s.command)
           added == [backend |-> p, models |-> BackendModels(p, line), driver |-> NoDriver]
       IN [s EXCEPT !.command = line, !.pool = [@ EXCEPT ![e] = added]]

\* The driver is made once.
GetDriver(e, s) ==
  LET kept == s.pool[e] IN
  IF kept.driver # NoDriver \/ ~Makes(kept.backend) THEN s
  ELSE LET made == [kept EXCEPT !.driver = Driver(e, kept.backend, kept.models)]
       IN [s EXCEPT !.pool = [@ EXCEPT ![e] = made]]

\* The profile is looked up anew each time, what it says only the first time.
Resolved(e, s) ==
  IF profileOf[e] = NoProfile THEN s
  ELSE IF s.pool[e].backend = NoProfile /\ ~Mapped(profileOf[e]) THEN s
  ELSE LET done == GetDriver(e, AddBackend(e, s))
       IN [done EXCEPT !.got = IF done.pool[e].driver = NoDriver THEN @ ELSE e]

Taken(s) ==
  /\ pool' = s.pool /\ command' = s.command
  /\ calls' = calls + 1
  /\ UNCHANGED <<world, profileOf, building, held, drivers, edits>>

Untried == [pool |-> pool, command |-> command, got |-> NoEngine]

Resolve(e) ==
  /\ calls < MaxCalls
  /\ Taken(Resolved(e, Untried))
  /\ answer' = NoAnswer

\* The engine, then its fallbacks; what they fall back on does not count.
Chain(e) == <<e>> \o profileOf[e].fallbacks

\* One engine after the other, until one has a driver.
AfterChain(chain) ==
  LET tried[i \in 0..Len(chain)] ==
        IF i = 0 THEN Untried
        ELSE IF tried[i - 1].got = NoEngine THEN Resolved(chain[i], tried[i - 1])
        ELSE tried[i - 1]
  IN tried[Len(chain)]

ResolveWithFallbacks(e) ==
  /\ calls < MaxCalls /\ profileOf[e] # NoProfile
  /\ LET done == AfterChain(Chain(e))
     IN Taken(done) /\ answer' = [chain |-> Chain(e), got |-> done.got, lists |-> {}]

-----------------------------------------------------------------------------
\* Engines nobody configured: those of variables that are set, and those of
\* local servers that answer.  An engine is given by where it comes from.

From(source, name) == [source |-> source, name |-> name]

\* Two tables merged: what the first has wins.
Overlaid(f, g) == [x \in DOMAIN f \cup DOMAIN g |-> IF x \in DOMAIN f THEN f[x] ELSE g[x]]

\* The first variable that is set names the engine.
DiscoverFromEnv(set) ==
  LET hits == {i \in DOMAIN EnvMappings : EnvMappings[i].var \in set}
  IN [n \in {EnvMappings[i].engine : i \in hits} |->
        From("env", EnvMappings[Min({i \in hits : EnvMappings[i].engine = n})].var)]

DiscoverLocalServers(up) == [n \in LocalServers \cap up |-> From("local", n)]

DiscoverAll(set, up) == Overlaid(DiscoverFromEnv(set), DiscoverLocalServers(up))

Explicit == [e \in {x \in Engine : profileOf[x] # NoProfile} |-> From("yaml", e)]

ResolveWithDiscovery(set, up) == Overlaid(Explicit, DiscoverAll(set, up))

\* Names first, with the source that has the last word, then their profiles.
ListAvailableEngines(set, up) ==
  LET local == DiscoverLocalServers(up)
      env == DiscoverFromEnv(set)
      found == Overlaid([n \in DOMAIN env |-> "env"], [n \in DOMAIN local |-> "local"])
      all == Overlaid([n \in DOMAIN Explicit |-> "yaml"], found)
  IN [n \in DOMAIN all |-> IF all[n] = "yaml" THEN Explicit[n]
                           ELSE IF all[n] = "env" THEN env[n] ELSE local[n]]

\* The dashboard reads the file itself and adds what is not in it.
GetEngines(set, up) ==
  LET available == ListAvailableEngines(set, up)
  IN Overlaid(Explicit, [n \in DOMAIN available \ DOMAIN Explicit |-> available[n]])

\* `engine discover' shows both kinds, whatever the file has.
EngineDiscover(set, up) ==
  {[name |-> n, of |-> DiscoverLocalServers(up)[n]] : n \in DOMAIN DiscoverLocalServers(up)}
  \cup {[name |-> n, of |-> DiscoverFromEnv(set)[n]] : n \in DOMAIN DiscoverFromEnv(set)}

\* The resolver's merge, its list and the dashboard's; what variables and
\* servers give is looked up each time.
ListEngines(set, up) ==
  /\ calls < MaxCalls /\ calls' = calls + 1
  /\ answer' = [NoAnswer EXCEPT !.lists =
                  {[merged |-> ResolveWithDiscovery(set, up), shown |-> GetEngines(set, up),
                    listed |-> ListAvailableEngines(set, up),
                    found |-> EngineDiscover(set, up)]}]
  /\ UNCHANGED <<world, profileOf, command, pool, building, held, drivers, edits>>

-----------------------------------------------------------------------------
\* Another command changes the file; a program loads it again.
ConfigEdited ==
  /\ edits < MaxEdits
  /\ \E e \in Engine, p \in Profiles \cup {NoProfile} :
        p # profileOf[e] /\ profileOf' = [profileOf EXCEPT ![e] = p]
  /\ edits' = edits + 1 /\ answer' = NoAnswer
  /\ UNCHANGED <<world, command, pool, building, held, drivers, calls>>

EnginesNext ==
  \/ \E r \in BuildRun : StartBuilding(r) \/ FreshDriver(r) \/ Built(r)
  \/ \E e \in Engine : Resolve(e) \/ ResolveWithFallbacks(e)
  \/ \E set \in SUBSET {EnvMappings[i].var : i \in DOMAIN EnvMappings},
        up \in SUBSET LocalServers : ListEngines(set, up)
  \/ ConfigEdited

EnginesSpec == EnginesInit /\ [][EnginesNext]_engineVars

-----------------------------------------------------------------------------
\* Whatever was built in this process before, a driver of a profile with a
\* model asks that model: it is the last the command names.  A driver without
\* a shared command names no model but its profile's.
OwnModelLast ==
  \A r \in BuildRun : \A i \in DOMAIN drivers[r] :
     LET d == drivers[r][i] IN
     /\ d.profile = held[r][d.engine]
     /\ d.profile.model # NoModel => d.models # <<>> /\ Last(d.models) = d.profile.model
     /\ d.profile.provider # "cli" \/ d.profile.command => d.models = OwnModels(d.profile)

\* The driver that comes back is of the first engine in the chain that is
\* configured and has one.
ResolvedInOrder ==
  LET able == {i \in DOMAIN answer.chain : /\ profileOf[answer.chain[i]] # NoProfile
                                          /\ pool[answer.chain[i]].driver # NoDriver}
  IN answer.got = IF able = {} THEN NoEngine ELSE answer.chain[Min(able)]

\* Every list of engines gives a name the engine that the merge gives it.
ListedAsMerged ==
  \A list \in answer.lists :
     /\ list.listed = list.merged /\ list.shown = list.merged
     /\ \A entry \in list.found :
           entry.name \in DOMAIN Explicit \/ list.merged[entry.name] = entry.of

\* Whatever a process has built before and whatever it finds around it, an
\* engine is what its profile says (engine_resolver.py: "explicit wins", "First
\* successfully resolved driver"): a driver asks its profile's model, fallbacks
\* are taken in their order, and every list of engines agrees with the merge.
EnginesFit == OwnModelLast /\ ResolvedInOrder /\ ListedAsMerged
=============================================================================
