-------------------------------- MODULE Script -------------------------------
(***************************************************************************)
(* The scripting mode: a builder that collects agents, and executions of   *)
(* flows over them, several at a time if the program likes.                *)
(*                                                                         *)
(* An execution checks the names it is given and builds a runtime for      *)
(* every agent of the builder, named or not, without a pause.  Keys are    *)
(* handed to the drivers through variables of the process, a fresh one for *)
(* each key, that are removed at the end.  Then it opens the runtimes one  *)
(* after the other, lets its coordination take turns with the agents it    *)
(* names, and closes them, whatever has happened.                          *)
(*                                                                         *)
(* Agents are numbered in the order they were first added.  The inside of  *)
(* a coordination is in the modules of the flows; here it is the turns it  *)
(* takes and how it comes back.  Prompts and texts are left out.           *)
(***************************************************************************)
EXTENDS Engines

CONSTANTS Execution,
          ScriptProfiles,   \* what agents may be added with
          MaxAgents,        \* bound: agents of the builder
          MaxAdds           \* bound: calls of add_agent and add_tool

ASSUME ScriptAssumption ==
  /\ ScriptProfiles \subseteq Profile /\ {MaxAgents, MaxAdds} \subseteq Nat
  /\ \A p \in ScriptProfiles : ~p.command /\ p.fallbacks = <<>> /\ p.key # "variable"

VARIABLES definitions,    \* of the builder: profile, and whether a tool is attached
          adds,
          execution, \* where each execution is
          plan,      \* what it is to do
          runtimes,  \* the agents as they were when it was built
          step,      \* the runtime that is opened or closed next
          live,      \* the runtimes with an open session
          called,    \* the agents that were asked
          environ,   \* the keys in the process: <<execution, agent>>
          outcome    \* what the caller gets

scriptVars == <<definitions, adds, execution, plan, runtimes, step, live, called, environ, outcome>>

AgentDef == [profile : ScriptProfiles, tools : BOOLEAN]
ScriptAgent == 1..MaxAgents
\* Who takes part, and who must have been asked before the flow is finished.
Plan == [named : SUBSET ScriptAgent, needed : SUBSET ScriptAgent]
NoPlan == [named |-> {}, needed |-> {}]

ScriptTypeOK ==
  /\ definitions \in Seq(AgentDef) /\ Len(definitions) <= MaxAgents /\ adds \in 0..MaxAdds
  /\ execution \in [Execution -> {"idle", "opening", "running", "closing", "over"}]
  /\ plan \in [Execution -> Plan] /\ step \in [Execution -> 1..MaxAgents + 1]
  /\ runtimes \in [Execution -> Seq(AgentDef)]
  /\ live \in [Execution -> SUBSET ScriptAgent] /\ called \in [Execution -> SUBSET ScriptAgent]
  /\ environ \subseteq Execution \X ScriptAgent
  /\ outcome \in [Execution -> {"none", "refused", "unbuilt", "finished", "failed", "cancelled"}]

ScriptInit ==
  /\ definitions = <<>> /\ adds = 0
  /\ execution = [x \in Execution |-> "idle"] /\ plan = [x \in Execution |-> NoPlan]
  /\ runtimes = [x \in Execution |-> <<>>] /\ step = [x \in Execution |-> 1]
  /\ live = [x \in Execution |-> {}] /\ called = [x \in Execution |-> {}]
  /\ environ = {} /\ outcome = [x \in Execution |-> "none"]

-----------------------------------------------------------------------------
\* The builder.

\* A name that is there already is defined anew, without its tools.
AddAgent(a, p) ==
  /\ adds < MaxAdds /\ a <= Len(definitions) + 1
  /\ definitions' = [i \in DOMAIN definitions \cup {a} |->
                   IF i = a THEN [profile |-> p, tools |-> FALSE] ELSE definitions[i]]
  /\ adds' = adds + 1
  /\ UNCHANGED <<execution, plan, runtimes, step, live, called, environ, outcome>>

\* An unknown name raises KeyError and changes nothing.
AddTool(a) ==
  /\ adds < MaxAdds /\ a \in DOMAIN definitions
  /\ definitions' = [definitions EXCEPT ![a].tools = TRUE]
  /\ adds' = adds + 1
  /\ UNCHANGED <<execution, plan, runtimes, step, live, called, environ, outcome>>

-----------------------------------------------------------------------------
\* Building the runtimes.

\* A provider of the map, with a factory for it.
Drivable(p) == p.provider \in {"openai", "anthropic", "google"}

\* A tool object is no definition with a handler, which is what the registry
\* takes: the call raises TypeError.
Registers(d) == ~d.tools

Buildable(d) == Drivable(d.profile) /\ Makes(d.profile) /\ Registers(d)

\* The keys put into the process until the first agent that cannot be built;
\* its own key is there before its driver is made.
KeysPut(x) ==
  LET Reached(i) == \A j \in 1..(i - 1) : Buildable(definitions[j])
      Keyed(i)   == definitions[i].profile.key = "literal" /\ Drivable(definitions[i].profile)
  IN {x} \X {i \in DOMAIN definitions : Reached(i) /\ Keyed(i)}

\* The names are checked first; then an agent that cannot be built, which need
\* not be one of them, raises before the block that cleans up is entered.
Execute(x, p) ==
  /\ execution[x] = "idle" /\ p.needed \subseteq p.named
  /\ IF ~p.named \subseteq DOMAIN definitions
     THEN /\ execution' = [execution EXCEPT ![x] = "over"]
          /\ outcome' = [outcome EXCEPT ![x] = "refused"]
          /\ UNCHANGED <<plan, runtimes, environ>>
     ELSE IF \E i \in DOMAIN definitions : ~Buildable(definitions[i])
     THEN /\ execution' = [execution EXCEPT ![x] = "over"]
          /\ outcome' = [outcome EXCEPT ![x] = "unbuilt"]
          /\ environ' = environ \cup KeysPut(x)
          /\ UNCHANGED <<plan, runtimes>>
     ELSE /\ execution' = [execution EXCEPT ![x] = "opening"]
          /\ runtimes' = [runtimes EXCEPT ![x] = definitions]
          /\ plan' = [plan EXCEPT ![x] = p]
          /\ environ' = environ \cup KeysPut(x)
          /\ UNCHANGED outcome
  /\ UNCHANGED <<definitions, adds, step, live, called>>

SingleRun(x) == \E a \in ScriptAgent : Execute(x, [named |-> {a}, needed |-> {a}])

\* Every step, and the synthesis if there is one, one after the other or not.
Workflow(x) ==
  \E named \in SUBSET ScriptAgent \ {{}} : Execute(x, [named |-> named, needed |-> named])

\* No document without the leader.
Deliberation(x) ==
  \E named \in SUBSET ScriptAgent, leader \in ScriptAgent :
     Execute(x, [named |-> named \cup {leader}, needed |-> {leader}])

\* No route without the router.
Loop(x) ==
  \E named \in SUBSET ScriptAgent, router \in ScriptAgent :
     Execute(x, [named |-> named \cup {router}, needed |-> {router}])

-----------------------------------------------------------------------------
\* An execution.

Close(x) == execution' = [execution EXCEPT ![x] = "closing"] /\ step' = [step EXCEPT ![x] = 1]

Initialize(x) ==
  /\ execution[x] = "opening" /\ step[x] <= Len(runtimes[x])
  /\ live' = [live EXCEPT ![x] = @ \cup {step[x]}]
  /\ step' = [step EXCEPT ![x] = @ + 1]
  /\ UNCHANGED <<definitions, adds, execution, plan, runtimes, called, environ, outcome>>

\* The coordination begins.
Coordinate(x) ==
  /\ execution[x] = "opening" /\ step[x] > Len(runtimes[x])
  /\ execution' = [execution EXCEPT ![x] = "running"]
  /\ UNCHANGED <<definitions, adds, plan, runtimes, step, live, called, environ, outcome>>

\* An agent that is asked again, or for a review, is asked.
Ask(x, a) ==
  /\ execution[x] = "running" /\ a \in plan[x].named \ called[x]
  /\ called' = [called EXCEPT ![x] = @ \cup {a}]
  /\ UNCHANGED <<definitions, adds, execution, plan, runtimes, step, live, environ, outcome>>

\* A result of the coordination, of whatever status it is.
Returns(x) ==
  /\ execution[x] = "running"
  /\ \/ plan[x].needed \subseteq called[x] /\ outcome' = [outcome EXCEPT ![x] = "finished"]
     \/ outcome' = [outcome EXCEPT ![x] = "failed"]
  /\ Close(x)
  /\ UNCHANGED <<definitions, adds, plan, runtimes, live, called, environ>>

\* Variant: what was opened is closed after success only.
RaisesOut(x) ==
  /\ execution[x] \in {"opening", "running"}
  /\ outcome' \in {[outcome EXCEPT ![x] = o] : o \in {"failed", "cancelled"}}
  /\ execution' = [execution EXCEPT ![x] = "over"]
  /\ UNCHANGED <<definitions, adds, plan, runtimes, step, live, called, environ>>

\* An exception becomes a failed result, a cancellation passes; a runtime may
\* have opened its session before the sink refuses the event that tells of it.
Raises(x) ==
  /\ execution[x] \in {"opening", "running"}
  /\ \/ UNCHANGED live
     \/ /\ execution[x] = "opening" /\ step[x] <= Len(runtimes[x])
        /\ live' = [live EXCEPT ![x] = @ \cup {step[x]}]
  /\ outcome' \in {[outcome EXCEPT ![x] = o] : o \in {"failed", "cancelled"}}
  /\ Close(x)
  /\ UNCHANGED <<definitions, adds, plan, runtimes, called, environ>>

\* Shielded, opened or not; what close raises comes after the session has
\* ended, and is dropped.
CloseRuntime(x) ==
  /\ execution[x] = "closing" /\ step[x] <= Len(runtimes[x])
  /\ live' = [live EXCEPT ![x] = @ \ {step[x]}]
  /\ step' = [step EXCEPT ![x] = @ + 1]
  /\ UNCHANGED <<definitions, adds, execution, plan, runtimes, called, environ, outcome>>

\* Only the result is left.
ReleaseKeys(x) ==
  /\ execution[x] = "closing" /\ step[x] > Len(runtimes[x])
  /\ environ' = environ \ ({x} \X ScriptAgent)
  /\ execution' = [execution EXCEPT ![x] = "over"]
  /\ plan' = [plan EXCEPT ![x] = NoPlan] /\ called' = [called EXCEPT ![x] = {}]
  /\ runtimes' = [runtimes EXCEPT ![x] = <<>>] /\ step' = [step EXCEPT ![x] = 1]
  /\ UNCHANGED <<definitions, adds, live, outcome>>

ScriptNext ==
  \/ \E a \in ScriptAgent : AddTool(a) \/ \E p \in ScriptProfiles : AddAgent(a, p)
  \/ \E x \in Execution :
       \/ SingleRun(x) \/ Workflow(x) \/ Deliberation(x) \/ Loop(x)
       \/ Initialize(x) \/ Coordinate(x) \/ Returns(x) \/ Raises(x)
       \/ CloseRuntime(x) \/ ReleaseKeys(x)
       \/ \E a \in ScriptAgent : Ask(x, a)

\* Nothing else happens to the process.
ScriptSpec == ScriptInit /\ EnginesInit
              /\ [][ScriptNext /\ UNCHANGED engineVars]_<<scriptVars, engineVars>>

-----------------------------------------------------------------------------
\* However executions overlap, fail or are cancelled, and whatever is added to
\* the builder meanwhile: only agents with an open session are asked, a finished
\* flow has asked those it needs, and an execution that is over leaves no session
\* behind, nor a key, unless an agent could not be built.
\* (builder.py:150-188; test_builder.py:168, 191)
ScriptCleansUp ==
  /\ \A x \in Execution :
       /\ execution[x] = "running" => called[x] \subseteq live[x]
       /\ execution[x] = "closing" /\ outcome[x] = "finished" => plan[x].needed \subseteq called[x]
       /\ execution[x] = "over" => live[x] = {}
  /\ \A key \in environ : execution[key[1]] # "over" \/ outcome[key[1]] = "unbuilt"
=============================================================================
