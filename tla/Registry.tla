------------------------------- MODULE Registry ------------------------------
(***************************************************************************)
(* What the workspace promises its users: three tables whose entries refer *)
(* to each other, and operations that take effect whole or not at all.  An *)
(* operation is refused when it would leave an entry pointing at nothing.  *)
(* The one entry that may be missing is the default engine.                *)
(***************************************************************************)
CONSTANTS EngineName, AgentName, FlowName, None,
          DefaultEngine, MainFlow, Sample   \* what a template furnishes

VARIABLES template,  \* the template `init' is given, never changed
          engines,   \* the engines defined
          agents,    \* the engine of each agent, None when there is no agent
          flows      \* the flows

tables == <<engines, agents, flows>>

FlowText == [here : BOOLEAN, members : SUBSET AgentName,
             leader : AgentName \cup {None}, chain : SUBSET FlowName, built : BOOLEAN]

NoFlow  == [here |-> FALSE, members |-> {}, leader |-> None, chain |-> {}, built |-> FALSE]
NoFlows == [f \in FlowName |-> NoFlow]
NoAgents == [a \in AgentName |-> None]

Agents == {a \in AgentName : agents[a] # None}
Flows  == {f \in FlowName : flows[f].here}

\* What a flow names exists.
Founded(text) ==
  /\ text.members \subseteq Agents
  /\ text.leader \in Agents \cup {None}
  /\ text.chain \subseteq Flows

Init ==
  /\ template \in {"project", "quickstart"}
  /\ engines = {} /\ agents = NoAgents /\ flows = NoFlows

AddEngine(e) ==
  engines' = engines \cup {e} /\ UNCHANGED <<template, agents, flows>>

DropEngine(e) ==
  /\ \A a \in AgentName : agents[a] # e
  /\ engines' = engines \ {e} /\ UNCHANGED <<template, agents, flows>>

PutAgent(a, e) ==
  /\ e \in engines \cup {DefaultEngine}
  /\ agents' = [agents EXCEPT ![a] = e] /\ UNCHANGED <<template, engines, flows>>

DropAgent(a) ==
  /\ \A f \in Flows : a \notin flows[f].members /\ a # flows[f].leader
  /\ agents' = [agents EXCEPT ![a] = None] /\ UNCHANGED <<template, engines, flows>>

PutFlow(f, text) ==
  /\ text.here /\ Founded(text)
  /\ flows' = [flows EXCEPT ![f] = text] /\ UNCHANGED <<template, engines, agents>>

DropFlow(f) ==
  /\ \A g \in Flows \ {f} : f \notin flows[g].chain
  /\ flows' = [flows EXCEPT ![f] = NoFlow] /\ UNCHANGED <<template, engines, agents>>

\* The template's configuration where there is none.
Furnish ==
  /\ engines = {} /\ flows = NoFlows
  /\ engines' = {DefaultEngine}
  /\ \E text \in FlowText :
        text.here /\ Founded(text) /\ flows' = [flows EXCEPT ![MainFlow] = text]
  /\ UNCHANGED <<template, agents>>

\* A failed `init' takes back what it furnished; with the template `project'
\* that is all it takes.
Unfurnish ==
  /\ \/ template # "project"
     \/ /\ engines \subseteq {DefaultEngine}
        /\ Agents \subseteq {Sample} /\ Flows \subseteq {MainFlow}
  /\ engines' = {} /\ agents' = NoAgents /\ flows' = NoFlows
  /\ UNCHANGED template

Next ==
  \/ \E e \in EngineName : AddEngine(e) \/ DropEngine(e)
  \/ \E a \in AgentName : DropAgent(a) \/ \E e \in EngineName : PutAgent(a, e)
  \/ \E f \in FlowName : DropFlow(f) \/ \E text \in FlowText : PutFlow(f, text)
  \/ Furnish \/ Unfurnish

Spec == Init /\ [][Next]_<<template, tables>>
=============================================================================
