---------------------------- MODULE ProcessProofs ---------------------------
(* What holds for any scripts and executions, any pipes and requests, any    *)
(* number of flows run from the dashboard, any names in its wizards and any  *)
(* runs of the run command.                                                  *)
EXTENDS Script, CliTurn, Dashboard, Wizards, RunCommand, FiniteSetTheorems, TLAPS

-----------------------------------------------------------------------------
(* Scripts.  An execution that opens its runtimes has opened those before    *)
(* `step', one that closes them has closed those before it; and there is no  *)
(* key of an execution that has not begun.                                   *)

Session(x) ==
  /\ Len(runtimes[x]) <= MaxAgents
  /\ execution[x] = "idle" => live[x] = {} /\ called[x] = {} /\ step[x] = 1
  /\ execution[x] = "opening" => /\ live[x] = 1..(step[x] - 1) /\ called[x] = {}
                                 /\ step[x] <= Len(runtimes[x]) + 1
                                 /\ plan[x].named \subseteq 1..Len(runtimes[x])
  /\ execution[x] = "running" => /\ live[x] = 1..Len(runtimes[x])
                                 /\ called[x] \subseteq 1..Len(runtimes[x])
                                 /\ plan[x].named \subseteq 1..Len(runtimes[x])
  /\ execution[x] = "closing" => /\ live[x] \subseteq step[x]..Len(runtimes[x])
                                 /\ outcome[x] = "finished" => plan[x].needed \subseteq called[x]
  /\ execution[x] = "over" => live[x] = {}

Sessions == \A x \in Execution : Session(x)

Keys == \A key \in environ : /\ execution[key[1]] # "idle"
                             /\ execution[key[1]] # "over" \/ outcome[key[1]] = "unbuilt"

ScriptInv == ScriptTypeOK /\ Sessions /\ Keys

LEMMA ScriptStart == ScriptInit => ScriptInv
<1> SUFFICES ASSUME ScriptInit PROVE ScriptInv
  OBVIOUS
<1>1. ScriptTypeOK
  BY ScriptAssumption DEF ScriptInit, ScriptTypeOK, Plan, NoPlan, ScriptAgent
<1>2. Sessions
  BY ScriptAssumption DEF ScriptInit, Sessions, Session
<1> QED
  BY <1>1, <1>2 DEF ScriptInit, ScriptInv, Keys

\* The builder stays a sequence of agents.
LEMMA BuilderTyped ==
  ASSUME ScriptTypeOK,
         (\E a \in ScriptAgent : AddTool(a) \/ \E p \in ScriptProfiles : AddAgent(a, p))
  PROVE  definitions' \in Seq(AgentDef) /\ Len(definitions') <= MaxAgents /\ adds' \in 0..MaxAdds
<1>1. /\ definitions \in Seq(AgentDef) /\ Len(definitions) \in 0..MaxAgents
      /\ adds \in 0..MaxAdds /\ MaxAgents \in Nat /\ MaxAdds \in Nat
  BY ScriptAssumption DEF ScriptTypeOK
<1>2. ASSUME NEW a \in ScriptAgent, AddTool(a) PROVE
      definitions' \in Seq(AgentDef) /\ Len(definitions') <= MaxAgents /\ adds' \in 0..MaxAdds
  <2>1. a \in 1..Len(definitions)
    BY <1>1, <1>2 DEF AddTool
  <2>2. definitions[a] \in AgentDef
    BY <1>1, <2>1
  <2>3. [definitions[a] EXCEPT !.tools = TRUE] \in AgentDef
    BY <2>2 DEF AgentDef
  <2>4. definitions' = [definitions EXCEPT ![a] = [definitions[a] EXCEPT !.tools = TRUE]]
    BY <1>2 DEF AddTool
  <2> QED
    BY <1>1, <1>2, <2>1, <2>3, <2>4 DEF AddTool
<1>3. ASSUME NEW a \in ScriptAgent, NEW p \in ScriptProfiles, AddAgent(a, p) PROVE
      definitions' \in Seq(AgentDef) /\ Len(definitions') <= MaxAgents /\ adds' \in 0..MaxAdds
  <2>1. a \in 1..MaxAgents /\ a <= Len(definitions) + 1
    BY <1>3 DEF AddAgent, ScriptAgent
  <2>2. PICK n \in 0..MaxAgents : (1..Len(definitions)) \cup {a} = 1..n
    <3>1. CASE a <= Len(definitions)
      BY <1>1, <2>1, <3>1
    <3>2. CASE a = Len(definitions) + 1
      BY <1>1, <2>1, <3>2
    <3> QED
      BY <1>1, <2>1, <3>1, <3>2
  <2>3. DOMAIN definitions = 1..Len(definitions)
    BY <1>1
  <2> DEFINE added == [profile |-> p, tools |-> FALSE]
  <2>4. added \in AgentDef
    BY DEF AgentDef
  <2>5. definitions' = [i \in 1..n |-> IF i = a THEN added ELSE definitions[i]]
    BY <1>3, <2>2, <2>3 DEF AddAgent
  <2>6. ASSUME NEW i \in 1..n PROVE (IF i = a THEN added ELSE definitions[i]) \in AgentDef
    <3>1. i # a => i \in 1..Len(definitions)
      BY <2>2
    <3>2. i # a => definitions[i] \in AgentDef
      BY <1>1, <3>1
    <3> HIDE DEF added
    <3> QED
      BY <2>4, <3>2
  <2> HIDE DEF added
  <2>7. definitions' \in Seq(AgentDef) /\ Len(definitions') = n
    BY <2>2, <2>5, <2>6
  <2>8. adds' \in 0..MaxAdds
    BY <1>1, <1>3 DEF AddAgent
  <2> QED
    BY <2>2, <2>7, <2>8
<1> QED
  BY <1>2, <1>3

\* Every call of the builder begins an execution the same way.
LEMMA CallsExecute ==
  ASSUME NEW x \in Execution, SingleRun(x) \/ Workflow(x) \/ Deliberation(x) \/ Loop(x)
  PROVE  \E p \in Plan : Execute(x, p)
<1> DEFINE Takes(named, needed) == [named |-> named, needed |-> needed]
<1>1. \A s, t \in SUBSET ScriptAgent : Takes(s, t) \in Plan
  BY DEF Plan
<1>2. CASE SingleRun(x)
  <2>1. PICK a \in ScriptAgent : Execute(x, Takes({a}, {a}))
    BY <1>2 DEF SingleRun
  <2> QED
    BY <1>1, <2>1
<1>3. CASE Workflow(x)
  <2>1. PICK named \in SUBSET ScriptAgent : Execute(x, Takes(named, named))
    BY <1>3 DEF Workflow
  <2> QED
    BY <1>1, <2>1
<1>4. CASE Deliberation(x)
  <2>1. PICK named \in SUBSET ScriptAgent, a \in ScriptAgent :
              Execute(x, Takes(named \cup {a}, {a}))
    BY <1>4 DEF Deliberation
  <2>2. named \cup {a} \in SUBSET ScriptAgent /\ {a} \in SUBSET ScriptAgent
    OBVIOUS
  <2> QED
    BY <1>1, <2>1, <2>2
<1>5. CASE Loop(x)
  <2>1. PICK named \in SUBSET ScriptAgent, a \in ScriptAgent :
              Execute(x, Takes(named \cup {a}, {a}))
    BY <1>5 DEF Loop
  <2>2. named \cup {a} \in SUBSET ScriptAgent /\ {a} \in SUBSET ScriptAgent
    OBVIOUS
  <2> QED
    BY <1>1, <2>1, <2>2
<1> QED
  BY <1>2, <1>3, <1>4, <1>5

\* An execution nothing happens to stays as it is.
LEMMA OthersStay ==
  ASSUME NEW x \in Execution, Session(x),
         execution'[x] = execution[x], plan'[x] = plan[x], runtimes'[x] = runtimes[x],
         step'[x] = step[x], live'[x] = live[x], called'[x] = called[x], outcome'[x] = outcome[x]
  PROVE  Session(x)'
BY DEF Session

LEMMA ExecuteKeeps ==
  ASSUME ScriptInv, NEW x \in Execution, NEW p \in Plan, Execute(x, p)
  PROVE  ScriptInv'
<1>1. /\ ScriptTypeOK /\ Sessions /\ Keys /\ execution[x] = "idle" /\ Session(x)
      /\ \A key \in environ : key[1] # x
  BY DEF ScriptInv, Execute, Sessions, Keys
<1>2. /\ definitions \in Seq(AgentDef) /\ Len(definitions) \in 0..MaxAgents
      /\ DOMAIN definitions = 1..Len(definitions) /\ DOMAIN definitions \subseteq ScriptAgent
  BY <1>1, ScriptAssumption DEF ScriptTypeOK, ScriptAgent
<1>3. KeysPut(x) \subseteq {x} \X ScriptAgent
  BY <1>2 DEF KeysPut
<1>4. UNCHANGED <<definitions, adds, step, live, called>>
  BY DEF Execute
<1>5. CASE ~p.named \subseteq DOMAIN definitions
  <2>1. /\ execution' = [execution EXCEPT ![x] = "over"]
        /\ outcome' = [outcome EXCEPT ![x] = "refused"]
        /\ UNCHANGED <<plan, runtimes, environ>>
    BY <1>5 DEF Execute
  <2>2. ScriptTypeOK'
    BY <1>1, <1>4, <2>1 DEF ScriptTypeOK
  <2>3. ASSUME NEW y \in Execution PROVE Session(y)'
    BY <1>1, <1>4, <2>1, OthersStay DEF Sessions, Session, ScriptTypeOK
  <2>4. Keys'
    BY <1>1, <2>1 DEF Keys, ScriptTypeOK
  <2> QED
    BY <2>2, <2>3, <2>4 DEF ScriptInv, Sessions
<1>6. CASE p.named \subseteq DOMAIN definitions /\ \E i \in DOMAIN definitions : ~Buildable(definitions[i])
  <2>1. /\ execution' = [execution EXCEPT ![x] = "over"]
        /\ outcome' = [outcome EXCEPT ![x] = "unbuilt"]
        /\ environ' = environ \cup KeysPut(x) /\ UNCHANGED <<plan, runtimes>>
    BY <1>6 DEF Execute
  <2>2. ScriptTypeOK'
    BY <1>1, <1>3, <1>4, <2>1 DEF ScriptTypeOK
  <2>3. ASSUME NEW y \in Execution PROVE Session(y)'
    BY <1>1, <1>4, <2>1, OthersStay DEF Sessions, Session, ScriptTypeOK
  <2>4. Keys'
    BY <1>1, <1>3, <2>1 DEF Keys, ScriptTypeOK
  <2> QED
    BY <2>2, <2>3, <2>4 DEF ScriptInv, Sessions
<1>7. CASE p.named \subseteq DOMAIN definitions
           /\ ~\E i \in DOMAIN definitions : ~Buildable(definitions[i])
  <2>1. /\ execution' = [execution EXCEPT ![x] = "opening"]
        /\ runtimes' = [runtimes EXCEPT ![x] = definitions] /\ plan' = [plan EXCEPT ![x] = p]
        /\ environ' = environ \cup KeysPut(x) /\ UNCHANGED outcome
    BY <1>7 DEF Execute
  <2>2. ScriptTypeOK'
    BY <1>1, <1>2, <1>3, <1>4, <2>1 DEF ScriptTypeOK
  <2>3. Session(x)'
    <3>1. /\ execution'[x] = "opening" /\ runtimes'[x] = definitions /\ plan'[x] = p
          /\ step'[x] = 1 /\ live'[x] = {} /\ called'[x] = {}
      BY <1>1, <1>4, <2>1 DEF ScriptTypeOK, Session
    <3>2. 1..(1 - 1) = {}
      OBVIOUS
    <3> QED
      BY <1>2, <1>7, <3>1, <3>2 DEF Session
  <2>4. ASSUME NEW y \in Execution PROVE Session(y)'
    BY <1>1, <1>4, <2>1, <2>3, OthersStay DEF Sessions, ScriptTypeOK
  <2>5. Keys'
    BY <1>1, <1>3, <2>1 DEF Keys, ScriptTypeOK
  <2> QED
    BY <2>2, <2>4, <2>5 DEF ScriptInv, Sessions
<1> QED
  BY <1>5, <1>6, <1>7

\* A step of one execution that is under way.
LEMMA ExecutionKeeps ==
  ASSUME ScriptInv, NEW x \in Execution,
         \/ Initialize(x) \/ Coordinate(x) \/ Returns(x) \/ Raises(x)
         \/ CloseRuntime(x) \/ ReleaseKeys(x) \/ \E a \in ScriptAgent : Ask(x, a)
  PROVE  ScriptInv'
<1> DEFINE n == Len(runtimes[x])
           at == step[x]
<1>1. /\ ScriptTypeOK /\ Sessions /\ Keys /\ Session(x)
  BY DEF ScriptInv, Sessions
<1>2. /\ MaxAgents \in Nat /\ n \in 0..MaxAgents /\ at \in 1..MaxAgents + 1
      /\ live[x] \subseteq ScriptAgent /\ called[x] \subseteq ScriptAgent
  BY <1>1, ScriptAssumption DEF ScriptTypeOK, Session
<1> DEFINE Kept == ScriptTypeOK' /\ Session(x)' /\ Keys'
<1> HIDE DEF n, at
<1>3. ASSUME Initialize(x) PROVE Kept
  <2>1. /\ execution[x] = "opening" /\ at <= n
        /\ live' = [live EXCEPT ![x] = live[x] \cup {at}] /\ step' = [step EXCEPT ![x] = at + 1]
        /\ UNCHANGED <<definitions, adds, execution, plan, runtimes, called, environ, outcome>>
    BY <1>3 DEF Initialize, n, at
  <2>2. at \in ScriptAgent /\ at + 1 \in 1..MaxAgents + 1
    BY <1>2, <2>1 DEF ScriptAgent
  <2>3. ScriptTypeOK'
    BY <1>1, <1>2, <2>1, <2>2 DEF ScriptTypeOK
  <2>4. live[x] = 1..(at - 1)
    BY <1>1, <2>1 DEF Session, at
  <2>5. live'[x] = 1..(at + 1 - 1)
    BY <1>1, <1>2, <2>1, <2>4 DEF ScriptTypeOK
  <2>6. Session(x)'
    BY <1>1, <1>2, <2>1, <2>5 DEF Session, ScriptTypeOK, n
  <2> QED
    BY <1>1, <2>1, <2>3, <2>6 DEF Keys
<1>4. ASSUME Coordinate(x) PROVE Kept
  <2>1. /\ execution[x] = "opening" /\ at > n /\ execution' = [execution EXCEPT ![x] = "running"]
        /\ UNCHANGED <<definitions, adds, plan, runtimes, step, live, called, environ, outcome>>
    BY <1>4 DEF Coordinate, n, at
  <2>2. live[x] = 1..n
    BY <1>1, <1>2, <2>1 DEF Session, n, at
  <2>3. ScriptTypeOK'
    BY <1>1, <2>1 DEF ScriptTypeOK
  <2>4. Session(x)'
    BY <1>1, <2>1, <2>2 DEF Session, ScriptTypeOK, n
  <2> QED
    BY <1>1, <2>1, <2>3, <2>4 DEF Keys, ScriptTypeOK
<1>5. ASSUME NEW a \in ScriptAgent, Ask(x, a) PROVE Kept
  <2>1. /\ execution[x] = "running" /\ a \in plan[x].named
        /\ called' = [called EXCEPT ![x] = called[x] \cup {a}]
        /\ UNCHANGED <<definitions, adds, execution, plan, runtimes, step, live, environ, outcome>>
    BY <1>5 DEF Ask
  <2>2. ScriptTypeOK'
    BY <1>1, <1>2, <2>1 DEF ScriptTypeOK
  <2>3. Session(x)'
    BY <1>1, <2>1 DEF Session, ScriptTypeOK
  <2> QED
    BY <1>1, <2>1, <2>2, <2>3 DEF Keys
<1>6. ASSUME execution[x] \in {"opening", "running"}, Close(x),
             NEW o \in {"finished", "failed", "cancelled"}, outcome' = [outcome EXCEPT ![x] = o],
             o = "finished" => plan[x].needed \subseteq called[x],
             NEW s \in SUBSET (1..n), live' = [live EXCEPT ![x] = s],
             UNCHANGED <<definitions, adds, plan, runtimes, called, environ>>
      PROVE  Kept
  <2>1. /\ execution' = [execution EXCEPT ![x] = "closing"] /\ step' = [step EXCEPT ![x] = 1]
    BY <1>6 DEF Close
  <2>2. s \subseteq ScriptAgent
    BY <1>2 DEF ScriptAgent
  <2>3. ScriptTypeOK'
    BY <1>1, <1>2, <1>6, <2>1, <2>2 DEF ScriptTypeOK
  <2>4. Session(x)'
    BY <1>1, <1>2, <1>6, <2>1 DEF Session, ScriptTypeOK, n
  <2> QED
    BY <1>1, <1>6, <2>1, <2>3, <2>4 DEF Keys, ScriptTypeOK
<1>7. execution[x] \in {"opening", "running"} => live[x] \subseteq 1..n
  BY <1>1, <1>2 DEF Session, n, at
<1>8. live = [live EXCEPT ![x] = live[x]]
  BY <1>1 DEF ScriptTypeOK
<1>9. ASSUME Returns(x) PROVE Kept
  <2>1. PICK o \in {"finished", "failed"} :
           /\ outcome' = [outcome EXCEPT ![x] = o]
           /\ o = "finished" => plan[x].needed \subseteq called[x]
    BY <1>9 DEF Returns
  <2> QED
    BY <1>6, <1>7, <1>8, <1>9, <2>1 DEF Returns
<1>10. ASSUME Raises(x) PROVE Kept
  <2>1. PICK o \in {"failed", "cancelled"} : outcome' = [outcome EXCEPT ![x] = o]
    BY <1>10 DEF Raises
  <2>2. PICK s \in SUBSET (1..n) : live' = [live EXCEPT ![x] = s]
    <3>1. CASE UNCHANGED live
      BY <1>7, <1>8, <1>10, <3>1 DEF Raises
    <3>2. CASE at <= n /\ live' = [live EXCEPT ![x] = live[x] \cup {at}]
      <4>1. live[x] \cup {at} \in SUBSET (1..n)
        BY <1>2, <1>7, <1>10, <3>2 DEF Raises
      <4> QED
        BY <3>2, <4>1
    <3> QED
      BY <1>10, <3>1, <3>2 DEF Raises, n, at
  <2> QED
    BY <1>6, <1>10, <2>1, <2>2 DEF Raises
<1>11. ASSUME CloseRuntime(x) PROVE Kept
  <2>1. /\ execution[x] = "closing" /\ at <= n
        /\ live' = [live EXCEPT ![x] = live[x] \ {at}] /\ step' = [step EXCEPT ![x] = at + 1]
        /\ UNCHANGED <<definitions, adds, execution, plan, runtimes, called, environ, outcome>>
    BY <1>11 DEF CloseRuntime, n, at
  <2>2. at + 1 \in 1..MaxAgents + 1 /\ live[x] \subseteq at..n
    BY <1>1, <1>2, <2>1 DEF Session, n, at
  <2>3. ScriptTypeOK'
    BY <1>1, <1>2, <2>1, <2>2 DEF ScriptTypeOK
  <2>4. live[x] \ {at} \subseteq (at + 1)..n
    BY <1>2, <2>2
  <2>5. Session(x)'
    BY <1>1, <1>2, <2>1, <2>4 DEF Session, ScriptTypeOK, n
  <2> QED
    BY <1>1, <2>1, <2>3, <2>5 DEF Keys
<1>12. ASSUME ReleaseKeys(x) PROVE Kept
  <2>1. /\ execution[x] = "closing" /\ at > n
        /\ environ' = environ \ ({x} \X ScriptAgent)
        /\ execution' = [execution EXCEPT ![x] = "over"]
        /\ plan' = [plan EXCEPT ![x] = NoPlan] /\ called' = [called EXCEPT ![x] = {}]
        /\ runtimes' = [runtimes EXCEPT ![x] = <<>>] /\ step' = [step EXCEPT ![x] = 1]
        /\ UNCHANGED <<definitions, adds, live, outcome>>
    BY <1>12 DEF ReleaseKeys, n, at
  <2>2. live[x] = {}
    BY <1>1, <1>2, <2>1 DEF Session, n, at
  <2>3. NoPlan \in Plan /\ <<>> \in Seq(AgentDef)
    BY DEF NoPlan, Plan
  <2>4. ScriptTypeOK'
    BY <1>1, <1>2, <2>1, <2>3 DEF ScriptTypeOK
  <2>5. Session(x)'
    BY <1>1, <1>2, <2>1, <2>2 DEF Session, ScriptTypeOK
  <2>6. \A key \in environ : key \in Execution \X ScriptAgent
    BY <1>1 DEF ScriptTypeOK
  <2>7. \A key \in environ' : key \in environ /\ key[1] # x /\ key[1] \in Execution
    BY <2>1, <2>6
  <2>8. Keys'
    BY <1>1, <2>1, <2>7 DEF Keys, ScriptTypeOK
  <2> QED
    BY <2>4, <2>5, <2>8
<1>13. Kept
  BY <1>3, <1>4, <1>5, <1>9, <1>10, <1>11, <1>12
<1>14. ASSUME NEW y \in Execution, y # x PROVE Session(y)'
  <2> DEFINE Same == /\ execution'[y] = execution[y] /\ plan'[y] = plan[y]
                     /\ runtimes'[y] = runtimes[y] /\ step'[y] = step[y] /\ live'[y] = live[y]
                     /\ called'[y] = called[y] /\ outcome'[y] = outcome[y]
  <2>1. Session(y)
    BY <1>1 DEF Sessions
  <2>2. Same
    <3>1. CASE Initialize(x)
      BY <1>1, <1>14, <3>1 DEF Initialize, ScriptTypeOK
    <3>2. CASE Coordinate(x)
      BY <1>1, <1>14, <3>2 DEF Coordinate, ScriptTypeOK
    <3>3. CASE Returns(x)
      BY <1>1, <1>14, <3>3 DEF Returns, Close, ScriptTypeOK
    <3>4. CASE Raises(x)
      BY <1>1, <1>14, <3>4 DEF Raises, Close, ScriptTypeOK
    <3>5. CASE CloseRuntime(x)
      BY <1>1, <1>14, <3>5 DEF CloseRuntime, ScriptTypeOK
    <3>6. CASE ReleaseKeys(x)
      BY <1>1, <1>14, <3>6 DEF ReleaseKeys, ScriptTypeOK
    <3>7. CASE \E a \in ScriptAgent : Ask(x, a)
      BY <1>1, <1>14, <3>7 DEF Ask, ScriptTypeOK
    <3> QED
      BY <3>1, <3>2, <3>3, <3>4, <3>5, <3>6, <3>7
  <2> QED
    BY <2>1, <2>2, OthersStay
<1> QED
  BY <1>13, <1>14 DEF ScriptInv, Sessions

LEMMA ScriptStep == ScriptInv /\ [ScriptNext]_scriptVars => ScriptInv'
<1> SUFFICES ASSUME ScriptInv, [ScriptNext]_scriptVars PROVE ScriptInv'
  OBVIOUS
<1> USE DEF ScriptInv
<1>1. CASE \E a \in ScriptAgent : AddTool(a) \/ \E p \in ScriptProfiles : AddAgent(a, p)
  <2>1. UNCHANGED <<execution, plan, runtimes, step, live, called, environ, outcome>>
    BY <1>1 DEF AddTool, AddAgent
  <2>2. definitions' \in Seq(AgentDef) /\ Len(definitions') <= MaxAgents /\ adds' \in 0..MaxAdds
    BY <1>1, BuilderTyped
  <2>3. ScriptTypeOK'
    BY <2>1, <2>2 DEF ScriptTypeOK
  <2>4. Sessions' /\ Keys'
    BY <2>1 DEF Sessions, Session, Keys
  <2> QED
    BY <2>3, <2>4
<1>2. ASSUME NEW x \in Execution, SingleRun(x) \/ Workflow(x) \/ Deliberation(x) \/ Loop(x)
      PROVE  ScriptInv'
  BY <1>2, CallsExecute, ExecuteKeeps
<1>3. ASSUME NEW x \in Execution,
             \/ Initialize(x) \/ Coordinate(x) \/ Returns(x) \/ Raises(x)
             \/ CloseRuntime(x) \/ ReleaseKeys(x) \/ \E a \in ScriptAgent : Ask(x, a)
      PROVE  ScriptInv'
  BY <1>3, ExecutionKeeps
<1>4. CASE UNCHANGED scriptVars
  BY <1>4 DEF scriptVars, ScriptTypeOK, Sessions, Session, Keys
<1> HIDE DEF ScriptInv
<1> QED
  BY <1>1, <1>2, <1>3, <1>4 DEF ScriptNext

LEMMA ScriptInvHolds == ScriptSpec => []ScriptInv
<1>1. ScriptInv /\ [ScriptNext /\ UNCHANGED engineVars]_<<scriptVars, engineVars>> => ScriptInv'
  BY ScriptStep
<1> QED
  BY ScriptStart, <1>1, PTL DEF ScriptSpec

\* The variables of the builder and of the executions keep their types for any
\* agents, profiles and executions (builder.py).
THEOREM ScriptsTyped == ScriptSpec => []ScriptTypeOK
<1>1. ScriptInv => ScriptTypeOK
  BY DEF ScriptInv
<1> QED
  BY ScriptInvHolds, <1>1, PTL

\* For any number of executions of any agents, side by side with the builder:
\* only agents with an open session are asked, a finished flow has asked those
\* it needs, and an execution that is over leaves neither a session nor, unless
\* an agent could not be built, a key (builder.py:150-188).
THEOREM ScriptsCleanUp == ScriptSpec => []ScriptCleansUp
<1>1. ScriptInv => ScriptCleansUp
  <2> SUFFICES ASSUME ScriptInv PROVE ScriptCleansUp
    OBVIOUS
  <2>1. ASSUME NEW x \in Execution
        PROVE  /\ execution[x] = "running" => called[x] \subseteq live[x]
               /\ execution[x] = "closing" /\ outcome[x] = "finished"
                    => plan[x].needed \subseteq called[x]
               /\ execution[x] = "over" => live[x] = {}
    BY DEF ScriptInv, Sessions, Session
  <2> QED
    BY <2>1 DEF ScriptInv, Keys, ScriptCleansUp
<1> QED
  BY ScriptInvHolds, <1>1, PTL

-----------------------------------------------------------------------------
(* A command-line agent.  What its pipes hold was written and not yet read.  *)

PipesHold ==
  /\ request + pipe["stdin"] <= size
  /\ pipe["stdout"] + read = said["stdout"] /\ pipe["stderr"] <= said["stderr"]
  /\ child \in Stream => said[child] < MaxSaid
  /\ driver \in {"read", "wait", "errors", "completed"} => shut
  /\ driver \in {"wait", "errors"} \cup Over => child \in Ended
  /\ driver \in {"wait", "completed"} => pipe["stdout"] = 0
  /\ driver = "completed" => child = "ok"

CliInv == CliTypeOK /\ PipesHold

LEMMA CliStart == CliInit => CliInv
<1> SUFFICES ASSUME CliInit PROVE CliInv
  OBVIOUS
<1>1. /\ size \in Nat /\ request = size /\ read = 0 /\ shut = FALSE /\ driver = "send"
      /\ child = "thinks" /\ pipe = [s \in Stream \cup {"stdin"} |-> 0]
      /\ said = [s \in Stream |-> 0] /\ PipeSize \in Nat /\ MaxSaid \in Nat
  BY CliAssumption DEF CliInit
<1>2. CliTypeOK
  <2>1. pipe \in [Stream \cup {"stdin"} -> 0 .. PipeSize]
    BY <1>1
  <2>2. said \in [Stream -> 0 .. MaxSaid]
    BY <1>1
  <2>3. request \in Nat /\ read \in Nat /\ size \in Nat
    BY <1>1
  <2>6. shut \in BOOLEAN
    BY <1>1
  <2>4. driver \in {"send", "read", "wait", "errors", "completed", "raised", "cancelled"}
    BY <1>1
  <2>5. child \in Stream \cup {"stdin", "thinks"} \cup Ended
    BY <1>1
  <2> QED
    BY <2>1, <2>2, <2>3, <2>4, <2>5, <2>6 DEF CliTypeOK
<1>3. PipesHold
  BY <1>1 DEF PipesHold, Stream, Exit, Ended, Over
<1> QED
  BY <1>2, <1>3 DEF CliInv

LEMMA CliStep == CliInv /\ [CliNext]_turnVars => CliInv'
<1> SUFFICES ASSUME CliInv, [CliNext]_turnVars PROVE CliInv'
  OBVIOUS
<1> USE CliAssumption DEF CliInv, CliTypeOK, PipesHold, Stream, Exit, Ended, Over
<1>1. CASE Decide
  BY <1>1 DEF Decide
<1>2. CASE ReadInput
  BY <1>2 DEF ReadInput
<1>3. ASSUME NEW s \in Stream, Say(s) PROVE CliInv'
  BY <1>3 DEF Say
<1>4. CASE SendInput
  BY <1>4 DEF SendInput
<1>5. CASE InputBreaks
  BY <1>5 DEF InputBreaks
<1>6. CASE CloseInput
  BY <1>6 DEF CloseInput
<1>7. CASE ReadOutput
  BY <1>7 DEF ReadOutput
<1>8. CASE AwaitExit
  BY <1>8 DEF AwaitExit
<1>9. CASE ReadErrors
  BY <1>9 DEF ReadErrors
<1>10. CASE CancelCli
  BY <1>10 DEF CancelCli
<1>11. CASE UNCHANGED turnVars
  BY <1>11 DEF turnVars
<1> HIDE DEF CliInv
<1> QED
  BY <1>1, <1>2, <1>3, <1>4, <1>5, <1>6, <1>7, <1>8, <1>9, <1>10, <1>11 DEF CliNext

\* For any requests, outputs and sizes of pipes: driver and child block each
\* other only over a full stderr or a request larger than the pipe, a completed
\* turn has the whole output of a child that succeeded, and no child outlives
\* its turn (cli_driver.py:send_turn).
THEOREM PipesFlowAlways == CliSpec => []PipesFlow
<1>1. CliInv => PipesFlow
  BY CliAssumption DEF CliInv, CliTypeOK, PipesHold, PipesFlow, DriverWaits, ChildWaits,
                       Stream, Exit, Ended, Over
<1> QED
  BY CliStart, CliStep, <1>1, PTL DEF CliSpec

-----------------------------------------------------------------------------
(* The dashboard.                                                            *)

Active(p) == work[p] \in {"scheduled", "working", "sending"}

FlowsAlone ==
  /\ \A p, q \in Press : Active(p) /\ Active(q) => p = q
  /\ running => \E p \in Press : work[p] \notin {"idle", "scheduled", "over"}
  /\ \A p \in history : work[p] = "over"

DashInv == DashTypeOK /\ FlowsAlone

LEMMA DashStart == DashInit => DashInv
<1> SUFFICES ASSUME DashInit PROVE DashInv
  OBVIOUS
<1>1. DashTypeOK
  <2>1. work \in [Press -> {"idle", "scheduled", "working", "sending",
                           "stopping", "lastWord", "over"}]
    BY DEF DashInit
  <2>2. sent \in [Press -> 0..(MaxEvents + 1)]
    BY FeedAssumption DEF DashInit
  <2>3. listening \in BOOLEAN /\ running \in BOOLEAN /\ stopKey \in BOOLEAN
    BY DEF DashInit
  <2>4. feed \in 0..FeedSize /\ history \subseteq Press
    BY FeedAssumption DEF DashInit
  <2> QED
    BY <2>1, <2>2, <2>3, <2>4 DEF DashTypeOK
<1>2. FlowsAlone
  BY DEF DashInit, FlowsAlone, Active
<1> QED
  BY <1>1, <1>2 DEF DashInv

LEMMA DashStep == DashInv /\ [DashNext]_dashVars => DashInv'
<1> SUFFICES ASSUME DashInv, [DashNext]_dashVars PROVE DashInv'
  OBVIOUS
<1> USE FeedAssumption DEF DashInv, Active
<1>1. ASSUME NEW p \in Press, RunFlow(p) PROVE DashInv'
  <2>1. /\ work[p] = "idle" /\ UNCHANGED <<feed, sent, running, stopKey, history>>
        /\ work' = [q \in Press |-> IF q = p THEN "scheduled" ELSE AfterCancel(work[q])]
        /\ listening' = FALSE
    BY <1>1 DEF RunFlow
  <2>2. ASSUME NEW q \in Press
        PROVE  /\ AfterCancel(work[q]) \in {"idle", "stopping", "over"}
               /\ work[q] \notin {"idle", "scheduled", "over"} => AfterCancel(work[q]) = "stopping"
               /\ work[q] = "over" => AfterCancel(work[q]) = "over"
    BY DEF DashTypeOK, AfterCancel
  <2>3. DashTypeOK'
    BY <2>1, <2>2 DEF DashTypeOK
  <2>4. FlowsAlone'
    BY <2>1, <2>2 DEF DashTypeOK, FlowsAlone
  <2> QED
    BY <2>3, <2>4
<1>2. ASSUME NEW p \in Press, BeginFlow(p) PROVE DashInv'
  BY <1>2 DEF BeginFlow, Move, DashTypeOK, FlowsAlone
<1>3. ASSUME NEW p \in Press, PublishEvent(p) PROVE DashInv'
  BY <1>3 DEF PublishEvent, Send, Move, DashTypeOK, FlowsAlone
<1>4. ASSUME NEW p \in Press, EndFlow(p) PROVE DashInv'
  BY <1>4 DEF EndFlow, Move, DashTypeOK, FlowsAlone
<1>5. ASSUME NEW p \in Press, SayCancelled(p) PROVE DashInv'
  BY <1>5 DEF SayCancelled, Send, Move, DashTypeOK, FlowsAlone
<1>6. ASSUME NEW p \in Press, GiveUpFlow(p) PROVE DashInv'
  BY <1>6 DEF GiveUpFlow, Move, DashTypeOK, FlowsAlone
<1>7. CASE PressStop
  BY <1>7 DEF PressStop, DashTypeOK, FlowsAlone
<1>8. CASE HandleStop
  BY <1>8 DEF HandleStop, DashTypeOK, FlowsAlone
<1>9. CASE UNCHANGED dashVars
  BY <1>9 DEF dashVars, DashTypeOK, FlowsAlone
<1> HIDE DEF DashInv
<1> QED
  BY <1>1, <1>2, <1>3, <1>4, <1>5, <1>6, <1>7, <1>8, <1>9 DEF DashNext

\* However many flows are run from the dashboard: at most one has not been told
\* to stop, the sidebar shows a run only if there is one, and the history names
\* none that goes on (app.py:396-423; data_provider.py:385-398).
THEOREM NoGhostFlows == DashSpec => []NoGhostFlow
<1>1. DashInv => NoGhostFlow
  <2> SUFFICES ASSUME DashInv PROVE NoGhostFlow
    OBVIOUS
  <2> DEFINE A == {p \in Press : work[p] \in {"scheduled", "working", "sending"}}
  <2>1. Cardinality(A) <= 1
    <3>1. CASE A = {}
      BY <3>1, FS_EmptySet
    <3>2. CASE A # {}
      <4>1. PICK p : p \in A
        BY <3>2
      <4>2. A = {p}
        BY <4>1 DEF DashInv, FlowsAlone, Active
      <4> QED
        BY <4>2, FS_Singleton
    <3> QED
      BY <3>1, <3>2
  <2>2. running => UnderWay # {}
    BY DEF DashInv, FlowsAlone, UnderWay
  <2>3. history \cap UnderWay = {}
    BY DEF DashInv, FlowsAlone, UnderWay
  <2> QED
    BY <2>1, <2>2, <2>3 DEF NoGhostFlow
<1> QED
  BY DashStart, DashStep, <1>1, PTL DEF DashSpec

-----------------------------------------------------------------------------
(* The wizards.  The leader's page, while it is shown, offers the           *)
(* participants, and nobody else is selected.                               *)

Given(d) ==
  /\ d # NoDraft => d.name # Blank
  /\ d.kind = "flow" =>
        /\ Cardinality(d.parts) >= 2
        /\ IF d.mode = "deliberation" THEN d.leader \in d.parts ELSE d.leader = Blank
  /\ d.kind = "agent" => "role" \in d.texts
  /\ d.kind = "engine" => {"provider", "model"} \subseteq d.texts

LeadersOffered ==
  /\ screen = "flow" => page <= FlowPages
  /\ screen = "flow" /\ page = 3 => leaders = form.parts /\ form.leader \in leaders \cup {Blank}

Form == [name : Person \cup {Blank}, mode : {"workflow", "deliberation", "team"},
         parts : SUBSET Person, leader : Person \cup {Blank}, texts : SUBSET Texts]

WizardInv == WizardTypeOK /\ LeadersOffered /\ Given(draft)

LEMMA NothingGiven == Given(NoDraft) /\ Empty \in Form /\ Empty.mode = "workflow"
BY DEF Given, NoDraft, Empty, Form, Texts

\* Typing into a page that is not the leader's.
LEMMA TypingKeeps ==
  ASSUME WizardInv, NEW f \in Form, FillIn(f),
         screen = "flow" => page <= (IF f.mode = "deliberation" THEN 3 ELSE 2),
         screen = "flow" /\ page = 3 => f.parts = form.parts /\ f.leader \in leaders \cup {Blank}
  PROVE  WizardInv'
<1>1. /\ form' = f /\ UNCHANGED <<screen, page, locked, offered, leaders, draft, roster>>
  BY DEF FillIn
<1>2. WizardTypeOK'
  BY <1>1 DEF WizardInv, WizardTypeOK, Form
<1>3. LeadersOffered'
  BY <1>1 DEF WizardInv, LeadersOffered, FlowPages
<1> QED
  BY <1>1, <1>2, <1>3 DEF WizardInv, Given

LEMMA ShowKeeps ==
  ASSUME WizardInv, NEW kind \in {"flow", "agent", "engine", "run"}, NEW at \in 1..2,
         NEW f \in Form, screen' = kind, page' = at, locked' \in BOOLEAN, form' = f,
         offered' = roster, leaders' = {}, UNCHANGED <<draft, roster>>
  PROVE  WizardInv'
<1>1. /\ screen' = kind /\ page' = at /\ form' = f /\ offered' = roster /\ leaders' = {}
      /\ UNCHANGED <<draft, roster>>
  OBVIOUS
<1>2. WizardTypeOK'
  BY <1>1 DEF WizardInv, WizardTypeOK, Form
<1>3. LeadersOffered'
  BY <1>1 DEF LeadersOffered, FlowPages
<1> QED
  BY <1>1, <1>2, <1>3 DEF WizardInv, Given

LEMMA TurningKeeps ==
  ASSUME WizardInv, NEW n \in 1..3, TurnTo(n), screen = "flow" => n <= FlowPages,
         screen = "flow" /\ n = 3 => page = 3
  PROVE  WizardInv'
<1>1. /\ page' = n /\ UNCHANGED <<screen, locked, form, offered, leaders, draft, roster>>
  BY DEF TurnTo
<1>2. WizardTypeOK'
  BY <1>1 DEF WizardInv, WizardTypeOK
<1>3. LeadersOffered'
  BY <1>1 DEF WizardInv, LeadersOffered, FlowPages
<1> QED
  BY <1>1, <1>2, <1>3 DEF WizardInv, Given

LEMMA HandingKeeps ==
  ASSUME WizardInv, NEW d \in Draft \cup {NoDraft}, Given(d), Hand(d)
  PROVE  WizardInv'
<1>1. /\ draft' = d /\ screen' = "closed" /\ page' = 1 /\ locked' = FALSE /\ form' = Empty
      /\ offered' = {} /\ leaders' = {} /\ UNCHANGED roster
  BY DEF Hand
<1>2. WizardTypeOK'
  <2>1. Empty \in Form /\ roster \subseteq Person
    BY NothingGiven DEF WizardInv, WizardTypeOK
  <2>2. form' \in Form /\ draft' \in Draft \cup {NoDraft} /\ roster' \subseteq Person
    BY <1>1, <2>1
  <2>3. /\ screen' = "closed" /\ page' \in 1..3
        /\ offered' \subseteq Person /\ leaders' \subseteq Person
    BY <1>1
  <2>4. locked' \in BOOLEAN
    BY <1>1
  <2> QED
    BY <2>2, <2>3, <2>4 DEF WizardTypeOK, Form
<1>3. LeadersOffered'
  BY <1>1 DEF LeadersOffered
<1> QED
  BY <1>1, <1>2, <1>3 DEF WizardInv, Given

\* What was entered has the form of a draft.
LEMMA EnteredIsDraft ==
  ASSUME WizardInv, NEW kind \in {"flow", "agent", "engine", "run"}, NEW l \in Person \cup {Blank}
  PROVE  /\ Entered(kind, l) \in Draft /\ Entered(kind, l) # NoDraft
         /\ Entered(kind, l).kind = kind /\ Entered(kind, l).name = form.name
         /\ Entered(kind, l).mode = form.mode /\ Entered(kind, l).parts = form.parts
         /\ Entered(kind, l).leader = l /\ Entered(kind, l).texts = form.texts
<1>1. form \in Form
  BY DEF WizardInv, WizardTypeOK, Form
<1>2. /\ Entered(kind, l).kind = kind /\ Entered(kind, l).name = form.name
      /\ Entered(kind, l).mode = form.mode /\ Entered(kind, l).parts = form.parts
      /\ Entered(kind, l).leader = l /\ Entered(kind, l).texts = form.texts
  BY DEF Entered
<1>3. Entered(kind, l) \in Draft
  BY <1>1 DEF Entered, Draft, Form
<1>4. NoDraft.kind = "none"
  BY DEF NoDraft
<1> QED
  BY <1>2, <1>3, <1>4

LEMMA OpeningKeeps ==
  ASSUME WizardInv, OpenFlow \/ OpenAgent \/ OpenEngine \/ OpenRun
  PROVE  WizardInv'
<1>1. Empty \in Form /\ roster \subseteq Person
  BY NothingGiven DEF WizardInv, WizardTypeOK
<1>6. locked' \in BOOLEAN
  <2>1. CASE OpenFlow
    BY <2>1 DEF OpenFlow, Show
  <2>2. CASE OpenAgent
    BY <2>2 DEF OpenAgent, Show
  <2>3. CASE OpenEngine
    BY <2>3 DEF OpenEngine, Show
  <2>4. CASE OpenRun
    BY <2>4 DEF OpenRun, Show
  <2> QED
    BY <2>1, <2>2, <2>3, <2>4
<1>2. CASE OpenFlow
  <2>1. CASE Show("flow", 1, FALSE, Empty)
    BY <1>1, <1>6, <2>1, ShowKeeps DEF Show
  <2>2. ASSUME NEW p \in Person, NEW m \in {"workflow", "deliberation", "team"},
               NEW s \in SUBSET roster,
               Show("flow", 1, TRUE, [Empty EXCEPT !.name = p, !.mode = m, !.parts = s])
        PROVE  WizardInv'
    <3>1. [Empty EXCEPT !.name = p, !.mode = m, !.parts = s] \in Form
      BY <1>1 DEF Form
    <3> QED
      BY <1>6, <2>2, <3>1, ShowKeeps DEF Show
  <2> QED
    BY <1>2, <2>1, <2>2 DEF OpenFlow
<1>3. CASE OpenAgent
  <2>1. CASE Show("agent", 1, FALSE, Empty)
    BY <1>1, <1>6, <2>1, ShowKeeps DEF Show
  <2>2. ASSUME NEW p \in roster, NEW s \in SUBSET {"role"},
               Show("agent", 1, TRUE, [Empty EXCEPT !.name = p, !.texts = s])
        PROVE  WizardInv'
    <3>1. [Empty EXCEPT !.name = p, !.texts = s] \in Form
      BY <1>1 DEF Form, Texts
    <3> QED
      BY <1>6, <2>2, <3>1, ShowKeeps DEF Show
  <2> QED
    BY <1>3, <2>1, <2>2 DEF OpenAgent
<1>4. CASE OpenEngine
  <2>1. CASE Show("engine", 1, FALSE, Empty)
    BY <1>1, <1>6, <2>1, ShowKeeps DEF Show
  <2>2. ASSUME NEW p \in Person, NEW s \in SUBSET {"provider", "model"},
               Show("engine", 2, TRUE, [Empty EXCEPT !.name = p, !.texts = s])
        PROVE  WizardInv'
    <3>1. [Empty EXCEPT !.name = p, !.texts = s] \in Form
      BY <1>1 DEF Form, Texts
    <3> QED
      BY <1>6, <2>2, <3>1, ShowKeeps DEF Show
  <2> QED
    BY <1>4, <2>1, <2>2 DEF OpenEngine
<1>5. CASE OpenRun
  BY <1>1, <1>5, <1>6, ShowKeeps DEF OpenRun, Show
<1> QED
  BY <1>2, <1>3, <1>4, <1>5

LEMMA FillingKeeps ==
  ASSUME WizardInv,
         \/ \E p \in Person \cup {Blank} : EnterName(p) \/ PickLeader(p)
         \/ \E s \in SUBSET Texts : EnterText(s)
         \/ \E m \in {"workflow", "deliberation"} : PickMode(m)
         \/ \E s \in SUBSET Person : PickParticipants(s)
         \/ \E p \in Person : HighlightFlow(p)
  PROVE  WizardInv'
<1>1. form \in Form /\ LeadersOffered
  BY DEF WizardInv, WizardTypeOK, Form
<1>2. screen = "flow" => page <= (IF form.mode = "deliberation" THEN 3 ELSE 2)
  BY <1>1 DEF LeadersOffered, FlowPages
<1>3. screen = "flow" /\ page = 3 => leaders = form.parts /\ form.leader \in leaders \cup {Blank}
  BY <1>1 DEF LeadersOffered
<1>4. ASSUME NEW p \in Person \cup {Blank}, EnterName(p) PROVE WizardInv'
  <2> DEFINE f == [form EXCEPT !.name = p]
  <2>1. f \in Form /\ f.mode = form.mode /\ f.parts = form.parts /\ f.leader = form.leader
    BY <1>1 DEF Form
  <2>2. FillIn(f)
    BY <1>4 DEF EnterName
  <2> QED
    BY <1>2, <1>3, <2>1, <2>2, TypingKeeps
<1>5. ASSUME NEW p \in Person \cup {Blank}, PickLeader(p) PROVE WizardInv'
  <2> DEFINE f == [form EXCEPT !.leader = p]
  <2>1. f \in Form /\ f.mode = form.mode /\ f.parts = form.parts /\ f.leader = p
    BY <1>1 DEF Form
  <2>2. FillIn(f) /\ p \in leaders \cup {Blank}
    BY <1>5 DEF PickLeader
  <2> QED
    BY <1>2, <1>3, <2>1, <2>2, TypingKeeps
<1>6. ASSUME NEW s \in SUBSET Texts, EnterText(s) PROVE WizardInv'
  <2> DEFINE f == [form EXCEPT !.texts = s]
  <2>1. f \in Form /\ f.mode = form.mode /\ f.parts = form.parts /\ f.leader = form.leader
    BY <1>1 DEF Form
  <2>2. FillIn(f)
    BY <1>6 DEF EnterText
  <2> QED
    BY <1>2, <1>3, <2>1, <2>2, TypingKeeps
<1>7. ASSUME NEW m \in {"workflow", "deliberation"}, PickMode(m) PROVE WizardInv'
  <2> DEFINE f == [form EXCEPT !.mode = m]
  <2>1. f \in Form
    BY <1>1 DEF Form
  <2>2. FillIn(f) /\ page = 1
    BY <1>7 DEF PickMode
  <2> QED
    BY <2>1, <2>2, TypingKeeps
<1>8. ASSUME NEW s \in SUBSET Person, PickParticipants(s) PROVE WizardInv'
  <2> DEFINE f == [form EXCEPT !.parts = s]
  <2>1. f \in Form
    BY <1>1 DEF Form
  <2>2. FillIn(f) /\ page = 2
    BY <1>8 DEF PickParticipants
  <2> QED
    BY <2>1, <2>2, TypingKeeps
<1>9. ASSUME NEW p \in Person, HighlightFlow(p) PROVE WizardInv'
  <2> DEFINE f == [form EXCEPT !.name = p]
  <2>1. f \in Form
    BY <1>1 DEF Form
  <2>2. FillIn(f) /\ screen = "run"
    BY <1>9 DEF HighlightFlow
  <2> QED
    BY <2>1, <2>2, TypingKeeps
<1> QED
  BY <1>4, <1>5, <1>6, <1>7, <1>8, <1>9

LEMMA PagingKeeps ==
  ASSUME WizardInv, \/ FlowForward \/ AgentForward \/ RunForward \/ AddEngine
                    \/ Backward \/ EngineBackward
  PROVE  WizardInv'
<1>1. form \in Form /\ page \in 1..3 /\ FlowPages \in 2..3 /\ LeadersOffered
  BY DEF WizardInv, WizardTypeOK, Form, FlowPages
<1>2. CASE FlowForward
  <2>1. /\ screen = "flow" /\ page < FlowPages /\ page' = page + 1
        /\ UNCHANGED <<screen, locked, offered, draft, roster>>
    BY <1>2 DEF FlowForward
  <2>2. CASE page = 2
    <3>1. leaders' = form.parts /\ form' = [form EXCEPT !.leader = Blank]
      BY <1>2, <2>2 DEF FlowForward
    <3>2. /\ form' \in Form /\ form'.parts = form.parts /\ form'.leader = Blank
          /\ form'.mode = form.mode
      BY <1>1, <3>1 DEF Form
    <3>3. WizardTypeOK'
      BY <1>1, <2>1, <2>2, <3>1, <3>2 DEF WizardInv, WizardTypeOK, Form
    <3>4. LeadersOffered'
      BY <1>1, <2>1, <2>2, <3>1, <3>2 DEF LeadersOffered, FlowPages
    <3> QED
      BY <2>1, <3>3, <3>4 DEF WizardInv, Given
  <2>3. CASE page = 1
    <3>1. UNCHANGED <<leaders, form>>
      BY <1>2, <2>3 DEF FlowForward
    <3>2. WizardTypeOK'
      BY <2>1, <2>3, <3>1 DEF WizardInv, WizardTypeOK
    <3>3. LeadersOffered'
      BY <1>1, <2>1, <2>3, <3>1 DEF LeadersOffered, FlowPages
    <3> QED
      BY <2>1, <3>2, <3>3 DEF WizardInv, Given
  <2> QED
    BY <1>1, <2>1, <2>2, <2>3
<1>3. CASE AgentForward \/ RunForward
  <2>1. page + 1 \in 1..3 /\ TurnTo(page + 1) /\ screen # "flow"
    BY <1>1, <1>3 DEF AgentForward, RunForward
  <2> QED
    BY <2>1, TurningKeeps
<1>4. CASE AddEngine
  BY <1>4, TurningKeeps DEF AddEngine
<1>5. CASE Backward
  <2>1. page - 1 \in 1..2 /\ TurnTo(page - 1)
    BY <1>1, <1>5 DEF Backward
  <2> QED
    BY <1>1, <2>1, TurningKeeps
<1>6. CASE EngineBackward
  <2>1. /\ screen = "engine" /\ page' = 1 /\ locked' = FALSE /\ form' = Empty
        /\ UNCHANGED <<screen, offered, leaders, draft, roster>>
    BY <1>6 DEF EngineBackward
  <2>2. form' \in Form /\ locked' \in BOOLEAN
    BY <2>1, NothingGiven
  <2>3. WizardTypeOK'
    BY <2>1, <2>2 DEF WizardInv, WizardTypeOK, Form
  <2> QED
    BY <2>1, <2>3 DEF WizardInv, LeadersOffered, Given
<1> QED
  BY <1>2, <1>3, <1>4, <1>5, <1>6

\* A wizard hands over what has been judged, or turns to the first page that
\* does not fit.
LEMMA HandedFits ==
  ASSUME WizardInv, HandFlow \/ HandAgent \/ HandEngine \/ HandRun \/ Escape
  PROVE  WizardInv'
<1>1. form \in Form /\ page \in 1..3 /\ FlowPages \in 2..3 /\ LeadersOffered
  BY DEF WizardInv, WizardTypeOK, Form, FlowPages
<1>2. CASE HandFlow
  <2> DEFINE bad == {n \in 1..FlowPages : ~FlowPageFits(n)}
             leader == IF form.mode = "deliberation" THEN form.leader ELSE Blank
             d == Entered("flow", leader)
             n == CHOOSE n \in bad : \A m \in bad : n <= m
  <2>1. screen = "flow" /\ page = FlowPages
    BY <1>2 DEF HandFlow
  <2>2. CASE bad = {}
    <3>1. \A m \in 1..FlowPages : FlowPageFits(m)
      BY <2>2
    <3>2. FlowPageFits(1) /\ FlowPageFits(2) /\ (FlowPages = 3 => FlowPageFits(3))
      BY <1>1, <3>1
    <3>3. /\ form.name # Blank /\ Cardinality(form.parts) >= 2
          /\ FlowPages = 3 /\ form.mode = "deliberation" => form.leader # Blank
      BY <3>2 DEF FlowPageFits
    <3>4. form.mode = "deliberation" => FlowPages = 3 /\ form.leader \in form.parts
      BY <1>1, <2>1, <3>3 DEF FlowPages, LeadersOffered
    <3>5. leader \in Person \cup {Blank}
      BY <1>1 DEF Form
    <3>6. /\ d \in Draft /\ d.kind = "flow" /\ d.name = form.name /\ d.mode = form.mode
          /\ d.parts = form.parts /\ d.leader = leader
      BY <3>5, EnteredIsDraft
    <3> HIDE DEF d
    <3>7. Given(d)
      BY <3>3, <3>4, <3>6 DEF Given
    <3>8. Hand(d)
      BY <1>2, <2>2 DEF HandFlow, d
    <3> QED
      BY <3>6, <3>7, <3>8, HandingKeeps
  <2>3. CASE bad # {}
    <3>1. bad \subseteq 1..3
      BY <1>1
    <3>2. \E least \in bad : \A m \in bad : least <= m
      <4>1. CASE 1 \in bad
        BY <3>1, <4>1
      <4>2. CASE 1 \notin bad /\ 2 \in bad
        BY <3>1, <4>2
      <4>3. CASE 1 \notin bad /\ 2 \notin bad
        BY <2>3, <3>1, <4>3
      <4> QED
        BY <4>1, <4>2, <4>3
    <3>3. n \in bad
      BY <3>2
    <3>4. TurnTo(n)
      BY <1>2, <2>3 DEF HandFlow
    <3> HIDE DEF n
    <3>5. n \in 1..3 /\ n <= FlowPages /\ (n = 3 => page = 3)
      BY <1>1, <2>1, <3>3
    <3> QED
      BY <3>4, <3>5, TurningKeeps
  <2> QED
    BY <2>2, <2>3
<1>3. CASE HandAgent
  <2>1. CASE AgentFits
    <3> DEFINE d == Entered("agent", Blank)
    <3>1. /\ d \in Draft /\ d.kind = "agent" /\ d.name = form.name /\ d.texts = form.texts
      BY EnteredIsDraft
    <3>2. Hand(d)
      BY <1>3, <2>1 DEF HandAgent
    <3> HIDE DEF d
    <3>3. Given(d)
      BY <2>1, <3>1 DEF Given, AgentFits
    <3> QED
      BY <3>1, <3>2, <3>3, HandingKeeps
  <2>2. CASE ~AgentFits
    <3>1. TurnTo(1) /\ screen = "agent"
      BY <1>3, <2>2 DEF HandAgent
    <3> QED
      BY <3>1, TurningKeeps
  <2> QED
    BY <2>1, <2>2
<1>4. CASE HandEngine
  <2> DEFINE d == Entered("engine", Blank)
  <2>1. /\ d \in Draft /\ d.kind = "engine" /\ d.name = form.name /\ d.texts = form.texts
    BY EnteredIsDraft
  <2>2. Hand(d) /\ form.name # Blank /\ {"provider", "model"} \subseteq form.texts
    BY <1>4 DEF HandEngine
  <2> HIDE DEF d
  <2>3. Given(d)
    BY <2>1, <2>2 DEF Given
  <2> QED
    BY <2>1, <2>2, <2>3, HandingKeeps
<1>5. CASE HandRun
  <2> DEFINE d == Entered("run", Blank)
  <2>1. d \in Draft /\ d.kind = "run" /\ d.name = form.name
    BY EnteredIsDraft
  <2>2. Hand(d) /\ form.name # Blank
    BY <1>5 DEF HandRun
  <2> HIDE DEF d
  <2>3. Given(d)
    BY <2>1, <2>2 DEF Given
  <2> QED
    BY <2>1, <2>2, <2>3, HandingKeeps
<1>6. CASE Escape
  BY <1>6, NothingGiven, HandingKeeps DEF Escape
<1> QED
  BY <1>2, <1>3, <1>4, <1>5, <1>6

LEMMA WizardStart == WizardInit => WizardInv
<1> SUFFICES ASSUME WizardInit PROVE WizardInv
  OBVIOUS
<1>1. form \in Form /\ Given(draft)
  BY NothingGiven DEF WizardInit
<1>2. /\ screen = "closed" /\ page = 1 /\ offered = {} /\ leaders = {}
      /\ draft = NoDraft /\ roster \subseteq Person
  BY DEF WizardInit
<1>3. locked \in BOOLEAN
  BY DEF WizardInit
<1>4. WizardTypeOK
  BY <1>1, <1>2, <1>3 DEF WizardTypeOK, Form
<1> QED
  BY <1>1, <1>2, <1>4 DEF WizardInv, LeadersOffered

LEMMA WizardStep == WizardInv /\ [WizardNext]_wizardVars => WizardInv'
<1> SUFFICES ASSUME WizardInv, [WizardNext]_wizardVars PROVE WizardInv'
  OBVIOUS
<1>1. ASSUME TakeDraft PROVE WizardInv'
  <2>1. /\ draft # NoDraft /\ draft' = NoDraft
        /\ UNCHANGED <<screen, page, locked, form, offered, leaders>>
        /\ roster' = roster \/ (draft.kind = "agent" /\ roster' = roster \cup {draft.name})
    BY <1>1 DEF TakeDraft
  <2>2. draft \in Draft /\ draft.name \in Person
    BY <2>1 DEF WizardInv, WizardTypeOK, Draft, Given
  <2>3. WizardTypeOK'
    BY <2>1, <2>2 DEF WizardInv, WizardTypeOK
  <2>4. LeadersOffered'
    BY <2>1 DEF WizardInv, LeadersOffered, FlowPages
  <2> QED
    BY <2>1, <2>3, <2>4, NothingGiven DEF WizardInv
<1>2. ASSUME NEW p \in Person, ChangeElsewhere(p) PROVE WizardInv'
  <2>1. /\ roster' = roster \cup {p} \/ roster' = roster \ {p}
        /\ UNCHANGED <<screen, page, locked, form, offered, leaders, draft>>
    BY <1>2 DEF ChangeElsewhere
  <2> QED
    BY <2>1 DEF WizardInv, WizardTypeOK, LeadersOffered, FlowPages, Given
<1>3. CASE UNCHANGED wizardVars
  BY <1>3 DEF wizardVars, WizardInv, WizardTypeOK, LeadersOffered, FlowPages, Given
<1> QED
  BY <1>1, <1>2, <1>3, OpeningKeeps, FillingKeeps, PagingKeeps, HandedFits DEF WizardNext

\* For any names, whatever the order in which pages are filled, left and filled
\* again: a draft is complete, a deliberation in it is led by one of its
\* participants, and no page is shown that the mode does not have
\* (flow_wizard.py:253-406, agent_wizard.py:268-360, engine_wizard.py:344-407).
THEOREM WizardsAlwaysGuide == WizardSpec => []WizardsGuide
<1>1. WizardInv => WizardsGuide
  BY DEF WizardInv, LeadersOffered, Given, WizardsGuide
<1> QED
  BY WizardStart, WizardStep, <1>1, PTL DEF WizardSpec

-----------------------------------------------------------------------------
(* The run command.  While a run goes on, its own identifier is new, and    *)
(* its context is at least as far as the checkpoint it came from.           *)

Resumable ==
  /\ \A r \in RunId : saved[r] # -1 => r \in used
  /\ stage \in {"opening", "resolving"} => carried = NoRun
  /\ stage \in {"running", "timedOut", "interrupted"} =>
        /\ own \in used
        /\ project.target => carried = wanted
        /\ project.target /\ wanted # NoRun => wanted \in used /\ saved[wanted] <= progress
        /\ wanted = NoRun => saved[own] = -1
  /\ stage \in {"timedOut", "interrupted"} => project.target
  /\ kept => stage = "shell"

CommandInv == CommandTypeOK /\ Resumable

LEMMA CommandStart == CommandInit => CommandInv
<1> SUFFICES ASSUME CommandInit PROVE CommandInv
  OBVIOUS
<1>1. saved \in [RunId -> -1..MaxWork]
  BY RunIdAssumption DEF CommandInit
<1>2. limited \in BOOLEAN /\ kept \in BOOLEAN
  BY DEF CommandInit
<1>3. CommandTypeOK
  BY <1>1, <1>2, RunIdAssumption DEF CommandInit, CommandTypeOK
<1>4. Resumable
  BY DEF CommandInit, Resumable
<1> QED
  BY <1>3, <1>4 DEF CommandInv

Keeping ==
  /\ kept' => saved'[IF wanted' # NoRun THEN wanted' ELSE own'] = progress'
  /\ \A r \in RunId : saved'[r] >= saved[r]

\* A step keeps the invariant, and what earlier steps have saved.
LEMMA CommandStep == CommandInv /\ CommandRuns => CommandInv' /\ Keeping
<1> SUFFICES ASSUME CommandInv, CommandRuns PROVE CommandInv' /\ Keeping
  OBVIOUS
<1> USE RunIdAssumption DEF CommandInv
<1>1. /\ MaxWork \in Nat /\ progress \in Int /\ \A r \in RunId : saved[r] \in Int
  BY DEF CommandTypeOK
<1>2. CASE Refuse
  <2>1. stage = "shell" /\ exitCode' \in {1, 2} /\ kept' = FALSE
        /\ UNCHANGED <<project, stage, limited, wanted, own, carried, progress, saved, used>>
    BY <1>2 DEF Refuse
  <2>2. kept' \in BOOLEAN
    BY <2>1
  <2>3. CommandTypeOK'
    BY <2>1, <2>2 DEF CommandTypeOK
  <2>4. Resumable'
    BY <2>1 DEF Resumable
  <2> QED
    BY <1>1, <2>1, <2>3, <2>4 DEF Keeping
<1>3. CASE OpenStore
  BY <1>1, <1>3 DEF OpenStore, ExitWith, Unmoved, CommandTypeOK, Resumable, Keeping
<1>4. CASE TargetFails
  BY <1>1, <1>4 DEF TargetFails, ExitWith, Unmoved, CommandTypeOK, Resumable, Keeping
<1>5. CASE ResumeFails
  BY <1>1, <1>5 DEF ResumeFails, ExitWith, Unmoved, CommandTypeOK, Resumable, Keeping
<1>6. CASE WorkOn
  BY <1>1, <1>6 DEF WorkOn, Unmoved, CommandTypeOK, Resumable, Keeping
<1>7. CASE Succeed
  BY <1>1, <1>7 DEF Succeed, ExitWith, Unmoved, CommandTypeOK, Resumable, Keeping
<1>8. CASE FlowRaises
  BY <1>1, <1>8 DEF FlowRaises, ExitWith, Unmoved, CommandTypeOK, Resumable, Keeping
<1>9. CASE TimeLimit
  BY <1>1, <1>9 DEF TimeLimit, StopTarget, Unmoved, CommandTypeOK, Resumable, Keeping
<1>10. CASE Interrupt
  BY <1>1, <1>10 DEF Interrupt, StopTarget, ExitWith, Unmoved, CommandTypeOK, Resumable, Keeping
<1>11. CASE LastSave
  <2>1. /\ stage \in {"timedOut", "interrupted"} /\ stage' = "shell" /\ exitCode' \in {124, 130}
        /\ UNCHANGED <<carried, progress, project, limited, wanted, own, used>>
    BY <1>11 DEF LastSave, ExitWith, Unmoved
  <2>2. CASE UNCHANGED <<saved, kept>>
    BY <1>1, <2>1, <2>2 DEF CommandTypeOK, Resumable, Keeping
  <2>3. CASE saved' = [saved EXCEPT ![SaveUnder] = progress] /\ kept' = TRUE
    <3> DEFINE at == IF wanted # NoRun THEN wanted ELSE own
    <3>1. SaveUnder = at /\ at \in RunId /\ at \in used /\ saved[at] <= progress
      BY <1>1, <2>1 DEF SaveUnder, CommandTypeOK, Resumable
    <3> HIDE DEF at
    <3>2. saved' = [saved EXCEPT ![at] = progress]
      BY <2>3, <3>1
    <3>3. kept' \in BOOLEAN
      BY <2>3
    <3>8. saved' \in [RunId -> -1..MaxWork]
      <4>1. saved \in [RunId -> -1..MaxWork] /\ progress \in -1..MaxWork
        BY <1>1 DEF CommandTypeOK
      <4> QED
        BY <3>1, <3>2, <4>1
    <3>4. CommandTypeOK'
      BY <2>1, <3>3, <3>8 DEF CommandTypeOK
    <3>5. Resumable'
      BY <1>1, <2>1, <3>1, <3>2 DEF CommandTypeOK, Resumable
    <3>6. saved'[at] = progress /\ \A r \in RunId : saved'[r] >= saved[r]
      BY <1>1, <3>1, <3>2 DEF CommandTypeOK
    <3>7. Keeping
      BY <2>1, <3>6 DEF Keeping, at
    <3> QED
      BY <3>4, <3>5, <3>7
  <2> QED
    BY <1>11, <2>2, <2>3 DEF LastSave
<1>12. ASSUME NEW r \in RunId, Begun(r) PROVE CommandInv' /\ Keeping
  <2>1. /\ stage = "resolving" /\ stage' = "running" /\ r \notin used /\ own' = r
        /\ used' = used \cup {r} /\ UNCHANGED <<project, limited, wanted, saved, exitCode, kept>>
        /\ carried = NoRun /\ ~kept /\ saved[r] = -1
    BY <1>12 DEF Begun, Resumable, CommandTypeOK
  <2>2. CASE project.target /\ wanted # NoRun
    <3>1. saved[wanted] # -1 /\ carried' = wanted /\ progress' = saved[wanted]
      BY <1>12, <2>2 DEF Begun
    <3>2. wanted \in RunId /\ wanted \in used /\ progress' \in 0..MaxWork
      BY <1>1, <2>2, <3>1 DEF CommandTypeOK, Resumable
    <3>3. CommandTypeOK'
      BY <2>1, <3>1, <3>2 DEF CommandTypeOK
    <3>4. Resumable'
      BY <1>1, <2>1, <2>2, <3>1, <3>2 DEF CommandTypeOK, Resumable
    <3> QED
      BY <1>1, <2>1, <3>3, <3>4 DEF Keeping
  <2>3. CASE ~(project.target /\ wanted # NoRun)
    <3>1. UNCHANGED <<carried, progress>>
      BY <1>12, <2>3 DEF Begun
    <3>2. CommandTypeOK'
      BY <2>1, <3>1 DEF CommandTypeOK
    <3>3. Resumable'
      BY <1>1, <2>1, <2>3, <3>1 DEF CommandTypeOK, Resumable
    <3> QED
      BY <1>1, <2>1, <3>2, <3>3 DEF Keeping
  <2> QED
    BY <2>2, <2>3
<1>13. ASSUME NEW r \in RunId \cup {NoRun}, NEW t \in BOOLEAN, Launch(r, t)
       PROVE  CommandInv' /\ Keeping
  <2>1. /\ stage' \in {"opening", "resolving"} /\ wanted' = r /\ own' = NoRun /\ carried' = NoRun
        /\ progress' = 0 /\ kept' = FALSE /\ UNCHANGED <<project, saved, used, exitCode>>
    BY <1>13 DEF Launch
  <2>2. limited' \in BOOLEAN /\ kept' \in BOOLEAN
    BY <1>13 DEF Launch
  <2>3. CommandTypeOK'
    BY <2>1, <2>2 DEF CommandTypeOK
  <2>4. Resumable'
    BY <1>1, <2>1 DEF CommandTypeOK, Resumable
  <2> QED
    BY <1>1, <2>1, <2>3, <2>4 DEF Keeping
<1> HIDE DEF CommandInv
<1> QED
  BY <1>2, <1>3, <1>4, <1>5, <1>6, <1>7, <1>8, <1>9, <1>10, <1>11, <1>12, <1>13 DEF CommandRuns

\* However often runs are stopped and resumed, what the last save holds is found
\* under the identifier the run was resumed with, or under its own, and no save
\* takes back what another has kept (run_pipeline.py:152-166, 226-247;
\* pipeline_runner.py:206-228).
THEOREM WorkIsAlwaysKept == CommandSpec => WorkIsKept
<1>1. CommandInv /\ [CommandRuns]_commandVars => CommandInv'
  <2>1. CommandInv /\ UNCHANGED commandVars => CommandInv'
    BY DEF commandVars, CommandInv, CommandTypeOK, Resumable
  <2> QED
    BY <2>1, CommandStep
<1>2. CommandInv /\ [CommandRuns]_commandVars => [Keeping]_commandVars
  BY CommandStep
<1> QED
  BY CommandStart, <1>1, <1>2, PTL DEF CommandSpec, WorkIsKept, Keeping
=============================================================================
