------------------------------- MODULE Wizards ------------------------------
(***************************************************************************)
(* The dashboard's wizards: the screens that collect a flow, an agent, an  *)
(* engine or a run page by page and hand the app a draft of it.            *)
(*                                                                         *)
(* One wizard is open at a time.  Going back keeps what was typed, so a    *)
(* page may be filled again after a later one that was built from it; what *)
(* is offered was read when the wizard was opened, while other clients     *)
(* change the workspace.  The name of what is edited is locked.  The app   *)
(* creates what the draft says, and refuses names that are taken, the      *)
(* edited one included.  Texts are present or not.                         *)
(***************************************************************************)
EXTENDS FiniteSets, Naturals

CONSTANTS Person,   \* names of agents
          Blank     \* nothing typed, nothing selected

ASSUME BlankAssumption == Blank \notin Person

VARIABLES screen,   \* the wizard that is open
          page,
          locked,   \* the name cannot be changed
          form,     \* what has been entered
          offered,  \* the agents or flows listed when the wizard was opened
          leaders,  \* the options of the leader's field
          draft,    \* what a wizard handed over and the app has not yet taken
          roster    \* the agents of the workspace

wizardVars == <<screen, page, locked, form, offered, leaders, draft, roster>>

Texts == {"role", "provider", "model"}
Empty == [name |-> Blank, mode |-> "workflow", parts |-> {}, leader |-> Blank, texts |-> {}]
Draft == [kind : {"flow", "agent", "engine", "run"}, name : Person \cup {Blank},
          mode : {"workflow", "deliberation", "team"}, parts : SUBSET Person,
          leader : Person \cup {Blank}, texts : SUBSET Texts]
NoDraft == [kind |-> "none"]

WizardInit ==
  /\ screen = "closed" /\ page = 1 /\ locked = FALSE
  /\ form = Empty /\ offered = {} /\ leaders = {} /\ draft = NoDraft
  /\ roster \in SUBSET Person

WizardTypeOK ==
  /\ screen \in {"closed", "flow", "agent", "engine", "run"}
  /\ page \in 1..3 /\ locked \in BOOLEAN
  /\ form \in [name : Person \cup {Blank}, mode : {"workflow", "deliberation", "team"},
               parts : SUBSET Person, leader : Person \cup {Blank}, texts : SUBSET Texts]
  /\ offered \subseteq Person /\ leaders \subseteq Person /\ roster \subseteq Person
  /\ draft \in Draft \cup {NoDraft}

Show(kind, at, name, entered) ==
  /\ screen = "closed" /\ draft = NoDraft
  /\ screen' = kind /\ page' = at /\ locked' = name /\ form' = entered
  /\ offered' = roster /\ leaders' = {}
  /\ UNCHANGED <<draft, roster>>

\* The file's leader is set while the field has no options, and is lost.
OpenFlow ==
  \/ Show("flow", 1, FALSE, Empty)
  \/ \E p \in Person, m \in {"workflow", "deliberation", "team"}, s \in SUBSET roster :
        Show("flow", 1, TRUE, [Empty EXCEPT !.name = p, !.mode = m, !.parts = s])

OpenAgent ==
  \/ Show("agent", 1, FALSE, Empty)
  \/ \E p \in roster, s \in SUBSET {"role"} :
        Show("agent", 1, TRUE, [Empty EXCEPT !.name = p, !.texts = s])

\* The list of what was discovered, or the form of what is edited.
OpenEngine ==
  \/ Show("engine", 1, FALSE, Empty)
  \/ \E p \in Person, s \in SUBSET {"provider", "model"} :
        Show("engine", 2, TRUE, [Empty EXCEPT !.name = p, !.texts = s])

OpenRun == Show("run", 1, FALSE, Empty)

FillIn(entered) ==
  /\ form' = entered
  /\ UNCHANGED <<screen, page, locked, offered, leaders, draft, roster>>

EnterName(p) ==
  /\ \/ screen \in {"flow", "agent"} /\ page = 1
     \/ screen = "engine" /\ page = 2
  /\ ~locked
  /\ FillIn([form EXCEPT !.name = p])

EnterText(s) ==
  /\ \/ screen = "agent" /\ page = 1 /\ s \subseteq {"role"}
     \/ screen = "engine" /\ page = 2 /\ s \subseteq {"provider", "model"}
  /\ FillIn([form EXCEPT !.texts = s])

\* The radio buttons report changes only; a team's flow shows as workflow.
PickMode(m) ==
  /\ screen = "flow" /\ page = 1
  /\ (form.mode = "deliberation") # (m = "deliberation")
  /\ FillIn([form EXCEPT !.mode = m])

PickParticipants(s) ==
  /\ screen = "flow" /\ page = 2 /\ s \subseteq offered
  /\ FillIn([form EXCEPT !.parts = s])

PickLeader(p) ==
  /\ screen = "flow" /\ page = 3 /\ p \in leaders \cup {Blank}
  /\ FillIn([form EXCEPT !.leader = p])

HighlightFlow(p) ==
  /\ screen = "run" /\ page = 1 /\ p \in offered
  /\ FillIn([form EXCEPT !.name = p])

FlowPages == IF form.mode = "deliberation" THEN 3 ELSE 2

FlowPageFits(n) ==
  CASE n = 1 -> form.name # Blank
    [] n = 2 -> Cardinality(form.parts) >= 2
    [] n = 3 -> form.mode = "deliberation" => form.leader # Blank

AgentFits ==
  /\ form.name # Blank /\ "role" \in form.texts
  /\ ~locked => form.name \notin roster

\* Variant: the options of the leader's field are built on the first visit.
FlowForwardKept ==
  /\ screen = "flow" /\ page < FlowPages /\ FlowPageFits(page)
  /\ page' = page + 1
  /\ leaders' = IF page = 2 /\ leaders = {} THEN form.parts ELSE leaders
  /\ UNCHANGED <<screen, form, locked, offered, draft, roster>>

\* The leader's page is built anew from the participants, nobody selected.
FlowForward ==
  /\ screen = "flow" /\ page < FlowPages /\ FlowPageFits(page)
  /\ page' = page + 1
  /\ IF page = 2 THEN leaders' = form.parts /\ form' = [form EXCEPT !.leader = Blank]
                 ELSE UNCHANGED <<leaders, form>>
  /\ UNCHANGED <<screen, locked, offered, draft, roster>>

TurnTo(n) ==
  /\ page' = n
  /\ UNCHANGED <<screen, locked, form, offered, leaders, draft, roster>>

AgentForward == screen = "agent" /\ page < 3 /\ (page = 1 => AgentFits) /\ TurnTo(page + 1)
RunForward == screen = "run" /\ page < 3 /\ (page = 1 => form.name # Blank) /\ TurnTo(page + 1)
AddEngine == screen = "engine" /\ page = 1 /\ TurnTo(2)
Backward == screen \in {"flow", "agent", "run"} /\ page > 1 /\ TurnTo(page - 1)

\* The engine's form is cleared and its name unlocked.
EngineBackward ==
  /\ screen = "engine" /\ page = 2
  /\ page' = 1 /\ locked' = FALSE /\ form' = Empty
  /\ UNCHANGED <<screen, offered, leaders, draft, roster>>

Hand(what) ==
  /\ draft' = what /\ screen' = "closed" /\ page' = 1
  /\ locked' = FALSE /\ form' = Empty /\ offered' = {} /\ leaders' = {}
  /\ UNCHANGED roster

Entered(kind, leader) ==
  [kind |-> kind, name |-> form.name, mode |-> form.mode, parts |-> form.parts,
   leader |-> leader, texts |-> form.texts]

\* Everything is judged again; the first page that does not fit is shown.
HandFlow ==
  /\ screen = "flow" /\ page = FlowPages
  /\ LET bad == {n \in 1..FlowPages : ~FlowPageFits(n)}
     IN IF bad = {} THEN Hand(Entered("flow", IF form.mode = "deliberation"
                                              THEN form.leader ELSE Blank))
        ELSE TurnTo(CHOOSE n \in bad : \A m \in bad : n <= m)

HandAgent ==
  /\ screen = "agent" /\ page = 3
  /\ IF AgentFits THEN Hand(Entered("agent", Blank)) ELSE TurnTo(1)

HandEngine ==
  /\ screen = "engine" /\ page = 2
  /\ form.name # Blank /\ {"provider", "model"} \subseteq form.texts
  /\ Hand(Entered("engine", Blank))

HandRun == screen = "run" /\ page = 3 /\ form.name # Blank /\ Hand(Entered("run", Blank))

Escape == screen # "closed" /\ Hand(NoDraft)

\* The callback: an agent is created if its name is free.
TakeDraft ==
  /\ draft # NoDraft
  /\ draft' = NoDraft
  /\ roster' \in {roster} \cup (IF draft.kind = "agent" THEN {roster \cup {draft.name}} ELSE {})
  /\ UNCHANGED <<screen, page, locked, form, offered, leaders>>

\* Another client creates or deletes an agent.
ChangeElsewhere(p) ==
  /\ roster' \in {roster \cup {p}, roster \ {p}}
  /\ UNCHANGED <<screen, page, locked, form, offered, leaders, draft>>

WizardNext ==
  \/ OpenFlow \/ OpenAgent \/ OpenEngine \/ OpenRun
  \/ \E p \in Person \cup {Blank} : EnterName(p) \/ PickLeader(p)
  \/ \E s \in SUBSET Texts : EnterText(s)
  \/ \E m \in {"workflow", "deliberation"} : PickMode(m)
  \/ \E s \in SUBSET Person : PickParticipants(s)
  \/ \E p \in Person : HighlightFlow(p) \/ ChangeElsewhere(p)
  \/ FlowForward \/ AgentForward \/ RunForward \/ AddEngine \/ Backward \/ EngineBackward
  \/ HandFlow \/ HandAgent \/ HandEngine \/ HandRun \/ Escape \/ TakeDraft

WizardSpec == WizardInit /\ [][WizardNext]_wizardVars

-----------------------------------------------------------------------------
(* Properties.                                                              *)

\* Whatever the order in which pages are filled, left and filled again, a
\* draft is complete and its parts fit each other: a deliberation is led by
\* one of its participants, who are two at least, and nobody leads anything
\* else; and no change of mode leaves the user on a page that is not there,
\* with neither Next nor Create.
\* (flow_wizard.py:253-406, agent_wizard.py:268-360, engine_wizard.py:344-407)
WizardsGuide ==
  /\ screen = "flow" => page <= FlowPages
  /\ draft # NoDraft => draft.name # Blank
  /\ draft.kind = "flow" =>
        /\ Cardinality(draft.parts) >= 2
        /\ IF draft.mode = "deliberation" THEN draft.leader \in draft.parts
                                          ELSE draft.leader = Blank
  /\ draft.kind = "agent" => "role" \in draft.texts
  /\ draft.kind = "engine" => {"provider", "model"} \subseteq draft.texts
=============================================================================
