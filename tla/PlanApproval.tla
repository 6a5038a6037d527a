---------------------------- MODULE PlanApproval ----------------------------
(***************************************************************************)
(* PlanApprovalRegistry: a requester registers a request and waits for its *)
(* decision under a timeout; anybody may resolve it.  resolve marks the    *)
(* slot, awaits the publication of the decision, and only then sets the    *)
(* event the requester sleeps on.  A tool that plan_approval.required_for  *)
(* lists is held until a request of its own is answered: the wrapped tool  *)
(* asks, waits and runs only if it is granted (ApprovalGatedToolRegistry). *)
(***************************************************************************)
EXTENDS Naturals, FiniteSets

CONSTANTS Request   \* correlation ids

VARIABLES slot,      \* decision of each request; "open" until it is resolved
          ringing,   \* resolved requests whose event is not set yet
          rung,      \* requests whose event is set
          published, \* <<request, decision>> events
          wait,      \* the requester's call of wait
          answer,    \* what wait returned
          tool       \* the tool held back by each request, "none" if no tool is

approvalVars == <<slot, ringing, rung, published, wait, answer, tool>>

Decision == {"granted", "denied"}
Resolved == Decision \cup {"timeout"}

ApprovalTypeOK ==
  /\ slot \in [Request -> {"free", "open"} \cup Resolved]
  /\ ringing \subseteq Request /\ rung \subseteq Request
  /\ published \subseteq Request \X Resolved
  /\ wait \in [Request -> {"no", "sleeps", "expired", "yields", "over"}]
  /\ answer \in [Request -> {"none", "cancelled"} \cup Resolved]
  /\ tool \in [Request -> {"none", "held", "ran", "refused"}]

ApprovalInit ==
  /\ slot = [q \in Request |-> "free"]
  /\ ringing = {} /\ rung = {} /\ published = {}
  /\ wait = [q \in Request |-> "no"]
  /\ answer = [q \in Request |-> "none"]
  /\ tool = [q \in Request |-> "none"]

Register(q) ==
  /\ slot[q] = "free"
  /\ slot' = [slot EXCEPT ![q] = "open"]
  /\ tool' \in {tool, [tool EXCEPT ![q] = "held"]}
  /\ UNCHANGED <<ringing, rung, published, wait, answer>>

StartWait(q) ==
  /\ slot[q] # "free" /\ wait[q] = "no"
  /\ wait' = [wait EXCEPT ![q] = "sleeps"]
  /\ UNCHANGED <<slot, ringing, rung, published, answer, tool>>

Return(q, a) ==
  /\ wait' = [wait EXCEPT ![q] = "over"]
  /\ answer' = [answer EXCEPT ![q] = a]

\* Variant: a second decision replaces the first.
ResolveAgain(q, d) ==
  /\ slot' = [slot EXCEPT ![q] = d]
  /\ ringing' = ringing \cup {q}
  /\ UNCHANGED <<rung, published, wait, answer, tool>>

\* Of a request that is resolved resolve takes no notice.
Resolve(q, d) ==
  /\ IF slot[q] = "open"
     THEN slot' = [slot EXCEPT ![q] = d] /\ ringing' = ringing \cup {q}
     ELSE UNCHANGED <<slot, ringing>>
  /\ UNCHANGED <<rung, published, wait, answer, tool>>

\* The decision is published; a requester that resolved the request itself,
\* by its timeout, goes on.
Ring(q) ==
  /\ q \in ringing
  /\ ringing' = ringing \ {q}
  /\ rung' = rung \cup {q}
  /\ published' = published \cup {<<q, slot[q]>>}
  /\ IF wait[q] = "yields" THEN Return(q, "timeout") ELSE UNCHANGED <<wait, answer>>
  /\ UNCHANGED <<slot, tool>>

Wake(q) ==
  /\ wait[q] = "sleeps" /\ q \in rung
  /\ Return(q, slot[q])
  /\ UNCHANGED <<slot, ringing, rung, published, tool>>

\* The deadline passes; wait goes on a turn later.
Expire(q) ==
  /\ wait[q] = "sleeps"
  /\ wait' = [wait EXCEPT ![q] = "expired"]
  /\ UNCHANGED <<slot, ringing, rung, published, answer, tool>>

\* Whatever the decision is by now, an expired wait answers "timeout"; an open
\* request it resolves itself.
GiveUp(q) ==
  /\ wait[q] = "expired"
  /\ IF slot[q] = "open"
     THEN /\ slot' = [slot EXCEPT ![q] = "timeout"]
          /\ ringing' = ringing \cup {q}
          /\ wait' = [wait EXCEPT ![q] = "yields"]
          /\ UNCHANGED <<rung, published, answer, tool>>
     ELSE Return(q, "timeout") /\ UNCHANGED <<slot, ringing, rung, published, tool>>

\* The requester is cancelled.
Abandon(q) ==
  /\ wait[q] \in {"sleeps", "expired", "yields"}
  /\ Return(q, "cancelled")
  /\ ringing' = IF wait[q] = "yields" THEN ringing \ {q} ELSE ringing
  /\ UNCHANGED <<slot, rung, published, tool>>

\* The requester has its answer; a tool that was held runs, or is refused with
\* TOOL_FAILED.
PassGate(q) ==
  /\ tool' = [tool EXCEPT ![q] = CASE @ = "none"            -> "none"
                                   [] answer[q] = "granted" -> "ran"
                                   [] OTHER                 -> "refused"]
  /\ UNCHANGED <<slot, ringing, rung, published, wait, answer>>

WaitStep(q) == Wake(q) \/ Expire(q) \/ GiveUp(q) \/ Ring(q)

-----------------------------------------------------------------------------
\* A requester that is told a decision is told the one decision of its request,
\* which the events repeat and nothing replaces; one that is told "timeout"
\* cannot be granted its request afterwards; and a tool behind a request has
\* only run if the request is granted, now and for ever.
AnswersAgree ==
  \A q \in Request :
     /\ answer[q] \in Decision => slot[q] = answer[q]
     /\ answer[q] = "timeout" => slot[q] \in Resolved
     /\ \A d \in Resolved : <<q, d>> \in published => slot[q] = d
     /\ tool[q] = "ran" => slot[q] = "granted"
=============================================================================
