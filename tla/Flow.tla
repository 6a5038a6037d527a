-------------------------------- MODULE Flow --------------------------------
(***************************************************************************)
(* What the coordination runtimes share: a flow has steps or participants  *)
(* (numbered in the order of FlowConfig.participants), makes supervised    *)
(* calls under a timeout policy, publishes events, and ends in a RunResult *)
(* or an exception.  Sinks do not raise: the runner's bus and composite    *)
(* sink catch every Exception of a handler.                                *)
(***************************************************************************)
EXTENDS Supervision, Sequences, SequencesExt

CONSTANTS N      \* participants
ASSUME StepsAssumption == N \in Nat \ {0} /\ Caller = 1..N

VARIABLES mode,       \* FlowConfig.mode, with the two kinds of workflow apart
          onTimeout,  \* FlowConfig.on_timeout_action
          phase,      \* where the flow is; "end" once the runtime has returned
          log,        \* events on the life cycle of the run
          result      \* status of the RunResult

flowVars == <<mode, onTimeout, phase, log, result>>

Step == 1..N
Main == 1             \* the task that runs a flow without parallel branches

Mode == {"pipeline", "sequence", "fan-out", "deliberation", "loop", "team"}
Result == {"finished", "failed", "timed_out", "cancelled"}

\* The runtime publishes e and returns r.
Conclude(e, r) ==
  /\ phase' = "end"
  /\ log' = Append(log, e)
  /\ result' = r
  /\ UNCHANGED <<mode, onTimeout>>

Proceed(p) ==
  /\ phase' = p
  /\ UNCHANGED <<mode, onTimeout, log, result>>

\* The coordination runtime announces its start.
Announce(m, e, p) ==
  /\ mode = m /\ phase = "begin"
  /\ log' = Append(log, e)
  /\ phase' = p
  /\ UNCHANGED <<mode, onTimeout, result>>

-----------------------------------------------------------------------------
(* What AgentRuntime's calls make of the text a model answers with.  The     *)
(* calls for contributions, reviews, verdicts and documents look for a JSON  *)
(* object and take anything that is no JSON as plain text; with              *)
(* response_format "free_text" they take every answer as text.  A router's   *)
(* answer has to be the object it was asked for: the decision to terminate   *)
(* that route() would fall back to lacks fields a RouterDecision needs, so   *)
(* an unreadable answer raises, as a half-filled one does.                   *)
(*                                                                           *)
(* text: no JSON;  object: an object whose fields have the right types;      *)
(* misfit: one with wrong types, or for a router with fields missing;        *)
(* foreign: JSON that is no object, whose fields nobody can look up.         *)

Form == {"text", "object", "misfit", "foreign"}

Contributes(form) == form \in {"text", "object"}
Reviews(form)     == form \in {"text", "object"}
Documents(form)   == form \in {"text", "object"}

\* is_sufficient: plain text is, an object says so, or is if it does not say.
Judges(form) ==
  CASE form = "text"   -> {TRUE}
    [] form = "object" -> BOOLEAN
    [] OTHER             -> {}

Routes(form) == form = "object"

\* AttributeError and ValidationError: neither is an error to retry.
Misreading == "fatal"
=============================================================================
