----------------------------- MODULE PipelineRun ----------------------------
(***************************************************************************)
(* PipelineRunner.run_pipeline: an approval gate and a policy chain before *)
(* the pipeline runs under a timeout and a retry policy, with the status   *)
(* of the run in a store and its life in events.  The gate waits on the    *)
(* handle of an approval channel, which somebody outside resolves, against *)
(* a timeout.                                                              *)
(*                                                                         *)
(* A status is saved before it is announced, in two awaits.  "over" is the *)
(* return of run_pipeline or its exception.                                *)
(***************************************************************************)
EXTENDS Flow

CONSTANTS MaxAttempts   \* retry_policy.max_attempts
ASSUME AttemptsAssumption == MaxAttempts \in Nat \ {0}

VARIABLES gated,      \* there is an approval gate
          storing,    \* there are a run store and a checkpoint store
          handle,     \* response of the approval handle
          told,       \* what the one who resolved it was told
          heeded,     \* the decision the gate returned
          attempts,   \* calls of pipeline.run
          stored      \* status in the run store

gateVars == <<gated, handle, told, heeded>>
pipeVars == <<gateVars, storing, attempts, stored>>

Decision == {"approved", "denied"}

PipeTypeOK ==
  /\ gated \in BOOLEAN /\ storing \in BOOLEAN
  /\ handle \in {"none", "pending"} \cup Decision
  /\ told \in {"none"} \cup Decision
  /\ heeded \in {"none"} \cup Decision
  /\ attempts \in 0..MaxAttempts
  /\ stored \in {"none", "started"} \cup Result

PipeInit ==
  /\ gated \in BOOLEAN /\ storing \in BOOLEAN
  /\ handle = "none" /\ told = "none" /\ heeded = "none"
  /\ attempts = 0
  /\ stored = "none"

At(p) == mode = "pipeline" /\ phase = p

\* run_pipeline ends by an exception.
Escape == Proceed("over")

Say(e, p) ==
  /\ phase' = p
  /\ log' = Append(log, e)
  /\ UNCHANGED <<mode, onTimeout, result>>

OpenRun ==
  /\ At("opening")
  /\ \/ Proceed("starting") /\ stored' = IF storing THEN "started" ELSE stored
     \/ storing /\ Escape /\ UNCHANGED stored
  /\ UNCHANGED <<superVars, gateVars, storing, attempts>>

AnnounceRun ==
  /\ At("starting")
  /\ Say("RUN_STARTED", IF gated THEN "gate" ELSE "chain")
  /\ UNCHANGED <<superVars, pipeVars>>

-----------------------------------------------------------------------------
(* The gate.  A callback resolves the handle before submit returns, others  *)
(* at any time.                                                             *)

Submit ==
  /\ At("gate")
  /\ \/ handle' \in {"pending"} \cup Decision /\ Proceed("waiting")
     \/ UNCHANGED handle /\ Escape                 \* the channel raises
  /\ told' = IF handle' \in Decision THEN handle' ELSE told
  /\ UNCHANGED <<superVars, gated, storing, heeded, attempts, stored>>

\* Resolving twice raises ValueError, and changes nothing.
Resolve ==
  /\ handle = "pending"
  /\ handle' \in Decision
  /\ told' = handle'
  /\ UNCHANGED <<flowVars, superVars, gated, storing, heeded, attempts, stored>>

Heed ==
  /\ At("waiting") /\ handle \in Decision
  /\ heeded' = handle
  /\ Proceed("decided")
  /\ UNCHANGED <<superVars, gated, storing, handle, told, attempts, stored>>

\* The scope of the timeout cancels the wait, which runs on a turn later.
ExpireWait ==
  /\ At("waiting") /\ handle = "pending"
  /\ Proceed("expired")
  /\ UNCHANGED <<superVars, pipeVars>>

\* Variant: a wait that timed out denies, whatever the handle says by now.
AutoDenyBlindly ==
  /\ At("expired")
  /\ handle' = "denied"
  /\ heeded' = handle'
  /\ Proceed("decided")
  /\ UNCHANGED <<superVars, gated, storing, told, attempts, stored>>

AutoDeny ==
  /\ At("expired")
  /\ handle' = IF handle = "pending" THEN "denied" ELSE handle
  /\ heeded' = handle'
  /\ Proceed("decided")
  /\ UNCHANGED <<superVars, gated, storing, told, attempts, stored>>

Decide ==
  /\ At("decided")
  /\ IF heeded = "approved"
     THEN Say("APPROVAL_GRANTED", "chain")
     ELSE /\ phase' = "book" /\ result' = "cancelled"
          /\ log' = Append(log, "APPROVAL_DENIED")
          /\ UNCHANGED <<mode, onTimeout>>
  /\ UNCHANGED <<superVars, pipeVars>>

-----------------------------------------------------------------------------
(* The run.                                                                 *)

\* The run is to be stored and announced as r.
Outcome(r) ==
  /\ phase' = "book" /\ result' = r
  /\ UNCHANGED <<mode, onTimeout, log>>

\* "retry" is advice to the log; an evaluator that raises ends run_pipeline.
ConsultChain ==
  /\ At("chain")
  /\ \/ Proceed("execute") /\ attempts' = 1
     \/ Outcome("failed") /\ UNCHANGED attempts
     \/ Escape /\ UNCHANGED attempts
  /\ UNCHANGED <<superVars, gateVars, storing, stored>>

PipelineReturns ==
  /\ At("execute")
  /\ Outcome("finished")
  /\ UNCHANGED <<superVars, pipeVars>>

PipelineRaises ==
  /\ At("execute")
  /\ \/ attempts < MaxAttempts /\ attempts' = attempts + 1 /\ UNCHANGED flowVars
     \/ Outcome("failed") /\ UNCHANGED attempts
  /\ UNCHANGED <<superVars, gateVars, storing, stored>>

\* Also a TimeoutError of the pipeline itself.  on_cancel is called under a
\* shield and a timeout of its own before, and nothing of it is raised.
PipelineTimesOut ==
  /\ At("execute")
  /\ Outcome("timed_out")
  /\ UNCHANGED <<superVars, pipeVars>>

\* Cancelled from outside: only the pipeline's cancellation is announced, if
\* the publication does not raise in its turn, and no status is saved.
CancelPipeline ==
  /\ mode = "pipeline" /\ phase # "over"
  /\ \/ At("execute") /\ Say("RUN_CANCELLED", "over")
     \/ Escape
  /\ UNCHANGED <<superVars, pipeVars>>

Written(s) == stored' = IF storing THEN s ELSE stored

\* A store that fails to save success makes the run a failed one; its failure
\* to save anything else is raised.
Book ==
  /\ At("book")
  /\ \/ /\ Written(result)
        /\ Proceed(CASE result = "finished" -> "checkpoint"
                     [] result = "cancelled" -> "over"
                     [] OTHER -> "publish")
     \/ /\ storing /\ UNCHANGED stored
        /\ IF result = "finished" THEN Outcome("failed") ELSE Escape
  /\ UNCHANGED <<superVars, gateVars, storing, attempts>>

\* Variant: the failure is announced, but not saved over the success.
SaveResultOnly ==
  /\ At("checkpoint")
  /\ \/ Proceed("publish")
     \/ /\ storing /\ phase' = "publish" /\ result' = "failed"
        /\ UNCHANGED <<mode, onTimeout, log>>
  /\ UNCHANGED <<superVars, pipeVars>>

SaveResult ==
  /\ At("checkpoint")
  /\ Proceed("publish") \/ (storing /\ Outcome("failed"))
  /\ UNCHANGED <<superVars, pipeVars>>

Verdicts == [finished |-> "RUN_FINISHED", failed |-> "RUN_FAILED", timed_out |-> "RUN_TIMED_OUT"]

PublishVerdict ==
  /\ At("publish")
  /\ Say(Verdicts[result], "over")
  /\ UNCHANGED <<superVars, pipeVars>>

PipeRuns ==
  \/ OpenRun \/ AnnounceRun \/ Submit \/ Heed \/ ExpireWait \/ AutoDeny \/ Decide \/ ConsultChain
  \/ PipelineReturns \/ PipelineRaises \/ PipelineTimesOut \/ Book \/ SaveResult \/ PublishVerdict

PipeNext == PipeRuns \/ Resolve \/ CancelPipeline

-----------------------------------------------------------------------------
\* The pipeline never runs against the answer of a gate, and the gate's answer
\* is that of the handle: neither a decision that races the timeout, nor a
\* second one, makes the run and the one who decided see different outcomes.
GateHolds ==
  /\ told # "none" => handle = told
  /\ heeded # "none" => heeded = handle
  /\ gated /\ attempts > 0 => handle = "approved"

\* The events that tell the end of a run, and the status its record has then.
EndEvents == [finished |-> "RUN_FINISHED", failed |-> "RUN_FAILED",
              timed_out |-> "RUN_TIMED_OUT", cancelled |-> "RUN_CANCELLED"]
RecordAt(r) == IF r = "cancelled" THEN "started" ELSE r

\* An announced end of the run is the one in the store, whichever of the saves
\* fails, and no second end is announced; except that nothing is saved of a
\* cancelled run, which is announced as cancelled and recorded as "started"
\* from then on.
EventFollowsStore ==
  mode = "pipeline" =>
     \A i \in DOMAIN log : \A r \in DOMAIN EndEvents :
        log[i] = EndEvents[r] => /\ i = Len(log) /\ phase = "over"
                                 /\ storing => stored = RecordAt(r)

\* What is recorded as "cancelled" is a run that was denied and never ran.
CancelledWasDenied ==
  mode = "pipeline" /\ stored = "cancelled" => heeded = "denied" /\ attempts = 0

\* Those who decide about a run, those who read its record and those who hear
\* of its end see the same outcome, but for a cancellation: the hearers are
\* told of it, and the record still says "started".
OutcomesAgree == GateHolds /\ EventFollowsStore /\ CancelledWasDenied
=============================================================================
