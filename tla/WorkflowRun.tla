----------------------------- MODULE WorkflowRun ----------------------------
(***************************************************************************)
(* WorkflowRuntime: steps in sequence with checkpoints and resume, or all  *)
(* at once in a task group, then an optional synthesis.                    *)
(*                                                                         *)
(* In sequence the output of a step overwrites current_input before the    *)
(* checkpoint is saved, both inside the try block that is retried.  A      *)
(* timeout of either action is an exception of the call here.              *)
(***************************************************************************)
EXTENDS Flow

CONSTANTS MaxLapses   \* bound on failing saves

VARIABLES name,     \* component_name of each step
          pass,     \* steps without an agent
          durable,  \* there is a checkpoint manager
          cursor,   \* index of the step at hand
          chain,    \* current_input, as the steps that made it
          saved,    \* the checkpoint: state and step index
          lapses,   \* saves that failed
          halt      \* the task group of the branches is cancelled

planVars == <<name, pass, durable>>
workVars == <<planVars, cursor, chain, saved, lapses, halt>>

Ended == {"done", "refused", "cancelled"}

WorkTypeOK ==
  /\ name \in [Step -> Id]
  /\ pass \subseteq Step
  /\ durable \in BOOLEAN
  /\ cursor \in 1..(N + 1)
  /\ chain \in Seq(Step)
  /\ saved \in [state : Seq(Step), index : 1..(N + 1)]
  /\ lapses \in Nat
  /\ halt \in BOOLEAN

NoCheckpoint == [state |-> <<>>, index |-> 1]

StepIds == {<<"step", s, s>> : s \in Step}

WorkInit ==
  /\ name \in [Step -> StepIds]
  /\ pass \in SUBSET Step
  /\ durable \in BOOLEAN
  /\ cursor = 1 /\ chain = <<>>
  /\ saved = NoCheckpoint
  /\ lapses = 0 /\ halt = FALSE

StartSequence ==
  /\ Announce("sequence", "RUN_STARTED", "steps")
  /\ chain' = saved.state /\ cursor' = saved.index
  /\ UNCHANGED <<superVars, planVars, saved, lapses, halt>>

\* The checkpoint cannot be read.
LoadFails ==
  /\ mode = "sequence" /\ phase = "begin"
  /\ durable /\ lapses < MaxLapses /\ lapses' = lapses + 1
  /\ phase' = "end" /\ result' = "failed"
  /\ log' = log \o <<"RUN_STARTED", "RUN_FAILED">>
  /\ UNCHANGED <<mode, onTimeout, superVars, planVars, cursor, chain, saved, halt>>

AtStep(s) == mode = "sequence" /\ phase = "steps" /\ cursor = s

\* A save by the store, or its failure.
Save(state, index) == saved' = [state |-> state, index |-> index] /\ UNCHANGED lapses
Lapse == durable /\ lapses < MaxLapses /\ lapses' = lapses + 1 /\ UNCHANGED saved

\* The try block is not around the save of a step without agent.
PassThrough(s) ==
  /\ AtStep(s) /\ s \in pass
  /\ \/ /\ IF durable THEN Save(chain, s + 1) ELSE UNCHANGED <<saved, lapses>>
        /\ cursor' = s + 1
        /\ UNCHANGED <<flowVars, superVars>>
     \/ /\ Lapse /\ Conclude("RUN_FAILED", "failed")
        /\ UNCHANGED <<cursor, superVars>>
  /\ UNCHANGED <<planVars, chain, halt>>

EnterStep(s) ==
  /\ AtStep(s) /\ s \notin pass
  /\ Begin(s, name[s])
  /\ UNCHANGED <<flowVars, workVars>>

StepAnswers(s) ==
  /\ AtStep(s)
  /\ Answer(s)
  /\ chain' = Append(chain, s)
  /\ UNCHANGED <<flowVars, planVars, cursor, saved, lapses, halt>>

\* Variant: the checkpoint still points at the step it contains.
KeepStepBehind(s) ==
  /\ AtStep(s)
  /\ Settle(s)
  /\ IF durable THEN Save(chain, s) ELSE UNCHANGED <<saved, lapses>>
  /\ cursor' = s + 1
  /\ UNCHANGED <<flowVars, planVars, chain, halt>>

KeepStep(s) ==
  /\ AtStep(s)
  /\ Settle(s)
  /\ IF durable THEN Save(chain, s + 1) ELSE UNCHANGED <<saved, lapses>>
  /\ cursor' = s + 1
  /\ UNCHANGED <<flowVars, planVars, chain, halt>>

\* A save that fails is a failure of the step, whose output stays the input.
StepFails(s) ==
  /\ AtStep(s)
  /\ \E e \in Error : Raise(s, e)
  /\ IF call[s].at = "answered" THEN Lapse ELSE UNCHANGED <<saved, lapses>>
  /\ UNCHANGED <<flowVars, planVars, cursor, chain, halt>>

JudgeStep(s) ==
  /\ mode \in {"sequence", "fan-out"} /\ phase = "steps"
  /\ Judge(s, {"restart", "resume"})
  /\ UNCHANGED <<flowVars, workVars>>

\* Before a RESUME the state is saved under the index of the failed step,
\* outside the try block.
RetryStep(s) ==
  /\ AtStep(s)
  /\ \/ /\ Retry(s)
        /\ IF strategy = "resume" /\ durable THEN Save(chain, s) ELSE UNCHANGED <<saved, lapses>>
        /\ UNCHANGED flowVars
     \/ /\ strategy = "resume" /\ Lapse
        /\ Move(s, "granted", "refused")
        /\ Conclude("RUN_FAILED", "failed")
  /\ UNCHANGED <<planVars, cursor, chain, halt>>

-----------------------------------------------------------------------------
(* All steps at once.                                                       *)

StartBranches ==
  /\ Announce("fan-out", "RUN_STARTED", "steps")
  /\ call' = [s \in Step |-> IF s \in pass THEN [NoCall EXCEPT !.at = "done"]
                             ELSE [NoCall EXCEPT !.at = "calling", !.id = name[s]]]
  /\ UNCHANGED <<strategy, failures, recent, total, grants, workVars>>

AtBranch == mode = "fan-out" /\ phase = "steps"

BranchAnswers(s) ==
  /\ AtBranch /\ Move(s, "calling", "done")
  /\ UNCHANGED <<flowVars, workVars>>

\* The first branch that raises takes the others down: what a branch with the
\* strategy "none" does at once, one with supervision does when it is judged.
BranchFails(s) ==
  /\ AtBranch /\ \E e \in Error : Raise(s, e)
  /\ UNCHANGED <<flowVars, workVars>>

BranchRetries(s) ==
  /\ AtBranch /\ Retry(s)
  /\ UNCHANGED <<flowVars, workVars>>

HaltBranches ==
  /\ AtBranch /\ ~halt
  /\ \E s \in Step : call[s].at = "refused"
  /\ halt' = TRUE
  /\ UNCHANGED <<flowVars, superVars, planVars, cursor, chain, saved, lapses>>

\* A cancelled branch may go on until it meets an await that suspends.
BranchCancelled(s) ==
  /\ AtBranch /\ halt /\ Cancel(s)
  /\ UNCHANGED <<flowVars, workVars>>

-----------------------------------------------------------------------------
(* The end.                                                                 *)

Refused(s) == call[s].at = "refused"

\* Variant: the first branch to return is enough.
StepsOverEarly ==
  /\ phase = "steps" /\ mode \in {"sequence", "fan-out"}
  /\ IF mode = "sequence" THEN cursor = N + 1
     ELSE \E s \in Step : call[s].at = "done"
  /\ \/ Proceed("synthesis") \/ Conclude("RUN_FINISHED", "finished")
  /\ UNCHANGED <<superVars, workVars>>

\* With or without a synthesis agent.
StepsOver ==
  /\ phase = "steps" /\ mode \in {"sequence", "fan-out"}
  /\ IF mode = "sequence" THEN cursor = N + 1
     ELSE \A s \in Step : call[s].at = "done"
  /\ \/ Proceed("synthesis") \/ Conclude("RUN_FINISHED", "finished")
  /\ UNCHANGED <<superVars, workVars>>

Verdict(errors) ==
  IF "timeout" \in errors THEN Conclude("RUN_TIMED_OUT", "timed_out")
                          ELSE Conclude("RUN_FAILED", "failed")

\* A step gave up, in the task group after every branch has ended; one timeout
\* among the exceptions makes it a timeout.
StepsFail ==
  /\ phase = "steps" /\ mode \in {"sequence", "fan-out"}
  /\ \E s \in Step : Refused(s)
  /\ mode = "fan-out" => \A s \in Step : call[s].at \in Ended
  /\ Verdict({call[s].error : s \in {r \in Step : Refused(r)}})
  /\ UNCHANGED <<superVars, workVars>>

\* The synthesis agent is called once and is not supervised.
Synthesize ==
  /\ phase = "synthesis"
  /\ \/ Conclude("RUN_FINISHED", "finished") \/ \E e \in Error : Verdict({e})
  /\ UNCHANGED <<superVars, workVars>>

SequenceStep(s) == PassThrough(s) \/ EnterStep(s) \/ StepAnswers(s) \/ KeepStep(s)
                   \/ StepFails(s) \/ JudgeStep(s) \/ RetryStep(s)
BranchStep(s) == BranchAnswers(s) \/ BranchFails(s) \/ BranchRetries(s) \/ BranchCancelled(s)

WorkNext ==
  \/ StartSequence \/ LoadFails \/ StartBranches \/ HaltBranches
  \/ StepsOver \/ StepsFail \/ Synthesize
  \/ \E s \in Step : SequenceStep(s) \/ BranchStep(s)
=============================================================================
