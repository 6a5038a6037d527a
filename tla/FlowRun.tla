------------------------------- MODULE FlowRun ------------------------------
(***************************************************************************)
(* A run from its entry to its return: run_pipeline, a coordination        *)
(* runtime called directly, or one that run_from_config builds, announces  *)
(* and closes.  Every mode uses the supervision and the life cycle of      *)
(* Supervision and Flow.                                                   *)
(*                                                                         *)
(* A workflow built from a configuration has an agent in every step and no *)
(* supervision; so have deliberations and loops.  A crash of the process,  *)
(* or a failed run, may be followed by a run with resume_run_id.           *)
(***************************************************************************)
EXTENDS WorkflowRun, DeliberationRun, LoopRun, TeamFanOut, PipelineRun

CONSTANTS MaxRestores   \* bound on resumed runs

VARIABLES configured,   \* entered by run_from_config
          restores

vars == <<configured, restores, flowVars, superVars, workVars, talkVars, loopVars, fanVars,
          pipeVars>>

TalkIds == {"contribute", "review"} \X Step \X Step
ReplyIds == {"reply"} \X Step \X (0..(MaxTurns - 1))

ASSUME IdsAssumption == Id = StepIds \cup TalkIds \cup ReplyIds

Workflow == {"sequence", "fan-out"}

FlowTypeOK ==
  /\ configured \in BOOLEAN
  /\ restores \in 0..MaxRestores
  /\ mode \in Mode
  /\ onTimeout \in {"abort", "continue"}
  /\ phase \in {"opening", "begin", "steps", "synthesis", "contribute", "review", "consolidate",
                "document", "route", "reply", "spawn", "lead", "end", "over",
                "starting", "gate", "waiting", "expired", "decided", "chain", "execute", "book",
                "checkpoint", "publish"}
  /\ result \in Result \cup {"none"}
  /\ SuperTypeOK /\ WorkTypeOK /\ TalkTypeOK /\ LoopTypeOK /\ FanTypeOK /\ PipeTypeOK

\* What a mode does not look at has one value.
PlanFits ==
  /\ mode \notin Workflow => name = [s \in Step |-> <<"step", 1, 1>>] /\ pass = {}
  /\ mode # "sequence" => ~durable
  /\ mode \notin {"deliberation", "loop"} => onTimeout = "abort"
  /\ mode \in {"team", "pipeline"} => strategy = "none"
  /\ mode # "team" => failurePolicy = "isolate"
  /\ mode # "pipeline" => ~gated /\ ~storing
  /\ configured => mode \notin {"fan-out", "pipeline"} /\ strategy = "none" /\ pass = {}

FlowInit ==
  /\ configured \in BOOLEAN
  /\ restores = 0
  /\ mode \in Mode
  /\ onTimeout \in {"abort", "continue"}
  /\ phase = "opening" /\ log = <<>> /\ result = "none"
  /\ SuperInit /\ WorkInit /\ TalkInit /\ LoopInit /\ FanInit /\ PipeInit
  /\ PlanFits

Coordinated == mode # "pipeline"

\* Building and initializing the agents may fail.
Open ==
  /\ Coordinated /\ phase = "opening"
  /\ \/ ~configured /\ Proceed("begin")
     \/ configured /\ Say("RUN_STARTED", "begin")
     \/ configured /\ Say("RUN_FAILED", "over")
  /\ UNCHANGED <<configured, restores, superVars, workVars, talkVars, loopVars, fanVars, pipeVars>>

\* The runtimes look for the agents of the plan in the registry, which
\* run_from_config has filled; only a team announces what it misses.
Invalid ==
  /\ Coordinated /\ phase = "begin" /\ ~configured
  /\ phase' = "end" /\ result' = "failed"
  /\ log' = IF mode = "team" THEN Append(log, "TEAM_FAILED") ELSE log
  /\ UNCHANGED <<configured, restores, mode, onTimeout, superVars, workVars, talkVars, loopVars,
                 fanVars, pipeVars>>

\* run_from_config announces the end of the run, whatever its result.
Close ==
  /\ phase = "end"
  /\ IF configured THEN Say("RUN_FINISHED", "over") ELSE Proceed("over")
  /\ UNCHANGED <<configured, restores, superVars, workVars, talkVars, loopVars, fanVars, pipeVars>>

\* Cancelled from outside, a run ends without an event.  The task groups of
\* branches and of a team wait for their tasks first.
CancelFlow ==
  /\ Coordinated /\ phase # "over"
  /\ ~(mode \in {"fan-out", "team"} /\ phase \in {"steps", "spawn"})
  /\ Proceed("over")
  /\ \/ \E c \in Caller : Cancel(c)
     \/ UNCHANGED superVars /\ \A c \in Caller : call[c].at \notin Active
  /\ UNCHANGED <<configured, restores, workVars, talkVars, loopVars, fanVars, pipeVars>>

CancelBranches ==
  /\ AtBranch /\ ~halt
  /\ halt' = TRUE
  /\ UNCHANGED <<configured, restores, flowVars, superVars, planVars, cursor, chain, saved, lapses,
                 talkVars, loopVars, fanVars, pipeVars>>

\* No branch has failed: the cancellation goes on to the caller.
BranchesCancelled ==
  /\ AtBranch /\ halt
  /\ \A s \in Step : call[s].at \in {"done", "cancelled"}
  /\ Proceed("over")
  /\ UNCHANGED <<configured, restores, superVars, workVars, talkVars, loopVars, fanVars, pipeVars>>

\* The process dies, or the run fails; later the run is resumed.
Restore ==
  /\ mode = "sequence" /\ durable
  /\ phase # "opening" /\ result # "finished"
  /\ restores < MaxRestores /\ restores' = restores + 1
  /\ phase' = "opening" /\ log' = <<>> /\ result' = "none"
  /\ Renew
  /\ cursor' = 1 /\ chain' = <<>>
  /\ UNCHANGED <<mode, onTimeout, configured, planVars, saved, lapses, halt, talkVars,
                 loopVars, fanVars, pipeVars>>

SlideAny ==
  /\ \E i \in Id : Slide(i)
  /\ UNCHANGED <<configured, restores, flowVars, workVars, talkVars, loopVars, fanVars, pipeVars>>

Runs ==
  \/ /\ WorkNext
     /\ UNCHANGED <<configured, restores, talkVars, loopVars, fanVars, pipeVars>>
  \/ /\ TalkNext
     /\ UNCHANGED <<configured, restores, workVars, loopVars, fanVars, pipeVars>>
  \/ /\ LoopNext
     /\ UNCHANGED <<configured, restores, workVars, talkVars, fanVars, pipeVars>>
  \/ /\ FanNext
     /\ UNCHANGED <<configured, restores, workVars, talkVars, loopVars, pipeVars>>
  \/ /\ PipeNext
     /\ UNCHANGED <<configured, restores, workVars, talkVars, loopVars, fanVars>>
  \/ Open \/ Invalid \/ Close \/ BranchesCancelled

Next == Runs \/ CancelFlow \/ CancelBranches \/ Restore \/ SlideAny

Spec == FlowInit /\ [][Next]_vars

\* Agents answer, fail or are timed out (the engine's timeout bounds every
\* turn), approvals are decided or time out, and the event loop runs on.
FairSpec == Spec /\ WF_vars(Runs)

-----------------------------------------------------------------------------
(* Properties.                                                              *)

\* A coordination that returns FINISHED has done its work: the last step of a
\* sequence is over with every step in its output, every branch has answered,
\* a deliberation is sufficient or out of rounds, and a lead's success is that
\* of a team whose teammates have all left.
FinishedMeansDone ==
  Coordinated /\ result = "finished" =>
     /\ mode = "sequence" => cursor = N + 1 /\ Step \ pass \subseteq Range(chain)
     /\ mode = "fan-out" => \A s \in Step : call[s].at = "done"
     /\ mode = "deliberation" => sufficient \/ round = MaxRounds
     /\ mode = "team" => \A t \in Step : mate[t] = "left"

\* Unless timed-out turns are skipped, no document is written before every
\* contribution of the round has been reviewed by every other participant,
\* through failures and retries of the turns.
PeersReviewed ==
  phase \in {"consolidate", "document"} /\ onTimeout = "abort" =>
     /\ Range(contributions) = Step
     /\ reviews = {pair \in Step \X Step : pair[1] # pair[2]}

\* When a run has returned or raised, no call of an agent and no teammate of it
\* is left behind, however it ended.
NothingLeftRunning ==
  phase \in {"end", "over"} =>
     /\ \A c \in Caller : call[c].at \notin Active
     /\ \A t \in Step : mate[t] \in Gone \cup {"unborn"}

\* An end is an end: a success has done the work it reports, and nothing that
\* a run has started outlives it.
EndMeansDone == FinishedMeansDone /\ NothingLeftRunning

\* Who writes the end of a flow knows all that came before: the leader of a
\* deliberation every review, the lead of a team every contribution.
InformedEnd == PeersReviewed /\ LeadInformed

\* A sequence of steps keeps the promises of StepChain, through failing agents
\* and saves, RESTART and RESUME, crashes and resumed runs.
Sequence == INSTANCE StepChain WITH
  real    <- IF mode = "sequence" THEN Step \ pass ELSE {},
  work    <- IF chain = <<>> THEN saved.state ELSE chain,
  kept    <- saved.state,
  slipped <- lapses > 0,
  success <- mode = "sequence" /\ result = "finished"
SequenceIsChain == Sequence!Spec

\* Every run returns or raises: no combination of failures, retries, expired
\* restart windows, cancellations, rounds and routes keeps it going.
FlowEnds == <>[](phase = "over")
=============================================================================
