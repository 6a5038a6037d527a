------------------------------- MODULE TeamRun ------------------------------
(***************************************************************************)
(* A team run over a shared board: TeamRuntime._run_with_task_list and the *)
(* drain loop of each teammate (_run_teammate_drain_loop), without mailbox.*)
(* The lead runs first (TeamPlan forces lead_runs_first when the task list *)
(* is enabled), then every teammate claims, runs its agent, and reports    *)
(* the result, until the board looks settled long enough.                  *)
(*                                                                         *)
(* While an agent runs it may call the task tools (team_task_tools.py).    *)
(* Cancellation is anyio's: it reaches a task at its next suspension, so a *)
(* cancelled teammate makes no further call to the board except, where the *)
(* code shields it, the release of its task.                               *)
(***************************************************************************)
EXTENDS TeamTaskList, FiniteSets

CONSTANTS Lead, Teammate,
          NoTask,         \* no entry in hand
          InitialSpec,    \* task_list.initial_tasks; field task: the uuid it will get
          Tool,           \* task tools the agents use
          Assignable,     \* what agents put in assigned_to
          AgentDeps,      \* whether agents use depends_on
          Policy,         \* plan.on_teammate_failure
          MaxConcurrent,  \* plan.max_concurrent_teammates
          IdlePolls,      \* idle_threshold_seconds in polls, rounded up
          ExternalCancel  \* whether the team run may be cancelled from outside

\* A TeamPlan has at least one teammate.
ASSUME TeamAssumption == /\ Teammate \subseteq Actor /\ Teammate # {}
                         /\ Lead \in Actor \ Teammate
                         /\ NoTask \notin Task
ASSUME PolicyAssumption == Policy \in {"isolate", "abort_team"}
ASSUME LimitAssumption == MaxConcurrent \in Nat \ {0} /\ IdlePolls \in Nat \ {0}
\* The identifiers the entries get are fresh, and no name of a spec is one.
ASSUME InitialAssumption ==
  /\ InitialSpec \in Seq({InitialSpec[i] : i \in DOMAIN InitialSpec})
  /\ \A i \in DOMAIN InitialSpec :
        /\ InitialSpec[i].task \in Task \ BogusId
        /\ InitialSpec[i].assigned_to \in Actor \cup {NoOne}
        /\ InitialSpec[i].depends_on \subseteq BogusId
        /\ \A j \in DOMAIN InitialSpec : InitialSpec[i].task = InitialSpec[j].task => i = j
ASSUME ToolAssumption == Tool \subseteq {"add", "claim", "complete", "fail"}

VARIABLES pc,      \* where each teammate's loop is
          cur,     \* entry the loop has claimed
          busy,    \* what the first of the two listings found
          idle,    \* consecutive quiet polls, 0 when idle_start is None
          phase,   \* progress of _run_with_task_list
          made,    \* initial tasks added so far
          stop,    \* the task group's scope is cancelled
          why      \* causes of the stop: "outside", "crash"

loopVars == <<pc, cur, busy, idle>>
runVars  == <<phase, made, stop, why>>
teamVars == <<vars, loopVars, runVars>>

Ended   == {"drained", "aborted", "cancelled", "crashed"}
\* Inside the try block whose cancellation handler releases the task.
Holding == {"limit", "work", "complete", "completing"}
Over    == {"finished", "cancelled", "raised"}

TeamTypeOK ==
  /\ pc \in [Teammate -> {"poll", "blocked", "claiming", "fail", "failing", "look", "decide",
                          "releasing", "released"} \cup Holding \cup Ended]
  /\ cur \in [Teammate -> Task \cup {NoTask}]
  /\ busy \in [Teammate -> BOOLEAN]
  /\ idle \in [Teammate -> 0..IdlePolls]
  /\ phase \in {"populate", "lead", "team"} \cup Over
  /\ made \in 0..Len(InitialSpec)
  /\ stop \in BOOLEAN
  /\ why \subseteq {"outside", "crash"}

TeamInit ==
  /\ Init
  /\ pc = [w \in Teammate |-> "poll"]
  /\ cur = [w \in Teammate |-> NoTask]
  /\ busy = [w \in Teammate |-> FALSE]
  /\ idle = [w \in Teammate |-> 0]
  /\ phase = "populate"
  /\ made = 0
  /\ stop = FALSE
  /\ why = {}

Goto(w, l) == pc' = [pc EXCEPT ![w] = l]

\* A cancelled task raises before it can take the lock.
Live(w) == phase = "team" /\ ~stop

-----------------------------------------------------------------------------
(* The run.                                                                 *)

\* The entry is built without spec.id: it gets a fresh uuid, while depends_on
\* keeps the names of the specs.
Populate ==
  /\ phase = "populate"
  /\ IF made < Len(InitialSpec) \/ emit[Lead] # NoEvent
     THEN \/ LET spec == InitialSpec[made + 1] IN
             /\ made < Len(InitialSpec)
             /\ Add(Lead, spec.task, [status |-> "pending", claimed_by |-> NoOne, labels |-> {},
                    assigned_to |-> spec.assigned_to, depends_on |-> spec.depends_on])
             /\ made' = made + 1
             /\ UNCHANGED phase
          \/ Publish(Lead) /\ UNCHANGED <<phase, made>>
     ELSE phase' = "lead" /\ UNCHANGED <<vars, made>>
  /\ UNCHANGED <<loopVars, stop, why>>

\* The lead's errors are logged, its result is ignored; a timeout may find a
\* tool call in flight.
LeadReturns ==
  /\ phase = "lead"
  /\ phase' = "team"
  /\ LetGo(Lead)
  /\ UNCHANGED <<loopVars, made, stop, why>>

\* The task group is over.  An exception of a child leaves run as an
\* ExceptionGroup; cancellation from outside is reported; everything else,
\* an aborted team included, ends in TEAM_FINISHED with status FINISHED.
TeamOver ==
  /\ phase = "team"
  /\ \A w \in Teammate : pc[w] \in Ended
  /\ phase' = CASE "crash" \in why   -> "raised"
                [] "outside" \in why -> "cancelled"
                [] OTHER             -> "finished"
  /\ UNCHANGED <<vars, loopVars, made, stop, why>>

\* Before the task group exists nothing catches a cancellation.
CancelRun ==
  /\ ExternalCancel
  /\ \/ /\ phase \in {"populate", "lead"}
        /\ phase' = "raised"
        /\ LetGo(Lead)
        /\ UNCHANGED <<stop, why>>
     \/ /\ phase = "team"
        /\ "outside" \notin why
        /\ stop' = TRUE
        /\ why' = why \cup {"outside"}
        /\ UNCHANGED <<vars, phase>>
  /\ UNCHANGED <<loopVars, made>>

-----------------------------------------------------------------------------
(* The agents.  A tool call that the store refuses changes nothing.         *)

ToolCall(a) ==
  \/ /\ "add" \in Tool
     /\ \E t \in Task \ (Known \cup BogusId), e \in NewEntry :
          /\ e.assigned_to \in Assignable
          /\ e.depends_on # {} => AgentDeps
          /\ Add(a, t, e)
  \/ /\ "claim" \in Tool
     /\ \E t \in Task, byId \in BOOLEAN : Claim(a, t, {}, byId) \/ ClaimBlocked(a, t, {}, byId)
  \/ "complete" \in Tool /\ \E t \in Task : UpdateStatus(a, t, "completed")
  \/ "fail" \in Tool /\ \E t \in Task : UpdateStatus(a, t, "failed")

LeadTool ==
  /\ phase = "lead"
  /\ ToolCall(Lead) \/ Publish(Lead)
  /\ UNCHANGED <<loopVars, runVars>>

AgentTool(w) ==
  /\ pc[w] = "work"
  /\ Live(w)
  /\ ToolCall(w)
  /\ UNCHANGED <<loopVars, runVars>>

-----------------------------------------------------------------------------
(* One round of the drain loop.                                             *)

PollClaims(w) ==
  /\ pc[w] = "poll" /\ Live(w)
  /\ \E t \in Task : Claim(w, t, {}, FALSE) /\ cur' = [cur EXCEPT ![w] = t]
  /\ Goto(w, "claiming")
  /\ UNCHANGED <<busy, idle, runVars>>

PollBlocked(w) ==
  /\ pc[w] = "poll" /\ Live(w)
  /\ \E t \in Task : ClaimBlocked(w, t, {}, FALSE)
  /\ Goto(w, "blocked")
  /\ UNCHANGED <<cur, busy, idle, runVars>>

\* Nothing to claim; the listing of IN_PROGRESS entries follows.
PollEmpty(w) ==
  /\ pc[w] = "poll" /\ Live(w)
  /\ boardLock = NoOne
  /\ ~\E t \in Task : Claimable(t, w, {})
  /\ Goto(w, "look")
  /\ UNCHANGED <<vars, cur, busy, idle, runVars>>

\* The two listings are two visits to the board.
LookInProgress(w) ==
  /\ pc[w] = "look" /\ Live(w)
  /\ boardLock = NoOne
  /\ busy' = [busy EXCEPT ![w] = \E t \in Task : status[t] = "in_progress"]
  /\ Goto(w, "decide")
  /\ UNCHANGED <<vars, cur, idle, runVars>>

\* Variant: the entries in progress are not looked at.
LookPendingOnly(w) ==
  /\ pc[w] = "decide" /\ Live(w)
  /\ boardLock = NoOne
  /\ \/ /\ \E t \in Task : status[t] = "pending"
        /\ idle' = [idle EXCEPT ![w] = 0] /\ Goto(w, "poll")
     \/ /\ ~\E t \in Task : status[t] = "pending"
        /\ \/ idle[w] < IdlePolls /\ idle' = [idle EXCEPT ![w] = @ + 1] /\ Goto(w, "poll")
           \/ idle[w] > 0 /\ UNCHANGED idle /\ Goto(w, "drained")
  /\ UNCHANGED <<vars, cur, busy, runVars>>

\* The second listing.  A poll lasts at least poll_interval_ms, so the
\* threshold is over after IdlePolls of them or earlier.
LookPending(w) ==
  /\ pc[w] = "decide" /\ Live(w)
  /\ boardLock = NoOne
  /\ LET unsettled == busy[w] \/ \E t \in Task : status[t] = "pending" IN
     \/ unsettled /\ idle' = [idle EXCEPT ![w] = 0] /\ Goto(w, "poll")
     \/ /\ ~unsettled /\ idle[w] < IdlePolls
        /\ idle' = [idle EXCEPT ![w] = @ + 1] /\ Goto(w, "poll")
     \/ ~unsettled /\ idle[w] > 0 /\ UNCHANGED idle /\ Goto(w, "drained")
  /\ UNCHANGED <<vars, cur, busy, runVars>>

\* Variant: whoever waits for a slot already takes one.
AcquireWaiting(w) ==
  /\ pc[w] = "limit" /\ Live(w)
  /\ Cardinality({v \in Teammate : pc[v] \in {"limit", "work"}}) <= MaxConcurrent
  /\ Goto(w, "work")
  /\ UNCHANGED <<vars, cur, busy, idle, runVars>>

\* The limiter counts the agents that run.
Acquire(w) ==
  /\ pc[w] = "limit" /\ Live(w)
  /\ Cardinality({v \in Teammate : pc[v] = "work"}) < MaxConcurrent
  /\ Goto(w, "work")
  /\ UNCHANGED <<vars, cur, busy, idle, runVars>>

\* The agent's turn ends: with an output, or with an exception; a timeout may
\* find a tool call in flight.
AgentEnds(w) ==
  /\ pc[w] = "work"
  /\ \/ emit[w] = NoEvent /\ Goto(w, "complete")
     \/ Goto(w, "fail")
  /\ LetGo(w)
  /\ UNCHANGED <<cur, busy, idle, runVars>>

\* The agent may already have reported a result through a tool.
Accepts(w, s) == ValidTransition(status[cur[w]], s) /\ claimed_by[cur[w]] = w

Complete(w) ==
  /\ pc[w] = "complete" /\ Live(w)
  /\ Free(w)
  /\ IF Accepts(w, "completed")
     THEN UpdateStatus(w, cur[w], "completed") /\ Goto(w, "completing")
     ELSE Goto(w, "fail") /\ UNCHANGED vars     \* StateConsistencyError, caught
  /\ UNCHANGED <<cur, busy, idle, runVars>>

Fail(w) ==
  /\ pc[w] = "fail" /\ Live(w)
  /\ Free(w)
  /\ IF Accepts(w, "failed")
     THEN /\ UpdateStatus(w, cur[w], "failed") /\ Goto(w, "failing")
          /\ UNCHANGED <<stop, why>>
     ELSE \* StateConsistencyError in the handler: the task group fails
          /\ Goto(w, "crashed") /\ stop' = TRUE /\ why' = why \cup {"crash"}
          /\ UNCHANGED vars
  /\ UNCHANGED <<cur, busy, idle, phase, made>>

\* The publication of the call in flight succeeds and the loop goes on.
Emitted(w) ==
  /\ Publish(w)
  /\ LET after == [blocked |-> "look", claiming |-> "limit", work |-> "work",
                   completing |-> "poll", released |-> "cancelled",
                   failing |-> IF Policy = "abort_team" THEN "aborted" ELSE "poll"]
     IN Goto(w, after[pc[w]])
  /\ cur' = [cur EXCEPT ![w] = IF pc[w] \in {"completing", "failing"} THEN NoTask ELSE @]
  /\ idle' = [idle EXCEPT ![w] = IF pc[w] = "claiming" THEN 0 ELSE @]
  /\ stop' = (stop \/ (pc[w] = "failing" /\ Policy = "abort_team"))
  /\ UNCHANGED <<busy, phase, made, why>>

\* Cancellation reaches w: the publication in flight is lost and a lock held
\* for it is released.  Only the try block around the agent releases the task.
Cancelled(w) ==
  /\ stop
  /\ pc[w] \notin Ended \cup {"releasing", "released"}
  /\ Goto(w, IF pc[w] \in Holding THEN "releasing" ELSE "cancelled")
  /\ LetGo(w)
  /\ UNCHANGED <<cur, busy, idle, runVars>>

\* Variant: the handler gives back whatever is in progress.
ReleaseAny(w) ==
  /\ pc[w] = "releasing"
  /\ Free(w)
  /\ IF \E t \in Task : status[t] = "in_progress"
     THEN (\E t \in Task : Release(w, t)) /\ Goto(w, "released")
     ELSE Goto(w, "cancelled") /\ UNCHANGED vars
  /\ UNCHANGED <<cur, busy, idle, runVars>>

\* The shielded release: a task its agent already finished stays as it is.
ReleaseOwn(w) ==
  /\ pc[w] = "releasing"
  /\ Free(w)
  /\ IF status[cur[w]] = "in_progress"
     THEN Release(w, cur[w]) /\ Goto(w, "released")
     ELSE Goto(w, "cancelled") /\ UNCHANGED vars
  /\ UNCHANGED <<cur, busy, idle, runVars>>

LoopStep(w) ==
  \/ PollClaims(w) \/ PollBlocked(w) \/ PollEmpty(w) \/ LookInProgress(w) \/ LookPending(w)
  \/ Acquire(w) \/ AgentEnds(w) \/ Complete(w) \/ Fail(w) \/ Emitted(w)
  \/ Cancelled(w) \/ ReleaseOwn(w)

\* The run has returned or raised; nothing is left to do.
RunOver == phase \in Over /\ UNCHANGED teamVars

TeamNext ==
  \/ Populate \/ LeadTool \/ LeadReturns \/ CancelRun \/ TeamOver \/ RunOver
  \/ \E w \in Teammate : LoopStep(w) \/ AgentTool(w)

\* anyio.Lock and CapacityLimiter serve their waiters in order, agents return
\* or raise in the end, sinks accept events in the end: a loop that can go on
\* again and again does.
Fairness ==
  /\ WF_teamVars(Populate) /\ SF_teamVars(LeadReturns) /\ WF_teamVars(TeamOver)
  /\ WF_teamVars(LeadTool /\ Publish(Lead))
  /\ \A w \in Teammate : SF_teamVars(LoopStep(w)) /\ SF_teamVars(AgentEnds(w))

TeamSpec == TeamInit /\ [][TeamNext]_teamVars
FairTeamSpec == TeamSpec /\ Fairness

-----------------------------------------------------------------------------
(* Safety.                                                                  *)

\* A loop works on its own task: from the claim to the report the entry in
\* hand is claimed by this teammate, running or reported finished by it, and
\* is in no other loop's hand, whatever the agents do with their tools.
HandOwned ==
  /\ \A w \in Teammate : pc[w] \in Holding \cup {"claiming", "fail", "failing", "releasing"} =>
        /\ cur[w] \in Task
        /\ claimed_by[cur[w]] = w
        /\ status[cur[w]] \in {"in_progress", "completed", "failed"}
  /\ \A v, w \in Teammate : v # w /\ {pc[v], pc[w]} \subseteq Holding => cur[v] # cur[w]

\* A team run implements the board's specification: the run, the loops and
\* the agents are clients of the board as TeamTaskList describes them, through
\* timeouts and cancellation, and all it guarantees its clients holds of them.
TeamIsBoardClient == Spec

\* When every loop has drained the board, the board is drained: no entry is
\* pending or running, although each loop reads it twice without a lock in
\* between and other agents add and claim tasks all the while.
DrainedMeansSettled ==
  (\A w \in Teammate : pc[w] = "drained") =>
     \A t \in Task : status[t] \notin {"pending", "in_progress"}

\* Cancelling a teammate gives its task back or leaves it failed (spec 016,
\* failure condition 3).
CancelLeavesNothing ==
  phase \in {"cancelled", "finished"} =>
     \A w \in Teammate : pc[w] = "cancelled" => \A t \in Task : claimed_by[t] = w => status[t] # "in_progress"

\* Under "isolate" an agent's failure stops no other loop (spec 015).
IsolatedFailure == Policy = "isolate" /\ "outside" \notin why => ~stop

(* Liveness.                                                                *)

\* Nothing the loops do can move the entry: it waits for a task that is not
\* completed, it is reserved for somebody who runs no loop, or no longer does,
\* or it was claimed through a tool and is in no loop's hand.
Stuck(t) ==
  \/ /\ status[t] = "pending"
     /\ \/ ~DepsSatisfied(t)
        \/ assigned_to[t] \notin {NoOne} \cup {w \in Teammate : pc[w] \notin Ended}
  \/ /\ status[t] = "in_progress"
     /\ \A w \in Teammate : cur[w] = t => claimed_by[t] # w

\* Once the scope is cancelled every loop ends, and the run with them: the
\* releases that are shielded and the locks they need do not block each other.
StopEnds == stop ~> phase \in Over

\* The run of a team ends, unless an entry is stuck on the board for ever:
\* idle detection is not fooled by the quick, the slow or the failing, and
\* the limiter starves nobody who holds a task.  Stopped, it ends in any case.
TeamEnds ==
  /\ <>(phase \in Over) \/ <>[](\E t \in Task : Stuck(t))
  /\ StopEnds

\* A task without dependencies is done in the end, whatever fails elsewhere
\* (spec 016, user story on isolated failures).
IndependentTaskDone ==
  \A t \in Task : (status[t] = "pending" /\ depends_on[t] = {} /\ assigned_to[t] = NoOne)
                  ~> (status[t] \in Terminal \/ stop \/ phase \in Over)
=============================================================================
