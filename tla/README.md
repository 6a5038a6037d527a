# TLA+ models of miniAutoGen

miniAutoGen runs teams, workflows, deliberations and loops of language-model
agents on one anyio event loop, from a command line, a dashboard, a web console,
a gateway daemon and scripts.  Its own logic is coordination: who may work on
which task, what happens when an agent fails, times out or is cancelled, which
side effects may be repeated, and what is left on disk and in stores when
something stops half-way.  This directory holds TLA+ modules for that logic, TLC
configurations that check them on small instances, and TLAPS proofs of what
holds for every instance.

Three facts about the program shape every model:

* **One event loop.**  Code between two suspension points is atomic.  An action
  is the code from one await that may suspend to the next; an await that cannot
  suspend (an `async def` that awaits nothing) is no boundary.
* **Cancellation arrives at suspension points** (`CancelScope`, `fail_after`,
  `move_on_after`).  Whatever was changed before the await stays changed.
* **Processes share files and databases.**  Commands, gateways and dashboards
  meet there; between two system calls of one anything of another may happen,
  and a process may die.

`PROJECT.json` lists the components with their files, the runs, a mutant for
every property, the correspondence of every definition with the lines it stands
for, the hazards at their lines, the findings and the theorems.  Paths below are
relative to `src/miniautogen/` unless they begin with `src/`.

## Inventory

### Coordination of a team

| Component | State | Operations | Hard because | Module |
|---|---|---|---|---|
| Task list store, `core/runtime/team_task_list.py` | entries in insertion order, completion events, board lock | add, save, delete, claim, update_status, release, wait_for | events follow the unlock; a refused claim publishes under the lock; dependencies may dangle; cycles through overwriting | TeamTaskList, CycleSearch, TaskObservers |
| Task tools, `team_task_tools.py` | none | task_add, task_claim, task_complete, task_fail | the agent and the loop that runs it change the same entry | TeamTaskList, TeamRun |
| Team run over a board, `team_runtime.py` | loops' locals, limiter, scope | populate, lead first, drain loops, idle detection, release on cancellation | two listings without a lock, failures inside the failure handler, shielded release | TeamRun |
| Team run without a board | contributions per teammate | start, isolate or abort, lead's turn | cancellation overwrites contributions that are booked but not announced | TeamFanOut |
| Mailbox and idle aggregation, `team_mailbox.py` | streams, shadow buffers, idle set | send, receive, peek, mark idle | a message is counted before it is there and after it has gone | TeamMail |
| Plan approval, `team_plan_approval.py`, gated tools | slots | register, resolve, wait | decision against timeout, decision by mail | PlanApproval |
| Effects, `core/effect_interceptor.py`, `stores/*effect_journal.py` | records, counts per step | execute | lookup and registration are two awaits; stale records; crash between effect and record | EffectInterceptor |

### Flows

| Component | State | Operations | Hard because | Module |
|---|---|---|---|---|
| Workflow, `workflow_runtime.py` | current input, index, checkpoint | steps, checkpoints, resume, parallel branches, synthesis | the save is inside the retried block; branches cancel each other | WorkflowRun, StepChain |
| Supervision, `supervisors.py`, `flow_supervisor.py` | counts and restart windows per id | handle failures | counted before an await, judged after it | Supervision |
| Deliberation, `deliberation_runtime.py` | contributions, reviews, rounds | contribute, review, consolidate, document | matching by role name through skips and retries | DeliberationRun |
| Agentic loop, `agentic_loop_runtime.py` | turns, last routes | route, reply, stop | restarts whose window slides, stagnation | LoopRun |
| Pipeline runner, `pipeline_runner.py`, policies on a run | status in store, events, gate | run_pipeline, run_from_config | status saved before it is announced; approval against timeout | PipelineRun, FlowRun |
| Agent runtime and memory, `agent_runtime.py`, `persistent_memory.py` | session, turns, file | initialize, turns, close | whole store over the file at close; overlapping runs | AgentLife |
| Human agent, `human_agent.py` | queue, questions | every call of a person | late and double answers | HumanTalk |
| Checkpoints and logs, `checkpoint_manager.py`, `sqlalchemy_checkpoint_manager.py`, event stores | checkpoint, rows | atomic_transition, resume, fold, pages | two stores without a transaction; a reader meanwhile | RunLog |
| Scripting, `scripting/builder.py` | agents, sessions, key variables | add, execute in four ways | executions overlap, fail, are cancelled | Script |

### Around the flows

| Component | State | Operations | Hard because | Module |
|---|---|---|---|---|
| Workspace files, `cli/services/*_ops.py`, `init_project.py`, routes, forms, workspace tools | `miniautogen.yaml`, agents' files, modules | create, update, delete, init | references across files; commands cut short | Workspace, Registry |
| Engines, `backends/engine_resolver.py`, `resolver.py`, `discovery.py` | caches, shared command list | resolve, fall back, build, list | a module list is extended in place | Engines |
| Chat and lead, `cli/commands/chat.py`, `lead.py`, services | session, history, events | send, switch, clear, leave | close before create; errors nobody catches | ChatSession |
| Run command, `cli/commands/run.py`, `run_pipeline.py` | saved checkpoints | run, stop, resume | a resumed run is stopped again under another identifier | RunCommand |
| Gateway daemon, `cli/services/server_ops.py` | pid file, processes | start, stop, restart, status | read, probe, write in separate steps, by several commands | Daemon |
| Consoles and gateway, `server/`, `gateway/routes.py`, `session_ops.py` | run records | trigger, list, page, cancel, clean | overlapping runs, limits before filters | ConsoleRuns |
| WebSocket of a run, `server/ws.py` | connections | connect, publish, leave | the list changes while it is iterated | EventHub |
| Dashboard, `tui/app.py`, `data_provider.py`, `event_sink.py` | workers, stream, history | run a flow, stop, bridge | exclusive workers cancel each other; bounded stream | Dashboard |
| Wizards, `tui/screens/*_wizard.py` | drafts, pages | forward, back, change | pages are filled again after later ones | Wizards |
| Command-line agents, `backends/cli/driver.py` | pipes, child | send_turn | order of reading and writing | CliTurn |

Not modelled: see the last section but two.

## Modules

    TeamTaskList            the board: store operations, its clients (Next), whole surface (ApiNext)
      |- CycleSearch        add with the DFS of _validate_no_cycle, step by step; refines ApiSpec
      |- TaskObservers      wait_for and the event log beside the board's clients
      `- TeamRun            a team over a board; refines TeamTaskList!Spec
    PlanApproval            requests, decisions, gated tools
      `- TeamMail           inboxes, drain loops with mail, idle aggregation
    Supervision             supervised calls and what failures come to
      `- Flow               life cycle, events and answers of agents, shared by the flows
           |- WorkflowRun, DeliberationRun, LoopRun, TeamFanOut, PipelineRun
           `- FlowRun       all of them from entry to return; refines StepChain!Spec
    EffectInterceptor, CliTurn, Daemon, HumanTalk, EventHub, Dashboard, Wizards, RunCommand
    RunLog, ConsoleRuns     checkpoints and logs; records of runs
    AgentLife               runs, agents and their memory
    Workspace               files and commands; refines Registry!Spec
    Engines                 profiles to drivers
      `- Script             the builder and its executions
    ChatSession
    *Proofs                 theorems
    MC*                     instances for TLC

Every module begins with a comment on what it keeps of the code.  What the
comments do not say:

**TeamTaskList.**  One function per field of an entry (`status` is `"absent"`
for identifiers that are not on the board), `order` for the insertion order of
the dict, `doneEvent` for the completion events.  A method changes the board in
one step (nothing is awaited under the lock) and then has a publication in
flight (`emit[a]`); `Publish` ends the call, by success or by cancellation.
Only `ClaimBlocked` keeps `boardLock`, because the code awaits the sink inside
the lock.  Reads, and calls that raise before their first assignment, are
stuttering.  `Spec` restricts the callers to what the repository has: fresh
identifiers, pending entries, COMPLETED and FAILED reports, release of one's own
claim.  `ApiSpec` has no such restriction.

**TaskObservers.**  `wait[w]` is a waiter's place in `wait_for`; `published[t]`
is the last end of t that the sink accepted.

**TeamRun.**  `phase` follows `_run_with_task_list`, `pc[w]` the body of
`_run_teammate_drain_loop` with one label per await, `cur[w]` the entry in hand.
Agents call the tools while `pc[w] = "work"`; a timeout may catch a tool call
between its change and its event.  `stop` is the cancelled scope, `why` its
causes.  Idle detection keeps the two listings apart and counts quiet polls for
seconds, ending the wait at the threshold or earlier.

**TeamMail.**  `stream`, `blocked` and `shadow` are an inbox's stream, the
senders that wait for room, and the shadow buffer.  `loop[t]` is the drain
loop's place, `turn[t]` the agent's.  Of the board only who is at work is kept.

**Supervision, Flow, FlowRun.**  A caller (branch, participant, teammate or the
flow itself) has a record `call[c]` with its place between start and judgement
of a failure; `granted`, windows and flow counts are per component id, which
callers may share.  `FlowRun` fixes the mode at the start (sequence, fan-out,
deliberation, loop, team, pipeline) and takes every run from its entry to its
return, resumed runs included.  `StepChain` is the abstract specification of a
sequence: the work at a step is the work of the steps before it, in order.

**AgentLife.**  `pc[r]` is a run's place in run_from_config, `at[r]` the agent
that is opened or closed, `disk[a]` the agent's file.  `faults` says what may go
wrong in a behaviour: a sink that suspends, a session or a memory that fails,
closes that raise, crashes.

**Workspace.**  `config`, `agents`, `modules` are the files; `job` is a command
between its check and the replacement of a file.  `Registry` is the abstract
specification: three tables and operations that are whole or refused.

**Engines, Script, ChatSession.**  `command` is the shared list of the module;
`pool` the cache of a resolver; `building[r]` the agents of a run still to be
built.  In `Script` `environ` is the key variables of the process.  In
`ChatSession` `chat` is the session of the command, `unclosed` the number of
runtimes that are open.

## Runs

| Run | Instance | Shows |
|---|---|---|
| `TaskObservers` | 2 actors, 2 tasks, 1 label, a dangling name, 1 waiter | what the board guarantees (`BoardFits`, `DepsHonoured`, `BoardMoves`), no wake-up missed, no untrue end in the log, every wait for an end that came is over |
| `TeamRun` | lead, 2 teammates, 2 tasks, 1 slot, all tools, assignments, outside cancellation | loops work on their own tasks, a drained board is settled, refinement of the board, and the run ends (`TeamEnds`) |
| `TeamMail` | 2 teammates, inboxes of 1, 2 tasks, 1 request, 2 messages | mail under way is counted, answers agree with decisions, the team concludes unless a counted message never comes, and what leaves one behind (`TeamConcludes`) |
| `FlowRun` | 2 steps, participants or teammates, breakers 3 and 4, 1 restart per window, 2 rounds, 2 turns, 2 attempts, 1 resumed run | restarts bounded, an end is an end (`EndMeansDone`), documents and leads are informed (`InformedEnd`), store, events and gate agree but for cancellations (`OutcomesAgree`), refinement of StepChain, every run ends |
| `Project` | 2 runs of 2 agents with at most one kind of fault; workspace of 2 engines, 2 agents, 2 flows; 2 building runs, 3 profiles; 2 executions of a builder with 2 agents; 2 chat agents, 3 messages; board: 1 actor, 2 tasks, any dependencies, every operation, each edge of the search a step | agents remember, nothing stays open, references hold, refinement of the registry, engines are what their profiles say, scripts clean up, a talk is whole; the search of `add` is exact and `add` with it refines `add` with the test (`SearchFindsCycles`), only `save` makes cycles (`CyclesOnlyFromSave`) |
| `Outside` | effects: 2 calls, 2 keys, both journals, 1 crash; CLI agent: pipes of 1; daemon: 2 actors, 2 pids; person: 3 questions; hub: 2 clients, 2 events; dashboard: 3 presses; wizards: 3 names; run command: 3 identifiers; log: 1 writer, 2 steps, 3 lists of events, 2 stops, pages of 2; records: 2 runs, 2 flows | effects single, completed means ran and stays, pipes flow, the daemon is known, answers fit, clients are served, no ghost flow, drafts are complete, work is kept, checkpoint and log agree and pages are whole (`RecordsAgree`), the embedded console shows runs as they are (`RunsShown`) |
| `CancelLeak`, `IsolatedFailure`, `HeadOfLine`, `DeafDashboard`, `EffectTwin`, `ConsoleTotal` | see below | statements of the repository that the code does not keep |

`Project` and `Outside` hold several components that share no state, one per
scene: a variable that never changes says which one moves.  Their deadlock check
is off, since a scene comes to an end (all executions over, a command that has
been answered, a conversation closed), and so it is in `FlowRun` and `TeamMail`,
whose runs end and have liveness properties instead.  The scene of the run store
that a gateway, runners and `sessions clean` change carries no property of
`Outside`: what its readers are promised of it does not hold (`ConsoleTotal`).

**Why the bounds are enough.**  The board's rules relate two entries (a task and
what it depends on, an old candidate and a newer one) and two actors (owner and
intruder).  Two entries make a cycle through another entry and an edge into one
that an earlier root has finished; that the search is exact on longer paths is
proved, not checked, and since nothing else moves while it goes on, one actor
does for it.  One slot makes a limiter bite; two loops and a lead give every race
of a loop with another and with a running agent; one quiet poll is the shortest
threshold, hence the one that leaves earliest.  An inbox of one message makes a
second sender wait.  Two steps give one that is behind the checkpoint and one
that is not; two branches give one that fails while the other is between failure
and judgement; a breaker of three and a window of one restart are the smallest
for which the window slides without the breaker.  Two rounds and two turns give
a state carried over.  One fault of each kind per behaviour shows what each does
alone; the theorems on AgentLife are for all of them together.  Two agents of a
builder give one that is open and one that is not when an execution fails.
Three questions let an answer be late for two.  Two senders to one inbox, of
which one may be its owner, overtake each other.  The three lists of events are
what WorkflowRuntime hands over (none) and what the tests of the two checkpoint
managers do.  `MaxRuns`, `MaxStops`, `MaxEdits`,
`MaxCalls`, `MaxAdds`, `MaxTalk`, `MaxEvents`, `MaxWork`, `MaxRestores`,
`MaxLapses`, `Crashes` and `MaxExtra` bound what could go on for ever; each
allows the case it is about to happen twice or between any two steps.

Every property of a passing run has a mutant: a variant of one operation,
defined just before it and marked `Variant`, under which the property fails.
Variants are used by nothing else.  `OutcomesAgree` has two, one for the gate and
one for the store.

### Statements the code does not keep

* **CancelLeak** (bug).  `claim` changes the board and then awaits the event.  A
  cancellation there leaves the task in progress; the drain loop only re-raises.
* **IsolatedFailure** (bug).  An agent completes its task with `task_complete`
  and then raises: the loop reports FAILED, the store refuses, and the exception
  leaves the `except` block, the loop and the task group.
* **HeadOfLine** (bug).  `claim(None)` tries the oldest candidate only; if its
  dependency failed, independent tasks behind it are never claimed.
* **DeafDashboard** (bug).  The first flow run from the dashboard cancels the
  worker that empties the event stream; a flow that fills it waits for ever.
* **EffectTwin** (divergence).  Over the SQLAlchemy journal two calls can pass
  the lookup together and both execute.
* **ConsoleTotal** (bug).  `query_runs` counts the runs it has read for the page,
  offset + limit of them at most, and gives that as the total, although its
  comment says it is "computing correct total"
  (`server/standalone_provider.py:133`).  The list makes pages of it
  (`src/console/src/app/runs/page.tsx:23`) and never offers a Next that can be
  pressed (lines 72 and 88).  `RunsShown` is therefore about the console that is
  embedded in the dashboard only, whose history it shows whole.

These are shown by runs.  Three more are stated inside a property that holds, as
the exception it makes:

* **Cancelled runs** (`OutcomesAgree`).  `run_pipeline` announces RUN_CANCELLED
  and saves nothing (`core/runtime/pipeline_runner.py:412-424`): hearers are told
  of the end, the record says "started" for ever.  A record that says
  "cancelled" is that of a run the gate denied.
* **Empty logs** (`RecordsAgree`).  "State is derivable from the event log at any
  point" (`core/events/event_sourced_state.py:3`; an invariant of
  `src/docs/pt/architecture/09-invariantes-sistema-operacional.md:274`) does not
  hold of the program's own runs.  WorkflowRuntime, the one caller of
  `atomic_transition`, hands over no events (`core/runtime/workflow_runtime.py:238`,
  `:256`, `:294`), and a run by configuration has a checkpoint manager over an
  `InMemoryEventStore` of its own (`pipeline_runner.py:747-751`): the log is empty
  while the checkpoint advances, and `fold` says step 0.  `RecordsAgree` is about
  whatever lists a caller hands over, so it says what the managers contribute (the
  log is that of the steps the checkpoint covers) and both consequences: `fold`
  gives the checkpoint if every step hands over its end, and 0 if none does.
* **Ghosts in an inbox** (`TeamConcludes`).  A message can be counted for ever
  although it will never come; its teammate is never idle again and the team
  waits for ever.  `OnlyMishapsHaunt` names what leaves one behind: a send cut off
  between buffer and stream, a receive cut off before it counted, and, without
  any cancellation, sends that overtake each other between the two, since the
  receiver takes a message off the buffer only if it is the head
  (`core/runtime/team_mailbox.py:61`).

## Fairness

Safety runs assume none.

* `ObserveSpec`: an event the sink was given is accepted or dropped in the end
  (weak fairness of `Publish`), and a waiter that can take the lock again and
  again takes it (strong fairness: `anyio.Lock` serves waiters in order).
* `FairTeamSpec`: strong fairness of each loop (lock and `CapacityLimiter` are
  first come, first served, and the poll interval is finite) and of an agent's
  return (the timeout policy, or the agent itself), weak fairness of the run's
  own steps.  Nothing is assumed of tools being called or of cancellation.
* `TeamMail!FairSpec`: weak fairness of each loop's next step, of the timeout of
  a turn (a run built from a configuration always has a `TimeoutPolicy`, so a
  turn that waits for room in an inbox nobody reads is cut), and of a waiter for
  a decision, which has a timeout of its own.  Agents need not send anything.
* `FlowRun!FairSpec`: weak fairness of `Runs`, the disjunction of all steps of
  the run: agents answer, fail or are timed out by the engine's timeout,
  approvals are decided or time out, and the event loop runs on.  Cancellation,
  crashes and the sliding of restart windows are not among them.

`TeamEnds` is conditional on purpose.  A team run does not end while an entry is
stuck for ever: its dependency failed, it is reserved for somebody without a
loop, or it was claimed through a tool and forgotten.  The property says that
these are the only reasons, the limiter, the idle detection and failures
included, and that a stopped run ends in any case.  `TeamConcludes` is
conditional in the same way: a message may be counted for ever, and its inbox is
never empty again.  That a cancelled send or receive, or sends that overtake each
other, and nothing else, leave one behind is part of the property.

## Proofs

TLC checks the runs' instances; the theorems hold for every value of the
constants.

**TeamTaskListProofs** (any actors, tasks, labels).  `ClaimConsistent` and
`CompletionEvents` are inductive with the type invariant.  `DepsHonoured` is
not: a later `add` could turn a dangling dependency into a pending one.  It
needs `DepsOlder`: what an entry depends on is on the board or never will be
(fresh identifiers).  The action properties (`EndsAreFinal`, `NoTakeover`,
`EntriesMoveOn`) follow from those invariants by cases on the operations.
`SaveAloneMakesCycles` is about the whole public surface: an edge that an `add`
brings starts at the new entry, so a cycle would have to come back to it, and
that is what `_validate_no_cycle` has refused.  `TeamBoardsAreAcyclic` is the
same for the repository's callers, who never call `save`.

The search itself is proved too, for boards of any size and shape.  `SearchInv`
says what the colours mean between two steps of it: the calls of `dfs` that go
on are exactly the grey entries, without repetition and each with an edge to the
next (`GreyIsOnPath`, `PathFollowsEdges`); an edge that has been followed leads
to a black entry or to the next call (`FollowedEdges`); black entries depend on
black ones only and have no cycle among them (`BlackIsDone`); a white entry is a
root still to come (`WhiteIsToCome`).  So an edge to a grey entry closes a
cycle, the path from there on (`GreyEdgeClosesCycle`), and a search that has
come to its end has every entry black (`EndedSearchFoundNone`).  Hence
`SearchImplementsTest`: every step of the search stutters and the store at its
end is the `Add` of `ApiSpec`, whose guard is the definition of a cycle.
`SearchIsExact` (the property of the run) and `SearchedBoardsAreAcyclic` follow.
`SearchInv` has been checked on the board of `Project` before it was proved.

**TaskObserversProofs** (any callers and waiters).  Nobody sleeps on a finished
task, and an end in the log is the entry's end on the board.  The invariant adds
what a waiter has looked at, and which publications are still on their way, to
the board's own.

**TeamRunProofs** (any team, limits, policy, tools).  `RunInv` joins the board's
and the run's types, `Hands` (a loop in a claiming, working or reporting place
holds an entry claimed by its own teammate and started or reported; a call in
flight belongs to the place that made it), the lock invariant and `ToAdd`
(initial tasks not yet added are absent).  `RunStep` shows in one argument that
every step keeps `RunInv` and is a step of `TeamTaskList!Next` or leaves the
board alone; so the team run implements the board (`TeamImplementsBoard`) and
inherits its theorems.  `HandsAreOwned` needs all of `Hands`: that a release
gives back the loop's own claim rests on nobody else being able to release or
report it.  `DrainedBoardsAreSettled` needs `PollsInv`, which says of a loop
between its two reads of the board, and of one that has left, who is still there
to finish what is pending or in progress: that nobody looks once both are gone
is why the two reads need no lock.

**TeamMailProofs** (any agents, letters, tasks, requests, inbox sizes).
`ApprovalInv` ties the four places of a request to each other: the wait that is
open, the slot of the registry, the answer the requester was given and the
events published; `ApprovalsAgree` is what they say together.  `MailInv` says
that a letter is in one place at most (offered by its sender, in the stream or
the queue of its addressee, or in the reader's hand) and that every one of these
places is counted; without the first half a reader that takes one copy would
uncount the other.  `GhostsComeOfMishaps` (`OnlyMishapsHaunt`) needs `CountedOnce`
beside it: no message is counted twice or before it was written, so one that is
counted off is gone and a new one is no ghost; and `TurnsFit`: a loop starts no
turn in which its agent is still sending.

**FlowRunProofs** (any steps, participants, attempts, limits, policies).
`SuperInv` counts for every step the failures granted and those still on their
way to the supervisor, since branches fail side by side: `RestartsAreBounded`.
`FlowInv` has a part per mode (`SeqInv`, `BranchInv`, `TalkInv`, `LoopInv`,
`TeamInv`, `FreeInv`), which says of each phase what has been done and what
calls are out, and `PhaseFits`, `GateInv`, `BookInv` and `RecordInv` for the run
around them: where the handle of an approval, the result, the stored status and
the events are at each place of the pipeline.  That a cancelled run's record says
"started" needs `RecordInv`: until an outcome is booked, nothing else is stored.
From it `EndsMeanDone`, `EndsAreInformed` and `OutcomesAlwaysAgree`; and with
`ChainStays` every step of a sequence is a step of StepChain or none
(`SequencesAreChains`).

**ProcessProofs** (any agents, executions, output, flows, names, runs).  Five
programs, an invariant each.  Script: `Sessions` and `Keys` say which runtimes
and keys each place of an execution still owes.  CliTurn: `PipesHold` adds up
what was written, what lies in the pipes and what was read.  Dashboard:
`FlowsAlone` (one worker of the group).  Wizards: `LeadersOffered` (the leader's
page offers participants only, and its answer is discarded with them).
RunCommand: `Resumable` for `WorkIsAlwaysKept`, an action property.

**ProjectProofs** (any runs, agents, faults, names).  *Runtimes*:
`NothingStaysOpen` from what each place in a run owes: announced turns, open
sessions, and agents not yet closed.  `AgentsRemember` needs that in calm
weather the store of an agent that was read holds what the file held, that
nobody writes in between, and that every turn is in the store before it counts
as taken.  *Workspace*: `WorkspaceInv` is the types, `Consistent`, `AbsentInv`
(an absent or cut-short configuration has no entries), `DraftLegal` (the draft
of a command in progress is a legal change of the files as they are now:
commands do not overlap) and `FreshInv` (what `init` may remove again is only
what it wrote).  From it, `ReferencesHold` and `FilesAreRegistry`: each step is
an operation of the registry or none.  *Conversations*: `TalkInv` reads from the
parity of history and events whose turn it is; a lead reads the events backwards
and in the middle of a turn, when their number is odd, so whatever the limit it
meets a start first.

**OutsideProofs**, seven scenes.
*Effects* (any callers, keys, limits, deployments).  `JournalDoesNotLie`
from "a call about to record success has run its tool"; `NoTwinInMemory`,
`LimitHolds` and `CompletedStaysSo` for the in-memory journal with a sink that
does not suspend and tools within the timeout, from `Exclusive` (at most one
call is inside an unbroken stretch, an executing call's record is pending and
fresh, and what a call about to decide has read is still so).
*Daemon* (any callers and pids).  `DaemonInv` says what a command knows of the
process it holds at each place: that the pid it read, spawned or signalled is
the daemon's, or that there is none.
*Person* (any calls).  `HumanInv`: without strays at most one question is open,
the answers in the queue are to it, and no answer is there twice.  `OnceInv`:
unless an answer was given twice, those that wait and those that were taken are
all different, whatever has shifted them.
*Watchers* (any clients, events, limit).  `HubInv` follows a publication through
the list while others leave it: the clients before its place have received the
event, those of its audience that are still there stand at it or behind it,
unless a removal has shifted them; `RoomFits` counts those let in side by side.
*Engines* (any profiles, discoveries).  `EnginesInv` says whose profile each
driver was built from and that what was tried before the chosen engine made
none.
*Shown runs* (any runs and flows).  `ShownInv` ties an entry of the history to
the run behind it.
*Checkpoint and log* (any steps, events handed over with them, stops and page
size; one writer of a run at a time, `OneWriter`, the hypothesis of the theorem).  `LogInv` numbers the rows as
they come, so that an index finds one row, and says at each place of a
transition what its writer has left: before the checkpoint, events of the next
step; between checkpoint and last event over two stores, events of the
checkpoint's step that are not in the log yet, while every other one of that
step is; afterwards, events that are all in it.  `EventsByStep` is the list of the events of steps 1 to k, `FoldOfSteps` the state
fold makes of it; `LogGrows` is what an append does to the log, used by the three
steps that insert.

Sequences are filtered, chains tried and events listed by recursive
functions (`Besides`, `Without`, `AfterChain`, `ListEvents`, `Fold`), since
the prover knows neither `SelectSeq` nor the folds.  Such a function is not known
to exist until it is constructed, and no induction rule can be cited; so
`KeptExists`, `TriedExists`, `FoldExists` and `StepsExist` construct the functions
step by step, from the least number at which that would fail (`LeastNumber`,
`StepByStep`), and what they compute is shown in the same way.

Assumptions are the named ASSUMEs of the modules: the "nobody" values are no
actors, tasks or keys; teammates are unique and the lead is none of them (a
validator of `TeamPlan`); limits are positive, a run has a step and a page an
event; initial tasks get fresh identifiers (uuid4); script agents have no
command, fallbacks or key variables (the builder cannot express them).  TLC
evaluates them in every run.

Only model-checked: the liveness properties `WaitEnds`, `TeamEnds`,
`TeamConcludes` and `FlowEnds` (the prover has no rule for fairness).  Every
other property of a passing run is a theorem, and so is `OnlyMishapsHaunt`, the
part of `TeamConcludes` that is an action property.

## Abstractions

* Titles, prompts, summaries, timestamps and event payloads beyond status and
  owner are left out.  What an answer's text decides is in Flow.
* Sinks may suspend but do not raise (`CompositeEventSink` and the runner's bus
  swallow exceptions); closing a runtime may raise.
* Agents are sets of tool calls followed by an end.
* Hashing is injective: keys stand for themselves.  Journals, stores and boards
  change in one step per call.
* TeamMail leaves out cancellation from outside, `abort_team`, `aclose`,
  dependencies of tasks, what the lead sends before the teammates start, and the
  agents' other tools.
* RunLog has one writer of a run at a time.
* Supervision is that of the plan; a step may have its own
  (`workflow_runtime.py:271`, `:330`), which no configuration gives it.
* AgentLife: `TurnsAnnounced` is about sinks that take an event at once.  Over one
  that suspends, a cancellation can fall into the announcement itself
  (`agent_runtime.py:703`) and the turn's end is lost.
* CliTurn takes it that the child keeps its streams open while it lives; a pipe
  is the pipe and the event loop's buffer together.
* Daemon has one port and leaves out the port file and the log.  `DaemonKnown`
  holds until commands overlap, a starter dies or a pid is used again.
* HumanTalk: an answer that is late, given twice or given while several questions
  are open shifts those that follow.  `AnswersFit` says that nothing else does,
  and that a shifted answer still serves one call only, unless it was given
  twice.  The terminal channel's timeout has no effect (its thread is shielded).
* Some properties are stated for runs in which the code's own weakness has not
  struck: `Remembered` without overlap, torn file or erasure, `EnginesFit` for
  engines that name a model, `EffectsSingle` in memory, `CompletedIsFinal` without
  slow tools, reclaims and overwriting, `HubServes` without a removal during a
  publication.  They say that nothing else breaks the promise; what the weakness
  does is said below.
* Workspace: commands of two processes do not overlap; hand edits are left out.
* Wizards use one set of names for agents and flows.
* Script: the inside of a coordination is who was asked and how it came back.
* In `Project` runs, building runs and executions share their identifiers, so
  that one symmetry serves all three scenes; no scene has two of them.

## Met while modelling

Reproducible without a model checker, so without a run.

*Teams.*  `initial_tasks` get fresh uuids while `depends_on` keeps the spec's
ids, so initial dependencies never bind (`team_runtime.py:336`).  An aborted team
reports FINISHED (`:477`, spec 015 line 89 wants TEAM_FAILED).  `update_status`
on an entry made by `save` assigns the status and then raises KeyError
(`team_task_list.py:151`).  A teammate announces itself idle with mail unread
(`src/.specs/017-team-mailbox/spec.md:44`).  The approval gate wraps the team
registry only, which is appended after the agent's own (`team_runtime.py:568`);
a teammate's `send_message` of kind `plan_approval_granted` resolves requests.
No shipped driver emits `tool_call_requested`, so the tools of agents act only
under a driver of the user's own.  Hence `miniautogen team` cannot put a task on
its board; its teammates leave after five seconds without work, its session is
not closed when something raises, and the runtimes of teammates never are.

*Effects.*  The interceptor's docstring promises the cached result of a
completed effect, the code returns None (`effect_interceptor.py:70`, `:197`);
over the durable journal concurrent calls can exceed `max_effects_per_step`.  A
tool slower than the timeout is reclaimed while it runs, and its late end
overwrites what was recorded.

*Flows.*  `run_from_config` publishes RUN_FINISHED whatever the result
(`pipeline_runner.py:583`).  `RunStateMachine` (unused) lets no run leave a
terminal state; the runner's store may go from finished to failed.  The router's
fallback decision lacks required fields, so an unreadable answer fails the loop
(`agent_runtime.py:280`); JSON that is no object raises AttributeError.
Closing a runtime that never read its memory writes an empty file over the old
one; overlapping runs lose each other's turns; `write_text` is not atomic though
`persistent_memory.py:66` says so.  Run records of PipelineRunner carry no
`run_id`: `sessions clean` never deletes them and `sessions show` never finds
them.  `SQLAlchemyEventStore.append` counts and then inserts; `list_runs` of the
database cuts before it filters.  Nothing takes up what the gateway's `create_run` queues, and
it overwrites a run of the same id.

*Run command.*  A timeout says "Checkpoint saved" without a database; flows by
configuration ignore `--resume`, save nothing and always report "completed".

*Engines, chat, scripts.*  `-m` options pile up in the shared command lists, and
an engine without a model inherits the last one.  Agents without a profile run on
`default` in flows but on `defaults.engine` in chat.  Discovered engines are not
usable by runs although `engine.py:219` says so.  The semantic cache
(`policies/semantic_cache.py`, used by no runtime) keys what is pending by run, so
parallel steps of a run would store under each other's input.  A driver error
ends chat and lead without closing the session; a failed `/switch` leaves a
closed one, and the next message ends the chat; every message is sent without
the earlier ones.  A script whose later agent cannot be built leaves the keys of
the earlier ones in the environment; a script's tool makes every execution raise
TypeError, since the registry's `register` takes a definition and a handler.

*Workspace.*  `init --force` with a template that fails removes an existing
project (`init_project.py:141`, `:189`), and does not repair a configuration cut
short.  The template `advanced` has a deliberation without a leader, which
`load_config` rejects.  Deletion of an agent looks neither at a team's `lead` nor
a loop's `router`; deletion of an engine looks at `defaults.engine_profile`
while the key is `defaults.engine`.  Commands that overlap share `path.yaml.tmp`.

*Daemon, dashboard, watchers.*  `stop_server` removes the pid file right after
SIGTERM; `restart` starts the new gateway while the old one has the port; the
dashboard stops a daemon it did not start.  The second flow's start marks the
dashboard idle through the first one's `finally`; cancelled flows are not in the
history; stopping a run stops nothing.  Edits in the wizards are refused because
their callbacks only create.  A connection to a run's WebSocket tests the limit
before it awaits `accept`; a client that leaves during a publication moves those
behind it, and the next one is passed over (`ws.py:47`); nothing is ever sent to the server's broadcaster.

## Not modelled

* **Composite runtime, delegation, hooks, interceptors**: run_from_config never
  builds a composite plan, and it is a loop over runtimes that are modelled; the
  others transform values.
* **Policies no runtime acts on** (budget, reactive, semantic cache, permission,
  validation): pure decisions and counters.
* **Team command**: it puts together a board, tools and drain loops that TeamRun
  models, beside a prompt that blocks a thread.
* **Drivers for HTTP services, tool registries, prompts, transformers**: requests
  and parsing; a turn that returns, raises or times out.
* **Legacy chat and pipeline components, templates, themes, panes and widgets,
  output of commands**: presentation, or a sequential loop without failures of
  its own.
* **Authentication, rate limits, TLS of the gateway**: outside the coordination.

## What is left

1. The drain loop with mailbox under cancellation from outside, and a team run in
   which board and mailbox are both complete.
2. Overlapping commands of two processes on one workspace.
