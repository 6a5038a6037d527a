----------------------------- MODULE TeamFanOut -----------------------------
(***************************************************************************)
(* TeamRuntime.run without a task list: every teammate once, at most       *)
(* max_concurrent_teammates at a time, then the lead over all their        *)
(* contributions.  Participants 1..N are the teammates.  The registry has  *)
(* every agent (run_from_config validates it).                             *)
(***************************************************************************)
EXTENDS Flow

CONSTANTS MaxConcurrent
ASSUME SlotsAssumption == MaxConcurrent \in Nat \ {0}

VARIABLES failurePolicy,  \* plan.on_teammate_failure
          spawned,        \* teammates started so far
          mate,           \* where each teammate is
          contribution,   \* contributions[name].status, "none" before
          group           \* causes of the cancelled task group: "abort", "outside"

fanVars == <<failurePolicy, spawned, mate, contribution, group>>

Gone == {"left", "dropped"}

FanTypeOK ==
  /\ failurePolicy \in {"isolate", "abort_team"}
  /\ spawned \in 0..N
  /\ mate \in [Step -> {"unborn", "waits", "works", "reports", "laments", "mourns"} \cup Gone]
  /\ contribution \in [Step -> {"none", "finished", "failed", "cancelled"}]
  /\ group \subseteq {"abort", "outside"}

FanInit ==
  /\ failurePolicy \in {"isolate", "abort_team"}
  /\ spawned = 0
  /\ mate = [t \in Step |-> "unborn"]
  /\ contribution = [t \in Step |-> "none"]
  /\ group = {}

StartTeam ==
  /\ Announce("team", "TEAM_STARTED", "spawn")
  /\ UNCHANGED <<superVars, fanVars>>

\* TEAMMATE_SPAWNED is published between two starts: a team may abort in the
\* meantime, and then starts nobody else if the publication suspends.
Spawn ==
  /\ phase = "spawn" /\ spawned < N
  /\ spawned' = spawned + 1
  /\ mate' = [mate EXCEPT ![spawned + 1] = "waits"]
  /\ UNCHANGED <<flowVars, superVars, failurePolicy, contribution, group>>

Turn(t, from, to) == mate[t] = from /\ mate' = [mate EXCEPT ![t] = to]

TakeSlot(t) ==
  /\ Turn(t, "waits", "works")
  /\ Cardinality({u \in Step : mate[u] = "works"}) < MaxConcurrent
  /\ UNCHANGED <<flowVars, superVars, failurePolicy, spawned, contribution, group>>

\* The contribution is booked before its event is published.
Deliver(t) ==
  /\ Turn(t, "works", "reports")
  /\ contribution' = [contribution EXCEPT ![t] = "finished"]
  /\ UNCHANGED <<flowVars, superVars, failurePolicy, spawned, group>>

\* An exception of the agent, or its timeout.
Disappoint(t) ==
  /\ Turn(t, "works", "laments")
  /\ contribution' = [contribution EXCEPT ![t] = "failed"]
  /\ UNCHANGED <<flowVars, superVars, failurePolicy, spawned, group>>

ReportDone(t) ==
  /\ Turn(t, "reports", "left")
  /\ UNCHANGED <<flowVars, superVars, failurePolicy, spawned, contribution, group>>

LamentDone(t) ==
  /\ Turn(t, "laments", "left")
  /\ group' = IF failurePolicy = "abort_team" THEN group \cup {"abort"} ELSE group
  /\ UNCHANGED <<flowVars, superVars, failurePolicy, spawned, contribution>>

\* Cancellation within the try block overwrites a contribution that is not
\* announced yet; within a handler it does not.
Dropped(t) ==
  /\ group # {}
  /\ \/ \E l \in {"waits", "works", "reports"} : Turn(t, l, "mourns")
     \/ \E l \in {"laments", "mourns"} : Turn(t, l, "dropped")
  /\ contribution' = [contribution EXCEPT ![t] = IF mate[t] \in {"laments", "mourns"} THEN @
                                                 ELSE "cancelled"]
  /\ UNCHANGED <<flowVars, superVars, failurePolicy, spawned, group>>

CancelTeam ==
  /\ mode = "team" /\ phase = "spawn" /\ "outside" \notin group
  /\ group' = group \cup {"outside"}
  /\ UNCHANGED <<flowVars, superVars, failurePolicy, spawned, mate, contribution>>

Together ==
  /\ phase = "spawn"
  /\ spawned = N \/ group # {}
  /\ \A t \in Step : mate[t] \in Gone \cup {"unborn"}

\* Cancelled from outside: run reports it, unless the publication raises again.
TeamCancelled ==
  /\ Together /\ "outside" \in group
  /\ \/ Conclude("TEAM_FINISHED", "cancelled") \/ Proceed("over")
  /\ UNCHANGED <<superVars, fanVars>>

Failed == \E t \in Step : contribution[t] = "failed"

TeamFails ==
  /\ Together /\ "outside" \notin group
  /\ Failed /\ failurePolicy = "abort_team"
  /\ Conclude("TEAM_FAILED", "failed")
  /\ UNCHANGED <<superVars, fanVars>>

LeadTurn ==
  /\ Together /\ "outside" \notin group
  /\ ~(Failed /\ failurePolicy = "abort_team")
  /\ Proceed("lead")
  /\ UNCHANGED <<superVars, fanVars>>

\* The lead's result is the team's; TEAM_FINISHED carries its status.
LeadReturns ==
  /\ phase = "lead"
  /\ \E r \in {"finished", "failed", "timed_out"} : Conclude("TEAM_FINISHED", r)
  /\ UNCHANGED <<superVars, fanVars>>

MateStep(t) == TakeSlot(t) \/ Deliver(t) \/ Disappoint(t) \/ ReportDone(t) \/ LamentDone(t)
               \/ Dropped(t)

FanNext ==
  \/ StartTeam \/ Spawn \/ CancelTeam \/ TeamCancelled \/ TeamFails \/ LeadTurn \/ LeadReturns
  \/ \E t \in Step : MateStep(t)

-----------------------------------------------------------------------------
\* The lead consolidates a complete team: when it runs, every teammate has
\* contributed a result or, if failures are isolated, its failure, although
\* teammates are started one by one, wait for slots and may abort the team
\* while others are still being started.
LeadInformed ==
  mode = "team" /\ phase = "lead" =>
     \A t \in Step : /\ contribution[t] \in {"finished", "failed"}
                     /\ mate[t] = "left"
                     /\ contribution[t] = "failed" => failurePolicy = "isolate"
=============================================================================
