----------------------------- MODULE Supervision ----------------------------
(***************************************************************************)
(* Supervised calls: the "while True: try ... except" loop around an agent *)
(* in the workflow, deliberation and loop runtimes, and the decision of    *)
(* FlowSupervisor and StepSupervisor on every failure.                     *)
(*                                                                         *)
(* A failure is counted, then SUPERVISION_FAILURE_RECEIVED is awaited, and *)
(* only then is the failure judged: parallel branches that share a step id *)
(* interleave between the two.  An error is "fatal" if its category forces *)
(* STOP or ESCALATE (_FORCED_OVERRIDES); both make the runtimes raise, as  *)
(* do the strategies of those names, here "give up".                       *)
(***************************************************************************)
EXTENDS Integers, FiniteSets

CONSTANTS Caller,       \* tasks that make supervised calls
          Id, NoId,     \* step ids
          Breaker,      \* supervision.circuit_breaker_threshold
          FlowBreaker,  \* flow_circuit_breaker_threshold
          MaxRestarts   \* supervision.max_restarts, per restart window

ASSUME IdAssumption == NoId \notin Id
ASSUME CallerAssumption == IsFiniteSet(Caller)
ASSUME LimitAssumption == {Breaker, FlowBreaker, MaxRestarts} \subseteq Nat \ {0}

VARIABLES strategy,  \* the supervision of the plan, "none" when there is none
          failures,  \* _failure_counts, per step id
          recent,    \* restarts of the step id within its window
          total,     \* _total_flow_failures
          call,      \* the supervised call of each task
          grants     \* history: restarts ever granted to the step id

superVars == <<strategy, failures, recent, total, call, grants>>

Error == {"retriable", "timeout", "fatal"}
NoCall == [at |-> "free", id |-> NoId, tries |-> 0, seen |-> 0, error |-> "none"]

SuperTypeOK ==
  /\ strategy \in {"none", "restart", "resume", "give up"}
  /\ failures \in [Id -> Nat]
  /\ recent \in [Id -> Nat]
  /\ total \in Nat
  /\ grants \in [Id -> Nat]
  /\ call \in [Caller -> [at : {"free", "calling", "answered", "judged", "granted",
                                "refused", "done", "cancelled"},
                          id : Id \cup {NoId}, tries : Nat, seen : Nat,
                          error : Error \cup {"none"}]]

NothingYet == [i \in Id |-> 0]

SuperInit ==
  /\ strategy \in {"none", "restart", "resume", "give up"}
  /\ failures = NothingYet /\ recent = NothingYet /\ grants = NothingYet
  /\ total = 0
  /\ call = [c \in Caller |-> NoCall]

\* A new run has a new FlowSupervisor.
Renew ==
  /\ failures' = NothingYet /\ recent' = NothingYet /\ grants' = NothingYet
  /\ total' = 0
  /\ call' = [c \in Caller |-> NoCall]
  /\ UNCHANGED strategy

Move(c, from, to) ==
  /\ call[c].at = from
  /\ call' = [call EXCEPT ![c].at = to]
  /\ UNCHANGED <<strategy, failures, recent, total, grants>>

-----------------------------------------------------------------------------
Begin(c, i) ==
  /\ call[c].at = "free"
  /\ call' = [call EXCEPT ![c] = [NoCall EXCEPT !.at = "calling", !.id = i]]
  /\ UNCHANGED <<strategy, failures, recent, total, grants>>

\* The agent returns; done once the caller has made use of the answer.
Answer(c) == Move(c, "calling", "answered")
Settle(c) == Move(c, "answered", "done")

Active == {"calling", "answered", "judged", "granted"}

\* A task of a cancelled scope.
Cancel(c) == \E l \in Active : Move(c, l, "cancelled")

\* A task that makes one call after another.
Reset(c) ==
  /\ call' = [call EXCEPT ![c] = NoCall]
  /\ UNCHANGED <<strategy, failures, recent, total, grants>>

\* The try block raises.  The breaker of the flow opens before the supervisor
\* of the step hears of the failure.
Raise(c, e) ==
  /\ call[c].at \in {"calling", "answered"}
  /\ LET i == call[c].id
         opens == total + 1 >= FlowBreaker
     IN IF strategy = "none"
        THEN /\ call' = [call EXCEPT ![c].at = "refused", ![c].error = e]
             /\ UNCHANGED <<failures, total>>
        ELSE /\ total' = total + 1
             /\ failures' = [failures EXCEPT ![i] = IF opens THEN @ ELSE @ + 1]
             /\ call' = [call EXCEPT ![c].at = IF opens THEN "refused" ELSE "judged",
                                     ![c].error = e, ![c].seen = failures[i] + 1]
  /\ UNCHANGED <<strategy, recent, grants>>

\* Variant: the breaker looks at the number of restarts of this call.
GrantsOwn(c) ==
  /\ call[c].error # "fatal"
  /\ call[c].tries + 1 < Breaker
  /\ recent[call[c].id] < MaxRestarts
  /\ strategy \in {"restart", "resume"}

\* The order of the tests: override, breaker, restart budget, strategy.  The
\* breaker is judged by the count this failure brought it to.
Grants(c) ==
  /\ call[c].error # "fatal"
  /\ call[c].seen < Breaker
  /\ recent[call[c].id] < MaxRestarts
  /\ strategy \in {"restart", "resume"}

\* The restart is booked when it is granted, whether the runtime honours a
\* decision of that kind or not.
Judge(c, honoured) ==
  /\ call[c].at = "judged"
  /\ LET i == call[c].id
         one == IF Grants(c) THEN 1 ELSE 0
     IN /\ recent' = [recent EXCEPT ![i] = @ + one]
        /\ grants' = [grants EXCEPT ![i] = @ + one]
        /\ call' = [call EXCEPT ![c].at = IF Grants(c) /\ strategy \in honoured
                                          THEN "granted" ELSE "refused"]
  /\ UNCHANGED <<strategy, failures, total>>

Retry(c) ==
  /\ call[c].at = "granted"
  /\ call' = [call EXCEPT ![c].at = "calling", ![c].tries = @ + 1]
  /\ UNCHANGED <<strategy, failures, recent, total, grants>>

\* The oldest restart leaves the window.
Slide(i) ==
  /\ recent[i] > 0
  /\ recent' = [recent EXCEPT ![i] = @ - 1]
  /\ UNCHANGED <<strategy, failures, total, call, grants>>

-----------------------------------------------------------------------------
\* However failures of a step id spread over parallel branches, repeated steps
\* and expired windows, the id is granted fewer restarts than the threshold of
\* its breaker, and no more than max_restarts lie in one window.
RestartsBounded ==
  \A i \in Id : grants[i] < Breaker /\ recent[i] <= MaxRestarts
=============================================================================
