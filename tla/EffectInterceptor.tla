-------------------------- MODULE EffectInterceptor -------------------------
(***************************************************************************)
(* Idempotent tool execution: EffectInterceptor.execute over an            *)
(* EffectJournal (in-memory or SQLAlchemy), for the calls of one step.     *)
(*                                                                         *)
(* execute looks the key up, registers a PENDING record, runs the tool and *)
(* records the outcome; each journal call is an await.  Whether it really  *)
(* suspends depends on the journal: InMemoryEffectJournal never gives up   *)
(* the event loop, SQLAlchemyEffectJournal does in every call.             *)
(***************************************************************************)
EXTENDS Naturals

CONSTANTS Caller, Key,      \* concurrent callers, idempotency keys
          NoKey,
          MaxEffects,       \* policy.max_effects_per_step
          Setup,            \* the deployments looked at
          MaxRuns,          \* bound on the executions counted per key
          Crashes           \* bound on crashes of the process

ASSUME KeyAssumption == NoKey \notin Key
ASSUME BoundAssumption == {MaxEffects, MaxRuns, Crashes} \subseteq Nat

\* durable: the journal is SQLAlchemyEffectJournal, each call of which suspends;
\* sinkSuspends: so may the event sink; slowTools: a tool may outlive
\* stale_pending_timeout_seconds.
ASSUME SetupAssumption ==
  Setup \subseteq [durable : BOOLEAN, sinkSuspends : BOOLEAN, slowTools : BOOLEAN]

VARIABLES setup,     \* the deployment; never changes
          journal,   \* status of each record, "none" when there is none
          aged,      \* keys whose record is older than the stale timeout
          count,     \* _step_effect_counts of the step
          pc, key,   \* where each call is, and for which key
          saw,       \* the record the call read, and whether it was aged
          ran,       \* how often the tool took effect
          crashes

callVars == <<pc, key, saw>>
vars == <<setup, journal, aged, count, callVars, ran, crashes>>

Recorded == {"none", "pending", "completed", "failed"}
Executing == {"count", "run", "complete", "failing"}

TypeOK ==
  /\ setup \in Setup
  /\ journal \in [Key -> Recorded]
  /\ aged \subseteq Key
  /\ count \in Nat
  /\ pc \in [Caller -> {"idle", "get", "decide", "reclaim", "reclaimed", "register"} \cup Executing]
  /\ key \in [Caller -> Key \cup {NoKey}]
  /\ \A c \in Caller : pc[c] = "idle" <=> key[c] = NoKey
  /\ saw \in [Caller -> Recorded]
  /\ ran \in [Key -> Nat]
  /\ crashes \in Nat

Init ==
  /\ setup \in Setup
  /\ journal = [k \in Key |-> "none"]
  /\ aged = {}
  /\ count = 0
  /\ pc = [c \in Caller |-> "idle"]
  /\ key = [c \in Caller |-> NoKey]
  /\ saw = [c \in Caller |-> "none"]
  /\ ran = [k \in Key |-> 0]
  /\ crashes = 0

\* Places a call leaves without having suspended, so that no other call runs.
\* The one emission on the way to the tool is EFFECT_STALE_RECLAIMED.
Unbroken == IF setup.durable THEN {}
            ELSE {"get", "decide", "reclaim", "register", "count", "complete", "failing"}
                 \cup (IF setup.sinkSuspends THEN {} ELSE {"reclaimed"})

Turn(c) == \A d \in Caller \ {c} : pc[d] \notin Unbroken

Goto(c, l) == pc' = [pc EXCEPT ![c] = l]

-----------------------------------------------------------------------------

\* _check_policy and the computation of the key.
Check(c, k) ==
  /\ pc[c] = "idle" /\ Turn(c)
  /\ count < MaxEffects
  /\ Goto(c, "get")
  /\ key' = [key EXCEPT ![c] = k]
  /\ UNCHANGED <<journal, aged, count, saw, ran, crashes>>

\* EffectDeniedError.
Deny(c) ==
  /\ pc[c] = "idle" /\ Turn(c)
  /\ count >= MaxEffects
  /\ UNCHANGED <<journal, aged, count, callVars, ran, crashes>>

Get(c) ==
  /\ pc[c] = "get" /\ Turn(c)
  /\ saw' = [saw EXCEPT ![c] = journal[key[c]]]
  /\ Goto(c, "decide")
  /\ UNCHANGED <<journal, aged, count, key, ran, crashes>>

\* A call returns or raises.
Leave(c) ==
  /\ Goto(c, "idle")
  /\ key' = [key EXCEPT ![c] = NoKey]
  /\ saw' = [saw EXCEPT ![c] = "none"]

\* COMPLETED is skipped and a fresh PENDING raises EffectDuplicateError.
Dismiss(c) ==
  /\ pc[c] = "decide" /\ Turn(c)
  /\ saw[c] = "completed" \/ (saw[c] = "pending" /\ key[c] \notin aged)
  /\ Leave(c)
  /\ UNCHANGED <<journal, aged, count, ran, crashes>>

\* Variants: a fresh PENDING record does not stop the call; a COMPLETED one
\* does not.
ProceedOnPending(c) ==
  /\ pc[c] = "decide" /\ Turn(c)
  /\ saw[c] \in {"none", "failed", "pending"} /\ Goto(c, "register")
  /\ UNCHANGED <<journal, aged, count, key, saw, ran, crashes>>
ProceedOnCompleted(c) ==
  /\ pc[c] = "decide" /\ Turn(c)
  /\ saw[c] \in {"none", "failed", "completed"} /\ Goto(c, "register")
  /\ UNCHANGED <<journal, aged, count, key, saw, ran, crashes>>

\* A stale PENDING is reclaimed; FAILED and absent records are (re)executed.
Proceed(c) ==
  /\ pc[c] = "decide" /\ Turn(c)
  /\ \/ saw[c] = "pending" /\ key[c] \in aged /\ Goto(c, "reclaim")
     \/ saw[c] \in {"none", "failed"} /\ Goto(c, "register")
  /\ UNCHANGED <<journal, aged, count, key, saw, ran, crashes>>

\* update_status overwrites whatever the record is by now.
SetStatus(k, s) ==
  journal' = [journal EXCEPT ![k] = IF @ = "none" THEN @ ELSE s]

Reclaim(c) ==
  /\ pc[c] = "reclaim" /\ Turn(c)
  /\ SetStatus(key[c], "failed")
  /\ Goto(c, "reclaimed")
  /\ UNCHANGED <<aged, count, key, saw, ran, crashes>>

\* Both journals overwrite an existing record.
Register(c) ==
  /\ pc[c] \in {"register", "reclaimed"} /\ Turn(c)
  /\ journal' = [journal EXCEPT ![key[c]] = "pending"]
  /\ aged' = aged \ {key[c]}
  /\ Goto(c, "count")
  /\ UNCHANGED <<count, key, saw, ran, crashes>>

\* The count follows the registration, which may have suspended.
Count(c) ==
  /\ pc[c] = "count" /\ Turn(c)
  /\ count' = count + 1
  /\ Goto(c, "run")
  /\ UNCHANGED <<journal, aged, key, saw, ran, crashes>>

\* The tool takes effect, or raises with or without having taken effect.
RunTool(c) ==
  /\ pc[c] = "run" /\ Turn(c)
  /\ ran[key[c]] < MaxRuns
  /\ \/ Goto(c, "complete") /\ ran' = [ran EXCEPT ![key[c]] = @ + 1]
     \/ Goto(c, "failing") /\ ran' \in {ran, [ran EXCEPT ![key[c]] = @ + 1]}
  /\ UNCHANGED <<journal, aged, count, key, saw, crashes>>

Record(c, from, s) ==
  /\ pc[c] = from /\ Turn(c)
  /\ SetStatus(key[c], s)
  /\ Leave(c)
  /\ UNCHANGED <<aged, count, ran, crashes>>

\* Variants: the handler of a raised exception reports success, or a status
\* that is none of the journal's.
FailAsCompleted(c) == Record(c, "failing", "completed")
FailAsError(c)     == Record(c, "failing", "error")

Complete(c) == Record(c, "complete", "completed")
Fail(c)     == Record(c, "failing", "failed")

\* An exception that nothing records: cancellation (no Exception) where the
\* call may suspend, an error of the durable journal (the UNIQUE constraint
\* under two registrations), a result whose keys json.dumps cannot sort.
Cancel(c) ==
  /\ pc[c] = "complete" \/ pc[c] \notin Unbroken \cup {"idle"}
  /\ Turn(c)
  /\ Leave(c)
  /\ UNCHANGED <<journal, aged, count, ran, crashes>>

\* A record gets older than the timeout.  EffectPolicy asks for a timeout of
\* at least twice the longest execution, so without slow tools no call that
\* registered or read the key is still on its way.
Age(k) ==
  /\ journal[k] = "pending" /\ k \notin aged
  /\ \A c \in Caller : pc[c] \notin Unbroken
  /\ setup.slowTools \/ \A c \in Caller : pc[c] # "idle" => key[c] # k
  /\ aged' = aged \cup {k}
  /\ UNCHANGED <<journal, count, callVars, ran, crashes>>

\* The process dies and starts again.  The counts are lost, and so are the
\* records unless the journal is durable.
Crash ==
  /\ crashes < Crashes
  /\ crashes' = crashes + 1
  /\ pc' = [c \in Caller |-> "idle"]
  /\ key' = [c \in Caller |-> NoKey]
  /\ saw' = [c \in Caller |-> "none"]
  /\ count' = 0
  /\ IF setup.durable THEN UNCHANGED <<journal, aged>>
     ELSE journal' = [k \in Key |-> "none"] /\ aged' = {}
  /\ UNCHANGED ran

Step ==
  \/ \E c \in Caller :
        \/ \E k \in Key : Check(c, k)
        \/ Deny(c) \/ Get(c) \/ Dismiss(c) \/ Proceed(c) \/ Reclaim(c) \/ Register(c)
        \/ Count(c) \/ RunTool(c) \/ Complete(c) \/ Fail(c) \/ Cancel(c)
  \/ \E k \in Key : Age(k)
  \/ Crash

Next == Step /\ UNCHANGED setup

Spec == Init /\ [][Next]_vars

-----------------------------------------------------------------------------
\* The journal does not lie: a COMPLETED record is that of a tool that took
\* effect, through every race, crash and reclaim.
CompletedMeansRan == \A k \in Key : journal[k] = "completed" => ran[k] > 0

\* One execution at a time: two calls for the same key are never both past
\* their registration (a fresh PENDING record raises EffectDuplicateError).
OneAtATime ==
  \A c, d \in Caller : c # d /\ {pc[c], pc[d]} \subseteq Executing => key[c] # key[d]

\* Nothing suspends a call on its way to the tool, and no tool goes stale.
InMemory == ~setup.durable /\ ~setup.sinkSuspends /\ ~setup.slowTools

\* On an in-memory journal the check of the record and the registration are not
\* torn apart: no key is executed twice at a time.
NoTwins == InMemory => OneAtATime

\* A completed effect is not repeated: its record stays COMPLETED and the tool
\* does not take effect again (contract of EffectJournal.register, purpose of
\* the interceptor), unless a crash takes the in-memory journal away.
CompletedIsFinal ==
  [][InMemory /\ crashes' = crashes =>
       \A k \in Key : journal[k] = "completed" => journal'[k] = "completed" /\ ran'[k] = ran[k]]_vars

\* No more than max_effects_per_step effects are started in a step.
StepLimit == InMemory => count <= MaxEffects

\* What the interceptor promises of calls that run side by side in a process:
\* one execution of a key at a time, and the limit of the step kept.
\* (effect_interceptor.py:124-212)
EffectsSingle == NoTwins /\ StepLimit
=============================================================================
