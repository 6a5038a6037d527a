---------------------------- MODULE OutsideProofs ----------------------------
(***************************************************************************)
(* What a process promises to the world around it: the journal of its      *)
(* effects, the gateway's daemon, a person who answers, the clients that   *)
(* watch a run, the engines behind the agents, the runs it shows and the   *)
(* log a run is resumed from, for any number of calls, clients, engines,   *)
(* runs and steps and for any limits.                                      *)
(***************************************************************************)
EXTENDS EffectInterceptor, Daemon, HumanTalk, EventHub, Engines, ConsoleRuns,
        RunLog, FiniteSetTheorems, SequenceTheorems, WellFoundedInduction, TLAPS

(* Every step keeps the state well formed.                                  *)
LEMMA TypeStep == TypeOK /\ [Next]_vars => TypeOK'
<1> SUFFICES ASSUME TypeOK, [Next]_vars PROVE TypeOK'
  OBVIOUS
<1> setup' = setup
  BY DEF Next, vars
<1> USE KeyAssumption DEF TypeOK, Recorded, Executing, Goto
<1>1. ASSUME NEW c \in Caller, NEW k \in Key, Check(c, k) PROVE TypeOK'
  BY <1>1 DEF Check
<1>2. ASSUME NEW c \in Caller, Deny(c) PROVE TypeOK'
  BY <1>2 DEF Deny, callVars
<1>3. ASSUME NEW c \in Caller, Get(c) PROVE TypeOK'
  <2>1. key[c] \in Key
    BY <1>3 DEF Get
  <2> QED
    BY <1>3, <2>1 DEF Get
<1>4. ASSUME NEW c \in Caller, Dismiss(c) PROVE TypeOK'
  BY <1>4 DEF Dismiss, Leave
<1>5. ASSUME NEW c \in Caller, Proceed(c) PROVE TypeOK'
  BY <1>5 DEF Proceed
<1>6. ASSUME NEW c \in Caller, Reclaim(c) PROVE TypeOK'
  <2>1. key[c] \in Key
    BY <1>6 DEF Reclaim
  <2> QED
    BY <1>6, <2>1 DEF Reclaim, SetStatus
<1>7. ASSUME NEW c \in Caller, Register(c) PROVE TypeOK'
  <2>1. key[c] \in Key
    BY <1>7 DEF Register
  <2> QED
    BY <1>7, <2>1 DEF Register
<1>8. ASSUME NEW c \in Caller, Count(c) PROVE TypeOK'
  BY <1>8 DEF Count
<1>9. ASSUME NEW c \in Caller, RunTool(c) PROVE TypeOK'
  <2>1. key[c] \in Key
    BY <1>9 DEF RunTool
  <2> QED
    BY <1>9, <2>1 DEF RunTool
<1>10. ASSUME NEW c \in Caller, Complete(c) \/ Fail(c) PROVE TypeOK'
  <2>1. key[c] \in Key
    BY <1>10 DEF Complete, Fail, Record
  <2> QED
    BY <1>10, <2>1 DEF Complete, Fail, Record, SetStatus, Leave
<1>11. ASSUME NEW c \in Caller, Cancel(c) PROVE TypeOK'
  BY <1>11 DEF Cancel, Leave
<1>12. ASSUME NEW k \in Key, Age(k) PROVE TypeOK'
  BY <1>12 DEF Age, callVars
<1>13. CASE Crash
  BY <1>13 DEF Crash
<1>14. CASE UNCHANGED vars
  BY <1>14 DEF vars, callVars
<1> QED
  BY <1>1, <1>2, <1>3, <1>4, <1>5, <1>6, <1>7, <1>8, <1>9, <1>10, <1>11, <1>12, <1>13, <1>14
  DEF Next, Step

(* The state of the interceptor and its journal always has its type.        *)
THEOREM TypeCorrect == Spec => []TypeOK
<1>1. Init => TypeOK
  BY KeyAssumption DEF Init, TypeOK, Recorded
<1> QED
  BY <1>1, TypeStep, PTL DEF Spec

-----------------------------------------------------------------------------
(* The journal does not lie.  CompletedMeansRan holds through every race    *)
(* because a call reaches its completion record only after its own run of   *)
(* the tool, and nothing takes a run back.                                  *)

RanBefore == \A c \in Caller : pc[c] = "complete" => ran[key[c]] > 0

Truthful == CompletedMeansRan /\ RanBefore

LEMMA TruthfulStep == TypeOK /\ Truthful /\ [Next]_vars => Truthful'
<1> SUFFICES ASSUME TypeOK, Truthful, [Next]_vars PROVE Truthful'
  OBVIOUS
<1> USE KeyAssumption DEF TypeOK, Recorded, Executing, Goto, Truthful, CompletedMeansRan, RanBefore
<1>1. ASSUME NEW c \in Caller, NEW k \in Key, Check(c, k) PROVE Truthful'
  BY <1>1 DEF Check
<1>2. ASSUME NEW c \in Caller, Deny(c) PROVE Truthful'
  BY <1>2 DEF Deny, callVars
<1>3. ASSUME NEW c \in Caller, Get(c) PROVE Truthful'
  BY <1>3 DEF Get
<1>4. ASSUME NEW c \in Caller, Dismiss(c) PROVE Truthful'
  BY <1>4 DEF Dismiss, Leave
<1>5. ASSUME NEW c \in Caller, Proceed(c) PROVE Truthful'
  BY <1>5 DEF Proceed
<1>6. ASSUME NEW c \in Caller, Reclaim(c) PROVE Truthful'
  BY <1>6 DEF Reclaim, SetStatus
<1>7. ASSUME NEW c \in Caller, Register(c) PROVE Truthful'
  BY <1>7 DEF Register
<1>8. ASSUME NEW c \in Caller, Count(c) PROVE Truthful'
  BY <1>8 DEF Count
<1>9. ASSUME NEW c \in Caller, RunTool(c) PROVE Truthful'
  <2>1. key[c] \in Key
    BY <1>9 DEF RunTool
  <2>2. \A k \in Key : ran'[k] >= ran[k]
    BY <1>9, <2>1 DEF RunTool
  <2>3. pc'[c] = "complete" => ran'[key[c]] > 0
    BY <1>9, <2>1 DEF RunTool
  <2>4. journal' = journal /\ key' = key /\ \A d \in Caller \ {c} : pc'[d] = pc[d]
    BY <1>9 DEF RunTool
  <2>5. \A d \in Caller : pc'[d] = "complete" => key[d] \in Key
    BY <2>1, <2>4
  <2>6. \A k \in Key : ran[k] \in Nat /\ ran'[k] \in Nat
    BY <1>9, <2>1 DEF RunTool
  <2> QED
    BY <2>1, <2>2, <2>3, <2>4, <2>5, <2>6
<1>10. ASSUME NEW c \in Caller, Complete(c) \/ Fail(c) PROVE Truthful'
  <2>1. key[c] \in Key
    BY <1>10 DEF Complete, Fail, Record
  <2> QED
    BY <1>10, <2>1 DEF Complete, Fail, Record, SetStatus, Leave
<1>11. ASSUME NEW c \in Caller, Cancel(c) PROVE Truthful'
  BY <1>11 DEF Cancel, Leave
<1>12. ASSUME NEW k \in Key, Age(k) PROVE Truthful'
  BY <1>12 DEF Age, callVars
<1>13. CASE Crash
  BY <1>13 DEF Crash
<1>14. CASE UNCHANGED vars
  BY <1>14 DEF vars, callVars
<1> QED
  BY <1>1, <1>2, <1>3, <1>4, <1>5, <1>6, <1>7, <1>8, <1>9, <1>10, <1>11, <1>12, <1>13, <1>14
  DEF Next, Step

(* A COMPLETED record is that of a tool that took effect.                   *)
THEOREM JournalDoesNotLie == Spec => []CompletedMeansRan
<1>1. Init => TypeOK /\ Truthful
  BY KeyAssumption DEF Init, TypeOK, Recorded, Truthful, CompletedMeansRan, RanBefore
<1>2. Truthful => CompletedMeansRan
  BY DEF Truthful
<1> QED
  BY <1>1, <1>2, TypeStep, TruthfulStep, PTL DEF Spec

-----------------------------------------------------------------------------
(* One execution at a time.  On an in-memory journal with a sink that does  *)
(* not suspend and tools faster than the stale timeout, everything between  *)
(* the policy check and the registration is one uninterrupted stretch:      *)
(* Alone.  What the call read is then still true when it acts on it         *)
(* (SawIsCurrent), and a registered key keeps a fresh PENDING record until  *)
(* its own call reports (Registered), so a second call is turned away.      *)

Bound == {"reclaim", "reclaimed", "register"}   \* about to register

Alone == \A c, d \in Caller : c # d => pc[c] \notin Unbroken \/ pc[d] \notin Unbroken
Registered == \A c \in Caller : pc[c] \in Executing =>
                 journal[key[c]] = "pending" /\ key[c] \notin aged
SawIsCurrent == \A c \in Caller : pc[c] = "decide" => saw[c] = journal[key[c]]
BoundAlone == \A c, d \in Caller : c # d /\ pc[c] \in Bound /\ pc[d] \in Executing =>
                 key[c] # key[d]

Exclusive == Alone /\ Registered /\ SawIsCurrent /\ BoundAlone /\ OneAtATime

LEMMA ExclusiveStep ==
  ASSUME InMemory, TypeOK, Exclusive, [Next]_vars
  PROVE  Exclusive'
<1> setup' = setup
  BY DEF Next, vars
<1> USE KeyAssumption DEF InMemory, Exclusive, Alone, Registered, SawIsCurrent, BoundAlone,
       OneAtATime, TypeOK, Recorded, Executing, Bound, Unbroken, Goto, Turn
<1>1. ASSUME NEW c \in Caller, NEW k \in Key, Check(c, k) PROVE Exclusive'
  BY <1>1 DEF Check
<1>2. ASSUME NEW c \in Caller, Deny(c) PROVE Exclusive'
  BY <1>2 DEF Deny, callVars
<1>3. ASSUME NEW c \in Caller, Get(c) PROVE Exclusive'
  BY <1>3 DEF Get
<1>4. ASSUME NEW c \in Caller, Dismiss(c) PROVE Exclusive'
  BY <1>4 DEF Dismiss, Leave
<1>5. ASSUME NEW c \in Caller, Proceed(c) PROVE Exclusive'
  BY <1>5 DEF Proceed
<1>6. ASSUME NEW c \in Caller, Reclaim(c) PROVE Exclusive'
  BY <1>6 DEF Reclaim, SetStatus
<1>7. ASSUME NEW c \in Caller, Register(c) PROVE Exclusive'
  BY <1>7 DEF Register
<1>8. ASSUME NEW c \in Caller, Count(c) PROVE Exclusive'
  BY <1>8 DEF Count
<1>9. ASSUME NEW c \in Caller, RunTool(c) PROVE Exclusive'
  BY <1>9 DEF RunTool
<1>10. ASSUME NEW c \in Caller, Complete(c) \/ Fail(c) PROVE Exclusive'
  BY <1>10 DEF Complete, Fail, Record, SetStatus, Leave
<1>11. ASSUME NEW c \in Caller, Cancel(c) PROVE Exclusive'
  BY <1>11 DEF Cancel, Leave
<1>12. ASSUME NEW k \in Key, Age(k) PROVE Exclusive'
  BY <1>12 DEF Age, callVars
<1>13. CASE Crash
  BY <1>13 DEF Crash
<1>14. CASE UNCHANGED vars
  BY <1>14 DEF vars, callVars
<1> QED
  BY <1>1, <1>2, <1>3, <1>4, <1>5, <1>6, <1>7, <1>8, <1>9, <1>10, <1>11, <1>12, <1>13, <1>14
  DEF Next, Step

(* In memory, two calls for one key never execute at the same time.         *)
THEOREM NoTwinInMemory == Spec => []NoTwins
<1>1. Init => (InMemory => Exclusive)
  BY KeyAssumption DEF Init, TypeOK, Recorded, Executing, Exclusive, Alone, Registered,
     SawIsCurrent, BoundAlone, OneAtATime, Bound, Unbroken
<1>2. TypeOK /\ (InMemory => Exclusive) /\ [Next]_vars => (InMemory => Exclusive)'
  <2>1. [Next]_vars => setup' = setup
    BY DEF Next, vars
  <2>2. [Next]_vars => (InMemory' <=> InMemory)
    BY <2>1 DEF InMemory
  <2> QED
    BY <2>2, ExclusiveStep
<1>3. (InMemory => Exclusive) => NoTwins
  BY DEF Exclusive, NoTwins
<1>4. Init => TypeOK
  BY KeyAssumption DEF Init, TypeOK, Recorded
<1> QED
  BY <1>1, <1>2, <1>3, <1>4, TypeStep, PTL DEF Spec

-----------------------------------------------------------------------------
(* The limit of the step, and the finality of a completed record, rest on   *)
(* the same stretch: nobody else counts between the check of the limit and  *)
(* the call's own count (Room), and the record a call is about to replace   *)
(* is still the unfinished one it has read (Replaceable).                   *)

Room == \A c \in Caller : pc[c] \in Bound \cup {"get", "decide", "count"} => count < MaxEffects

Replaceable == \A c \in Caller : pc[c] \in Bound => journal[key[c]] # "completed"

Settled == Exclusive /\ Room /\ Replaceable /\ count <= MaxEffects

(* A step in memory keeps the limit and the finality.                       *)
LEMMA SettledStep ==
  ASSUME InMemory, TypeOK, Settled, [Next]_vars
  PROVE  Settled'
<1> setup' = setup
  BY DEF Next, vars
<1>0. Exclusive'
  BY ExclusiveStep DEF Settled
<1> SUFFICES Room' /\ Replaceable' /\ (count <= MaxEffects)'
  BY <1>0 DEF Settled
<1> USE KeyAssumption, BoundAssumption DEF InMemory, Settled, Exclusive, Alone, Registered,
       SawIsCurrent, BoundAlone, Room, Replaceable, TypeOK, Recorded, Executing, Bound,
       Unbroken, Goto, Turn
<1>1. ASSUME NEW c \in Caller, NEW k \in Key, Check(c, k)
      PROVE  Room' /\ Replaceable' /\ (count <= MaxEffects)'
  BY <1>1 DEF Check
<1>2. ASSUME NEW c \in Caller, Deny(c) PROVE Room' /\ Replaceable' /\ (count <= MaxEffects)'
  BY <1>2 DEF Deny, callVars
<1>3. ASSUME NEW c \in Caller, Get(c) PROVE Room' /\ Replaceable' /\ (count <= MaxEffects)'
  BY <1>3 DEF Get
<1>4. ASSUME NEW c \in Caller, Dismiss(c) PROVE Room' /\ Replaceable' /\ (count <= MaxEffects)'
  BY <1>4 DEF Dismiss, Leave
<1>5. ASSUME NEW c \in Caller, Proceed(c) PROVE Room' /\ Replaceable' /\ (count <= MaxEffects)'
  BY <1>5 DEF Proceed
<1>6. ASSUME NEW c \in Caller, Reclaim(c) PROVE Room' /\ Replaceable' /\ (count <= MaxEffects)'
  BY <1>6 DEF Reclaim, SetStatus
<1>7. ASSUME NEW c \in Caller, Register(c) PROVE Room' /\ Replaceable' /\ (count <= MaxEffects)'
  BY <1>7 DEF Register
<1>8. ASSUME NEW c \in Caller, Count(c) PROVE Room' /\ Replaceable' /\ (count <= MaxEffects)'
  BY <1>8 DEF Count
<1>9. ASSUME NEW c \in Caller, RunTool(c) PROVE Room' /\ Replaceable' /\ (count <= MaxEffects)'
  BY <1>9 DEF RunTool
<1>10. ASSUME NEW c \in Caller, Complete(c) \/ Fail(c)
       PROVE  Room' /\ Replaceable' /\ (count <= MaxEffects)'
  BY <1>10 DEF Complete, Fail, Record, SetStatus, Leave
<1>11. ASSUME NEW c \in Caller, Cancel(c) PROVE Room' /\ Replaceable' /\ (count <= MaxEffects)'
  BY <1>11 DEF Cancel, Leave
<1>12. ASSUME NEW k \in Key, Age(k) PROVE Room' /\ Replaceable' /\ (count <= MaxEffects)'
  BY <1>12 DEF Age, callVars
<1>13. CASE Crash
  BY <1>13 DEF Crash
<1>14. CASE UNCHANGED vars
  BY <1>14 DEF vars, callVars
<1> QED
  BY <1>1, <1>2, <1>3, <1>4, <1>5, <1>6, <1>7, <1>8, <1>9, <1>10, <1>11, <1>12, <1>13, <1>14
  DEF Next, Step

(* What holds in memory from the start on.                                  *)
LEMMA InMemorySettled == Spec => [](TypeOK /\ (InMemory => Settled))
<1>1. Init => TypeOK
  BY KeyAssumption DEF Init, TypeOK, Recorded
<1>2. Init => (InMemory => Settled)
  BY KeyAssumption, BoundAssumption DEF Init, Recorded, Executing, Settled, Exclusive, Alone,
     Registered, SawIsCurrent, BoundAlone, OneAtATime, Bound, Unbroken, Room, Replaceable
<1>3. TypeOK /\ (InMemory => Settled) /\ [Next]_vars => (InMemory => Settled)'
  <2>1. [Next]_vars => (InMemory' <=> InMemory)
    BY DEF Next, vars, InMemory
  <2> QED
    BY <2>1, SettledStep
<1> QED
  BY <1>1, <1>2, <1>3, TypeStep, PTL DEF Spec

(* In memory a step starts no more effects than its policy allows.          *)
THEOREM LimitHolds == Spec => []StepLimit
<1>1. (InMemory => Settled) => StepLimit
  BY DEF Settled, StepLimit
<1> QED
  BY <1>1, InMemorySettled, PTL

(* In memory a completed effect keeps its record and is not run again.      *)
THEOREM CompletedStaysSo == Spec => CompletedIsFinal
<1>1. ASSUME TypeOK, InMemory => Settled, [Next]_vars, InMemory, crashes' = crashes,
             NEW k \in Key, journal[k] = "completed"
      PROVE  journal'[k] = "completed" /\ ran'[k] = ran[k]
  <2> USE <1>1, KeyAssumption DEF Settled, Exclusive, Registered, Replaceable, SawIsCurrent,
        TypeOK, Recorded, Executing, Bound, Goto
  <2>1. ASSUME NEW c \in Caller, NEW j \in Key, Check(c, j)
        PROVE  journal'[k] = "completed" /\ ran'[k] = ran[k]
    BY <2>1 DEF Check
  <2>2. ASSUME NEW c \in Caller, Deny(c) \/ Get(c) \/ Dismiss(c) \/ Proceed(c) \/ Count(c) \/ Cancel(c)
        PROVE  journal'[k] = "completed" /\ ran'[k] = ran[k]
    BY <2>2 DEF Deny, Get, Dismiss, Proceed, Count, Cancel
  <2>3. ASSUME NEW c \in Caller, Reclaim(c) \/ Register(c)
        PROVE  journal'[k] = "completed" /\ ran'[k] = ran[k]
    BY <2>3 DEF Reclaim, Register, SetStatus
  <2>4. ASSUME NEW c \in Caller, RunTool(c)
        PROVE  journal'[k] = "completed" /\ ran'[k] = ran[k]
    <3>1. key[c] # k /\ key[c] \in Key
      BY <2>4 DEF RunTool
    <3> QED
      BY <2>4, <3>1 DEF RunTool
  <2>5. ASSUME NEW c \in Caller, Complete(c) \/ Fail(c)
        PROVE  journal'[k] = "completed" /\ ran'[k] = ran[k]
    BY <2>5 DEF Complete, Fail, Record, SetStatus
  <2>6. ASSUME NEW j \in Key, Age(j) PROVE journal'[k] = "completed" /\ ran'[k] = ran[k]
    BY <2>6 DEF Age
  <2>7. ~Crash
    BY DEF Crash
  <2>8. CASE UNCHANGED vars
    BY <2>8 DEF vars
  <2> QED
    BY <2>1, <2>2, <2>3, <2>4, <2>5, <2>6, <2>7, <2>8 DEF Next, Step
<1>2. TypeOK /\ (InMemory => Settled) /\ [Next]_vars =>
        [InMemory /\ crashes' = crashes =>
           \A k \in Key : journal[k] = "completed" =>
              journal'[k] = "completed" /\ ran'[k] = ran[k]]_vars
  BY <1>1
<1> QED
  BY <1>2, InMemorySettled, PTL DEF Spec, CompletedIsFinal

(* In memory no key is executed twice at a time and the limit of the step   *)
(* is kept.                                                                 *)
THEOREM EffectsAreSingle == Spec => []EffectsSingle
  BY NoTwinInMemory, LimitHolds, PTL DEF EffectsSingle

-----------------------------------------------------------------------------
(* The gateway daemon.  DaemonKnown is not inductive: what a command has    *)
(* read of the pid file and what it found stays true until it acts, for no  *)
(* other command is under way.                                              *)

Live(p) == proc[p] \in {"boots", "serves"}

Starting(a) == On(a, "spawned") \/ On(a, "write")

JobFits(a) ==
  /\ On(a, "probe") \/ On(a, "clean") \/ On(a, "present") => pidfile = job[a].pid
  /\ On(a, "clean") \/ On(a, "absent") \/ On(a, "signalled") => \A p \in Pid : ~Live(p)
  /\ Starting(a) => \A p \in Pid : Live(p) => p = job[a].pid
  /\ ~Starting(a) => \A p \in Pid : Live(p) => p = pidfile

DaemonInv ==
  /\ DOMAIN proc = Pid /\ job \in [Actor -> Job]
  /\ ~unruly => /\ \A a, b \in Actor : ~On(a, "idle") /\ ~On(b, "idle") => a = b
                /\ \A p \in Pid : Live(p) => \/ p = pidfile
                                             \/ \E a \in Actor : Starting(a)
                /\ \A a \in Actor : ~On(a, "idle") => JobFits(a)

\* What a command may note down about itself.
LEMMA Noted ==
  ASSUME job \in [Actor -> Job], NEW a \in Actor,
         NEW j \in Job, job' = [job EXCEPT ![a] = j]
  PROVE  job' \in [Actor -> Job] /\ job'[a] = j /\ \A b \in Actor : b # a => job'[b] = job[b]
OBVIOUS

LEMMA Moved ==
  ASSUME job \in [Actor -> Job], NEW a \in Actor, NEW n \in Pid \cup {NoPid},
         NEW l \in {"idle", "look", "probe", "clean", "health", "absent", "present", "spawned",
                    "write", "signalled"},
         job' = [job EXCEPT ![a].at = l, ![a].pid = n] \/ (To(a, l) /\ n = job[a].pid)
  PROVE  /\ job' \in [Actor -> Job] /\ job'[a].at = l /\ job'[a].pid = n
         /\ \A b \in Actor : b # a => job'[b] = job[b]
<1>1. job[a] \in Job
  OBVIOUS
<1>2. PICK j : j = [job[a] EXCEPT !.at = l, !.pid = n]
  OBVIOUS
<1>3. j \in Job /\ j.at = l /\ j.pid = n
  BY <1>1, <1>2 DEF Job
<1>4. job' = [job EXCEPT ![a] = j]
  <2>1. CASE job' = [job EXCEPT ![a].at = l, ![a].pid = n]
    BY <1>1, <1>2, <2>1 DEF Job
  <2>2. CASE To(a, l) /\ n = job[a].pid
    <3>1. j = [job[a] EXCEPT !.at = l]
      BY <1>1, <1>2, <2>2 DEF Job
    <3> QED
      BY <2>2, <3>1 DEF To
  <2> QED
    BY <2>1, <2>2
<1> QED
  BY <1>3, <1>4, Noted

LEMMA Begun ==
  ASSUME job \in [Actor -> Job], NEW a \in Actor, NEW c \in Command, Begins(a, c) \/ Done(a)
  PROVE  /\ job' \in [Actor -> Job] /\ job'[a].at \in {"look", "idle"}
         /\ \A b \in Actor : b # a => job'[b] = job[b]
<1>1. [at |-> "look", of |-> c, pid |-> NoPid] \in Job /\ Idle \in Job
  BY DEF Job, Idle, Command
<1> QED
  BY <1>1, Noted DEF Begins, Done, Idle

\* The command of one actor does one step while all others are idle.
LEMMA CommandKeeps ==
  ASSUME DaemonInv, NEW a \in Actor, CommandStep(a)
  PROVE  DaemonInv'
<1>0. DOMAIN proc = Pid /\ job \in [Actor -> Job] /\ job[a] \in Job /\ job[a].pid \in Pid \cup {NoPid}
  BY DEF DaemonInv, Job
<1>1. /\ DOMAIN proc' = Pid /\ (unruly => unruly')
      /\ \/ unruly' = unruly /\ ~On(a, "idle")
         \/ \E c \in Command : Enter(a, c)
         \/ Killed(a)
  <2>1. CASE Spawn(a) \/ RunForeground(a) \/ Terminate(a)
    <3>1. DOMAIN proc' = Pid
      BY <1>0, <2>1 DEF Spawn, RunForeground, Terminate
    <3> QED
      BY <2>1, <3>1 DEF Spawn, RunForeground, Terminate, On
  <2>2. CASE ~(Spawn(a) \/ RunForeground(a) \/ Terminate(a))
    <3>1. proc' = proc
      BY <2>2 DEF CommandStep, ReadPid, Probe, CleanStale, Health, Absent, WritePid,
         AlreadyRunning, Forget, Killed, Enter
    <3>2. CASE (\E c \in Command : Enter(a, c)) \/ Killed(a)
      BY <1>0, <3>1, <3>2 DEF Enter, Killed
    <3>3. CASE ~((\E c \in Command : Enter(a, c)) \/ Killed(a))
      BY <1>0, <2>2, <3>1, <3>3 DEF CommandStep, ReadPid, Probe, CleanStale, Health, Absent, WritePid,
         AlreadyRunning, Forget, On
    <3> QED
      BY <3>2, <3>3
  <2> QED
    BY <2>1, <2>2
<1>2. \/ \E c \in Command : Enter(a, c)
      \/ ReadPid(a) \/ Probe(a) \/ CleanStale(a) \/ Health(a) \/ Absent(a) \/ Spawn(a)
      \/ RunForeground(a) \/ WritePid(a) \/ AlreadyRunning(a) \/ Terminate(a) \/ Forget(a) \/ Killed(a)
  BY DEF CommandStep
\* What is noted down, and what it takes for the invariant.
<1> DEFINE Noting == job' \in [Actor -> Job] /\ \A b \in Actor : b # a => job'[b] = job[b]
           Rule   == ~unruly /\ (On(a, "idle") => \A p \in Pid : Live(p) => p = pidfile)
                             /\ (~On(a, "idle") => JobFits(a))
<1>3. SUFFICES Noting /\ (~unruly' /\ Rule => JobFits(a)')
  <2>1. CASE unruly'
    BY <1>1, <2>1 DEF DaemonInv
  <2>2. CASE ~unruly'
    <3>1. ~unruly /\ \A b \in Actor : b # a => On(b, "idle")
      <4>1. CASE \E c \in Command : Enter(a, c)
        BY <2>2, <4>1 DEF Enter
      <4>2. CASE ~On(a, "idle")
        BY <1>1, <2>2, <4>2 DEF DaemonInv
      <4> QED
        BY <1>1, <4>1, <4>2 DEF Killed
    <3>2. \A b \in Actor : b # a => On(b, "idle")'
      BY <1>3, <3>1 DEF On
    <3>3. Rule
      BY <3>1 DEF DaemonInv, Starting, On
    <3>4. JobFits(a)'
      BY <1>3, <2>2, <3>3
    <3>5. \A p \in Pid : Live(p)' => p = pidfile' \/ \E b \in Actor : Starting(b)'
      BY <3>4 DEF JobFits
    <3> QED
      BY <1>1, <1>3, <3>2, <3>4, <3>5 DEF DaemonInv
  <2> QED
    BY <2>1, <2>2
<1> USE DEF Live, Starting, On, JobFits
<1>7. ASSUME NEW c \in Command, Enter(a, c) PROVE Noting /\ (~unruly' /\ Rule => JobFits(a)')
  BY <1>0, <1>7, Begun DEF Enter
<1>8. CASE ReadPid(a)
  <2>1. CASE pidfile \in Pid
    <3>1. Noting /\ job'[a].at = "probe" /\ job'[a].pid = pidfile
      BY <1>0, <1>8, <2>1, Moved DEF ReadPid
    <3> QED
      BY <1>8, <3>1 DEF ReadPid
  <2>2. CASE pidfile \notin Pid
    <3>1. Noting /\ job'[a].at = "absent"
      BY <1>0, <1>8, <2>2, Moved DEF ReadPid
    <3> QED
      BY <1>8, <2>2, <3>1 DEF ReadPid
  <2> QED
    BY <2>1, <2>2
<1>9. CASE Probe(a)
  <2>1. PICK l \in {"clean", "health", "present"} :
          To(a, l) /\ (l = "clean" => proc[job[a].pid] \notin Alive)
    <3>1. CASE proc[job[a].pid] \notin Alive
      BY <1>9, <3>1 DEF Probe
    <3>2. CASE proc[job[a].pid] \in Alive /\ job[a].of \in {"status", "mount", "unmount"}
      BY <1>9, <3>2 DEF Probe
    <3>3. CASE proc[job[a].pid] \in Alive /\ job[a].of \notin {"status", "mount", "unmount"}
      BY <1>9, <3>3 DEF Probe
    <3> QED
      BY <3>1, <3>2, <3>3
  <2>2. Noting /\ job'[a].at = l /\ job'[a].pid = job[a].pid
    <3>1. CASE l = "clean"
      BY <1>0, <2>1, <3>1, Moved
    <3>2. CASE l = "health"
      BY <1>0, <2>1, <3>2, Moved
    <3>3. CASE l = "present"
      BY <1>0, <2>1, <3>3, Moved
    <3> QED
      BY <3>1, <3>2, <3>3
  <2>3. Rule => \A p \in Pid : Live(p) => p = job[a].pid
    BY <1>9 DEF Probe
  <2>4. Rule /\ l = "clean" => \A p \in Pid : ~Live(p)
    BY <2>1, <2>3 DEF Alive
  <2> QED
    BY <1>9, <2>2, <2>4 DEF Probe
<1>10. CASE CleanStale(a)
  <2>1. Noting /\ job'[a].at = "absent"
    BY <1>0, <1>10, Moved DEF CleanStale
  <2> QED
    BY <1>10, <2>1 DEF CleanStale
<1>11. CASE Health(a)
  <2>1. Noting /\ job'[a].at \in {"look", "idle"}
    BY <1>0, <1>11, Begun DEF Health, Command
  <2> QED
    BY <1>11, <2>1 DEF Health
<1>12. CASE Absent(a)
  <2>1. Noting /\ job'[a].at \in {"look", "idle"}
    BY <1>0, <1>12, Begun DEF Absent, Command
  <2> QED
    BY <1>12, <2>1 DEF Absent
<1>13. CASE Spawn(a)
  <2>1. PICK p \in Pid : /\ proc' = [proc EXCEPT ![p] = "boots"]
                         /\ job' = [job EXCEPT ![a].at = "spawned", ![a].pid = p]
    BY <1>13 DEF Spawn
  <2>2. Noting /\ job'[a].at = "spawned" /\ job'[a].pid = p
    BY <1>0, <2>1, Moved
  <2> QED
    BY <1>0, <1>13, <2>1, <2>2 DEF Spawn
<1>14. CASE RunForeground(a)
  <2>1. Noting /\ job'[a].at \in {"look", "idle"}
    BY <1>0, <1>14, Begun DEF RunForeground, Command
  <2> QED
    BY <1>0, <1>14, <2>1 DEF RunForeground
<1>15. CASE WritePid(a)
  <2>1. CASE On(a, "spawned")
    <3>1. Noting /\ job'[a].at = "write" /\ job'[a].pid = job[a].pid
      BY <1>0, <1>15, <2>1, Moved DEF WritePid
    <3> QED
      BY <1>15, <2>1, <3>1 DEF WritePid
  <2>2. CASE On(a, "write")
    <3>1. Noting /\ job'[a].at \in {"look", "idle"} /\ pidfile' = job[a].pid
      BY <1>0, <1>15, <2>2, Begun DEF WritePid, Command
    <3> QED
      BY <1>15, <2>2, <3>1 DEF WritePid
  <2> QED
    BY <1>15, <2>1, <2>2 DEF WritePid
<1>16. CASE AlreadyRunning(a)
  <2>1. Noting /\ job'[a].at \in {"look", "idle"}
    BY <1>0, <1>16, Begun DEF AlreadyRunning, Command
  <2> QED
    BY <1>16, <2>1 DEF AlreadyRunning
<1>17. CASE Terminate(a)
  <2>1. CASE proc[job[a].pid] \in Alive
    <3>1. Noting /\ job'[a].at = "signalled"
      BY <1>0, <1>17, <2>1, Moved DEF Terminate
    <3>2. \A p \in Pid : Live(p)' => Live(p) /\ p # job[a].pid
      BY <1>0, <1>17, <2>1 DEF Terminate, Alive
    <3> QED
      BY <1>17, <3>1, <3>2 DEF Terminate
  <2>2. CASE proc[job[a].pid] \notin Alive
    <3>1. Noting /\ job'[a].at \in {"look", "idle"}
      BY <1>0, <1>17, <2>2, Begun DEF Terminate, Stopped, Command
    <3> QED
      BY <1>17, <2>2, <3>1 DEF Terminate
  <2> QED
    BY <2>1, <2>2
<1>18. CASE Forget(a)
  <2>1. Noting /\ job'[a].at \in {"look", "idle"}
    BY <1>0, <1>18, Begun DEF Forget, Stopped, Command
  <2> QED
    BY <1>18, <2>1 DEF Forget
<1>19. CASE Killed(a)
  <2>1. Noting /\ job'[a].at \in {"look", "idle"}
    BY <1>0, <1>19, Begun DEF Killed, Command
  <2> QED
    BY <1>19, <2>1 DEF Killed
<1> QED
  BY <1>2, <1>7, <1>8, <1>9, <1>10, <1>11, <1>12, <1>13, <1>14, <1>15, <1>16, <1>17, <1>18, <1>19

\* As long as commands come one after the other, no starter dies before it has
\* written the pid file and no pid is used again, every gateway that boots or
\* serves can be found by the pid file or is about to be, for any number of
\* shells, dashboards and processes (server_ops.py).
THEOREM DaemonAlwaysKnown == DaemonSpec => []DaemonKnown
<1>1. DaemonInit => DaemonInv
  BY DEF DaemonInit, DaemonInv, Live, On, Idle, Job, Command
<1>2. DaemonInv /\ [DaemonNext]_daemonVars => DaemonInv'
  <2> SUFFICES ASSUME DaemonInv, [DaemonNext]_daemonVars PROVE DaemonInv'
    OBVIOUS
  <2>1. ASSUME NEW p \in Pid, Bind(p) \/ Quit(p) PROVE DaemonInv'
    <3>1. /\ DOMAIN proc' = Pid /\ \A r \in Pid : Live(r)' => Live(r)
          /\ job' = job /\ pidfile' = pidfile /\ unruly' = unruly
      BY <2>1 DEF DaemonInv, Bind, Quit, Live
    <3> QED
      BY <3>1 DEF DaemonInv, JobFits, Starting, On
  <2>2. ASSUME NEW p \in Pid, Reuse(p) PROVE DaemonInv'
    BY <2>2 DEF DaemonInv, Reuse
  <2>3. CASE UNCHANGED daemonVars
    BY <2>3 DEF DaemonInv, daemonVars, JobFits, Starting, On, Live
  <2> QED
    BY <2>1, <2>2, <2>3, CommandKeeps DEF DaemonNext
<1>3. DaemonInv => DaemonKnown
  BY DEF DaemonInv, DaemonKnown, JobFits, Starting, Live, On
<1> QED
  BY <1>1, <1>2, <1>3, PTL DEF DaemonSpec

-----------------------------------------------------------------------------
(* A person's answers.  While nothing strays there is at most one call that *)
(* waits and at most one answer, which was written for it.                  *)

\* One call waits, or none; an answer may be there for it.
OneTalk ==
  \/ /\ waiting = <<>> /\ given = <<>>
     /\ \A c \in Question : question[c] # "open"
  \/ \E c \in Question : /\ waiting = <<c>> /\ given \in {<<>>, <<c>>}
                         /\ given = <<c>> => c \in answered
                         /\ \A d \in Question : question[d] = "open" <=> d = c

HumanInv ==
  /\ DOMAIN question = Question /\ DOMAIN reply = Question
  /\ shown \in Question \cup {NoQuestion}
  /\ shown # NoQuestion => question[shown] \in {"open", "answered", "lost"}
  /\ strays = {} => /\ OneTalk
                    /\ \A c \in Question :
                          question[c] = "answered" => reply[c] = c /\ c \in answered

\* Who waits alone leaves nobody waiting.
LEMMA LastLeaves ==
  ASSUME NEW c, NEW d, waiting = <<d>>, StopWaiting(c)
  PROVE  waiting' = <<>> /\ c = d
<1>1. DOMAIN <<d>> = {1} /\ <<d>>[1] = d
  OBVIOUS
<1>2. c = d /\ waiting' = RemoveAt(<<d>>, 1)
  BY <1>1 DEF StopWaiting
<1>3. SubSeq(<<d>>, 1, 0) = <<>> /\ SubSeq(<<d>>, 2, 1) = <<>> /\ Len(<<d>>) = 1
  OBVIOUS
<1>4. RemoveAt(<<d>>, 1) = <<>>
  BY <1>3 DEF RemoveAt
<1> QED
  BY <1>2, <1>4

\* Answers that were not given twice: each is there once, or was taken once.
Once ==
  /\ \A i \in DOMAIN given : given[i] \in answered
  /\ \A i, j \in DOMAIN given : given[i] = given[j] => i = j
  /\ \A c \in Question : question[c] = "answered" =>
        /\ reply[c] \in answered
        /\ \A i \in DOMAIN given : given[i] # reply[c]
        /\ \A d \in Question : question[d] = "answered" /\ reply[d] = reply[c] => d = c

OnceInv ==
  /\ DOMAIN question = Question /\ DOMAIN reply = Question
  /\ shown \in Question \cup {NoQuestion}
  /\ given \in Seq(Question)
  /\ "double" \notin strays => Once

LEMMA FirstGone ==
  ASSUME NEW S, NEW s \in Seq(S), s # <<>>
  PROVE  /\ Tail(s) \in Seq(S) /\ 1 \in DOMAIN s /\ Head(s) = s[1] /\ Head(s) \in S
         /\ \A i \in DOMAIN Tail(s) : i + 1 \in DOMAIN s /\ i + 1 # 1 /\ Tail(s)[i] = s[i + 1]
OBVIOUS

LEMMA OnceKept == OnceInv /\ [HumanNext]_humanVars => OnceInv'
<1> SUFFICES ASSUME OnceInv, [HumanNext]_humanVars PROVE OnceInv'
  OBVIOUS
<1>0. /\ DOMAIN question = Question /\ DOMAIN reply = Question /\ NoQuestion \notin Question
      /\ shown \in Question \cup {NoQuestion} /\ given \in Seq(Question)
  BY HumanAssumption DEF OnceInv
<1>1. ASSUME NEW c \in Question, Ask(c) PROVE OnceInv'
  <2>1. /\ question' = [question EXCEPT ![c] = "open"] /\ shown' = c
        /\ "double" \notin strays' => "double" \notin strays
        /\ UNCHANGED <<reply, given, answered>>
    BY <1>1 DEF Ask
  <2>2. Once => Once'
    BY <1>0, <2>1 DEF Once
  <2> QED
    BY <1>0, <2>1, <2>2 DEF OnceInv
<1>2. CASE PushResponse
  <2>1. /\ shown \in Question /\ given' = Append(given, shown)
        /\ answered' = answered \cup {shown}
        /\ "double" \notin strays' => "double" \notin strays /\ shown \notin answered
        /\ UNCHANGED <<question, reply, shown>>
    BY <1>0, <1>2 DEF PushResponse
  <2>2. /\ given' \in Seq(Question)
        /\ \A i \in DOMAIN given' : (i \in DOMAIN given /\ given'[i] = given[i])
                                     \/ (i = Len(given) + 1 /\ given'[i] = shown)
    BY <1>0, <2>1
  <2>3. ASSUME Once, shown \notin answered PROVE Once'
    BY <2>1, <2>2, <2>3 DEF Once
  <2> QED
    BY <1>0, <2>1, <2>2, <2>3 DEF OnceInv
<1>3. ASSUME NEW c \in Question, Receive(c) PROVE OnceInv'
  <2>1. /\ reply' = [reply EXCEPT ![c] = Head(given)] /\ given' = Tail(given)
        /\ question' = [question EXCEPT ![c] = "answered"]
        /\ given # <<>> /\ UNCHANGED <<shown, answered, strays>>
    BY <1>3 DEF Receive, MayTake
  <2>2. /\ given' \in Seq(Question) /\ 1 \in DOMAIN given /\ Head(given) = given[1]
        /\ \A i \in DOMAIN given' :
              i + 1 \in DOMAIN given /\ i + 1 # 1 /\ given'[i] = given[i + 1]
    BY <1>0, <2>1, FirstGone
  <2>3. ASSUME Once PROVE Once'
    <3>1. /\ \A i \in DOMAIN given' : given'[i] \in answered' /\ given'[i] # given[1]
          /\ \A i, j \in DOMAIN given' : given'[i] = given'[j] => i + 1 = j + 1
      BY <2>1, <2>2, <2>3 DEF Once
    <3>2. \A i, j \in DOMAIN given' : i + 1 = j + 1 => i = j
      BY <2>2
    <3>3. reply'[c] = given[1] /\ given[1] \in answered
      BY <1>0, <2>1, <2>2, <2>3 DEF Once
    <3>4. ASSUME NEW d \in Question, d # c, question'[d] = "answered"
          PROVE  /\ reply'[d] = reply[d] /\ question[d] = "answered" /\ reply[d] # given[1]
                 /\ reply[d] \in answered /\ \A i \in DOMAIN given' : given'[i] # reply[d]
      BY <1>0, <2>1, <2>2, <2>3, <3>4 DEF Once
    <3> QED
      BY <1>0, <2>1, <2>3, <3>1, <3>2, <3>3, <3>4 DEF Once
  <2> QED
    BY <1>0, <2>1, <2>2, <2>3 DEF OnceInv
<1>4. ASSUME NEW c \in Question, GiveUpWaiting(c) PROVE OnceInv'
  <2>1. /\ question' = [question EXCEPT ![c] = "lost"]
        /\ given' = given \/ (given' = Tail(given) /\ given # <<>>)
        /\ "double" \notin strays' => "double" \notin strays
        /\ UNCHANGED <<reply, shown, answered>>
    BY <1>4 DEF GiveUpWaiting, MayTake
  <2>2. /\ given' \in Seq(Question)
        /\ \/ given' = given
           \/ \A i \in DOMAIN given' : i + 1 \in DOMAIN given /\ given'[i] = given[i + 1]
    BY <1>0, <2>1, FirstGone
  <2>3. ASSUME Once PROVE Once'
    <3>1. /\ \A i \in DOMAIN given' : \E k \in DOMAIN given : given'[i] = given[k]
          /\ \A i, j \in DOMAIN given' : given'[i] = given'[j] => i = j \/ i + 1 = j + 1
      BY <2>2, <2>3 DEF Once
    <3>2. \A i, j \in DOMAIN given' : i + 1 = j + 1 => i = j
      BY <2>2
    <3>3. \A d \in Question : question'[d] = "answered" => question[d] = "answered"
      BY <1>0, <2>1
    <3> QED
      BY <2>1, <2>3, <3>1, <3>2, <3>3 DEF Once
  <2> QED
    BY <1>0, <2>1, <2>2, <2>3 DEF OnceInv
<1>5. CASE UNCHANGED humanVars
  BY <1>5 DEF humanVars, OnceInv, Once
<1> QED
  BY <1>1, <1>2, <1>3, <1>4, <1>5 DEF HumanNext

LEMMA OnceHeld == HumanSpec => []OnceInv
<1>1. HumanInit => OnceInv
  BY DEF HumanInit, OnceInv, Once
<1> QED
  BY <1>1, OnceKept, PTL DEF HumanSpec

\* A call takes the answer to its own question as long as no answer was given
\* late, none twice and none with two questions open at once; and as long as
\* none was given twice, no answer serves two calls.  For any number of calls
\* and any size of the queue (human_agent.py).
THEOREM AnswersAlwaysFit == HumanSpec => []AnswersFit
<1>1. HumanInit => HumanInv
  BY HumanAssumption DEF HumanInit, HumanInv, OneTalk
<1>2. HumanInv /\ [HumanNext]_humanVars => HumanInv'
  <2> SUFFICES ASSUME HumanInv, [HumanNext]_humanVars PROVE HumanInv'
    OBVIOUS
  <2>0. /\ DOMAIN question = Question /\ DOMAIN reply = Question /\ NoQuestion \notin Question
        /\ shown \in Question \cup {NoQuestion}
    BY HumanAssumption DEF HumanInv
  <2>1. ASSUME NEW c \in Question, Ask(c) PROVE HumanInv'
    <3>1. /\ question' = [question EXCEPT ![c] = "open"] /\ shown' = c /\ question[c] = "unasked"
          /\ UNCHANGED <<reply, given, answered>>
      BY <2>1 DEF Ask
    <3>2. ASSUME strays' = {} PROVE OneTalk'
      <4>1. waiting = <<>> /\ strays = {}
        BY <2>1, <3>2 DEF Ask
      <4>2. waiting' = <<c>>
        BY <2>1, <4>1 DEF Ask
      <4> QED
        BY <2>0, <3>1, <4>1, <4>2 DEF HumanInv, OneTalk
    <3>3. strays' = {} => strays = {}
      BY <2>1 DEF Ask
    <3> QED
      BY <2>0, <3>1, <3>2, <3>3 DEF HumanInv
  <2>2. CASE PushResponse
    <3>1. /\ shown \in Question /\ given' = Append(given, shown)
          /\ answered' = answered \cup {shown}
          /\ UNCHANGED <<question, reply, shown, waiting>>
      BY <2>0, <2>2 DEF PushResponse
    <3>2. ASSUME strays' = {} PROVE OneTalk'
      <4>1. strays = {} /\ shown \notin answered /\ question[shown] # "lost"
        BY <2>2, <3>2 DEF PushResponse
      <4>2. question[shown] = "open"
        BY <2>0, <3>1, <4>1 DEF HumanInv
      <4>3. PICK c \in Question : /\ waiting = <<c>> /\ given \in {<<>>, <<c>>}
                                  /\ given = <<c>> => c \in answered
                                  /\ \A d \in Question : question[d] = "open" <=> d = c
        BY <3>1, <4>1, <4>2 DEF HumanInv, OneTalk
      <4>4. shown = c /\ given = <<>>
        BY <3>1, <4>1, <4>2, <4>3
      <4>5. given' = <<c>> /\ c \in answered'
        BY <3>1, <4>4
      <4> QED
        BY <3>1, <4>3, <4>5 DEF OneTalk
    <3>3. strays' = {} => strays = {}
      BY <2>2 DEF PushResponse
    <3> QED
      BY <3>1, <3>2, <3>3 DEF HumanInv
  <2>3. ASSUME NEW c \in Question, Receive(c) PROVE HumanInv'
    <3>1. /\ reply' = [reply EXCEPT ![c] = Head(given)] /\ given' = Tail(given)
          /\ question' = [question EXCEPT ![c] = "answered"]
          /\ StopWaiting(c) /\ given # <<>> /\ UNCHANGED <<shown, answered, strays>>
      BY <2>3 DEF Receive, MayTake
    <3>2. ASSUME strays = {} PROVE OneTalk' /\ reply'[c] = c /\ c \in answered
      <4>1. waiting # <<>>
        BY <3>1 DEF StopWaiting
      <4>2. PICK d \in Question : /\ waiting = <<d>> /\ given = <<d>> /\ d \in answered
                                  /\ \A e \in Question : question[e] = "open" <=> e = d
        BY <3>1, <3>2, <4>1 DEF HumanInv, OneTalk
      <4>3. waiting' = <<>> /\ c = d
        BY <3>1, <4>2, LastLeaves
      <4>4. Head(<<d>>) = d /\ Tail(<<d>>) = <<>>
        OBVIOUS
      <4> QED
        BY <2>0, <3>1, <4>2, <4>3, <4>4 DEF OneTalk
    <3> QED
      BY <2>0, <3>1, <3>2 DEF HumanInv
  <2>4. ASSUME NEW c \in Question, GiveUpWaiting(c) PROVE HumanInv'
    <3>1. /\ question' = [question EXCEPT ![c] = "lost"] /\ StopWaiting(c)
          /\ given' = given \/ (given' = Tail(given) /\ given # <<>>)
          /\ strays' = {} => strays = {} /\ c \notin ToSet(given')
          /\ UNCHANGED <<reply, shown, answered>>
      BY <2>4 DEF GiveUpWaiting, MayTake
    <3>2. ASSUME strays' = {} PROVE OneTalk'
      <4>1. waiting # <<>>
        BY <3>1 DEF StopWaiting
      <4>2. PICK d \in Question : /\ waiting = <<d>> /\ given \in {<<>>, <<d>>}
                                  /\ \A e \in Question : question[e] = "open" <=> e = d
        BY <3>1, <3>2, <4>1 DEF HumanInv, OneTalk
      <4>3. waiting' = <<>> /\ c = d
        BY <3>1, <4>2, LastLeaves
      <4>4. Tail(<<d>>) = <<>> /\ d \in ToSet(<<d>>)
        BY DEF ToSet
      <4>5. given' = <<>>
        BY <3>1, <3>2, <4>2, <4>3, <4>4
      <4> QED
        BY <2>0, <3>1, <4>2, <4>3, <4>5 DEF OneTalk
    <3> QED
      BY <2>0, <3>1, <3>2 DEF HumanInv
  <2>5. CASE UNCHANGED humanVars
    BY <2>5 DEF humanVars, HumanInv, OneTalk
  <2> QED
    BY <2>1, <2>2, <2>3, <2>4, <2>5 DEF HumanNext
<1>3. HumanInv => NothingShifted
  BY DEF HumanInv, NothingShifted
<1>4. OnceInv => TakenOnce
  <2> SUFFICES ASSUME OnceInv, "double" \notin strays, NEW c \in Question, question[c] = "answered"
               PROVE  /\ reply[c] \notin ToSet(given)
                      /\ \A d \in Question \ {c} : question[d] = "answered" => reply[d] # reply[c]
    BY DEF TakenOnce
  <2>1. DOMAIN given = 1..Len(given)
    BY DEF OnceInv
  <2> QED
    BY <2>1 DEF OnceInv, Once, ToSet
<1>5. HumanSpec => []NothingShifted
  BY <1>1, <1>2, <1>3, PTL DEF HumanSpec
<1> QED
  BY <1>4, <1>5, OnceHeld, PTL DEF AnswersFit

-----------------------------------------------------------------------------
(* Sequences that lose some of their elements.                              *)

LEMMA LeastNumber ==
  ASSUME NEW T \in SUBSET Nat, T # {}
  PROVE  \E n \in T : \A m \in T : n <= m
<1>1. PICK n \in T : \A m \in T : <<m, n>> \notin OpToRel(<, Nat)
  BY NatLessThanWellFounded, WFMin
<1>2. \A m \in T : ~(m < n)
  BY <1>1 DEF OpToRel
<1> QED
  BY <1>2

LEMMA StepByStep ==
  ASSUME NEW m \in Nat, NEW S, 0 \in S, \A n \in 0..(m - 1) : n \in S => n + 1 \in S
  PROVE  0..m \subseteq S
<1>1. SUFFICES ASSUME {n \in Nat : n <= m /\ n \notin S} # {} PROVE FALSE
  OBVIOUS
<1>2. PICK n \in Nat : /\ n <= m /\ n \notin S
                       /\ \A k \in Nat : k <= m /\ k \notin S => n <= k
  <2>1. PICK n \in {i \in Nat : i <= m /\ i \notin S} :
          \A k \in {i \in Nat : i <= m /\ i \notin S} : n <= k
    BY <1>1, LeastNumber
  <2> QED
    BY <2>1
<1>3. n # 0
  BY <1>2
<1>4. n - 1 \in 0..(m - 1) /\ n - 1 \in Nat /\ ~(n <= n - 1)
  BY <1>2, <1>3
<1>5. n - 1 \in S
  BY <1>2, <1>4
<1> QED
  BY <1>2, <1>4, <1>5

\* The sequence as far as it has been gone through.
KeptUpTo(s, C, m, g) ==
  g = [i \in 0..m |-> IF i = 0 THEN <<>>
                      ELSE IF s[i] \in C THEN g[i - 1] ELSE Append(g[i - 1], s[i])]

LEMMA KeptExists ==
  ASSUME NEW s, NEW C, NEW m \in Nat
  PROVE  \E g : KeptUpTo(s, C, m, g)
<1> DEFINE S == {n \in 0..m : \E g : KeptUpTo(s, C, n, g)}
<1>1. 0 \in S
  <2>1. KeptUpTo(s, C, 0, [i \in 0..0 |-> <<>>])
    BY DEF KeptUpTo
  <2> QED
    BY <2>1
<1>2. ASSUME NEW n \in 0..(m - 1), n \in S PROVE n + 1 \in S
  <2>1. PICK g : KeptUpTo(s, C, n, g)
    BY <1>2
  <2> DEFINE next == IF s[n + 1] \in C THEN g[n] ELSE Append(g[n], s[n + 1])
             h == [i \in 0..(n + 1) |-> IF i = n + 1 THEN next ELSE g[i]]
  <2>2. n \in Nat /\ n + 1 \in 0..m
    BY <1>2
  <2>3. \A i \in 0..n : g[i] = IF i = 0 THEN <<>>
                               ELSE IF s[i] \in C THEN g[i - 1] ELSE Append(g[i - 1], s[i])
    BY <2>1 DEF KeptUpTo
  <2>4. ASSUME NEW i \in 0..(n + 1)
        PROVE  h[i] = IF i = 0 THEN <<>>
                      ELSE IF s[i] \in C THEN h[i - 1] ELSE Append(h[i - 1], s[i])
    <3>1. CASE i = n + 1
      <4>1. h[i] = next /\ h[i - 1] = g[n] /\ i # 0
        BY <2>2, <3>1
      <4> QED
        BY <3>1, <4>1
    <3>2. CASE i # n + 1
      <4>1. i \in 0..n
        BY <2>2, <3>2
      <4>2. h[i] = g[i]
        BY <3>2
      <4>3. i # 0 => h[i - 1] = g[i - 1]
        BY <2>2, <4>1
      <4> QED
        BY <2>3, <4>1, <4>2, <4>3
    <3> QED
      BY <3>1, <3>2
  <2> HIDE DEF h, next
  <2>5. h = [i \in 0..(n + 1) |-> h[i]]
    BY DEF h
  <2>6. KeptUpTo(s, C, n + 1, h)
    BY <2>4, <2>5 DEF KeptUpTo
  <2> QED
    BY <2>2, <2>6
<1> HIDE DEF S
<1>3. 0..m \subseteq S
  BY <1>1, <1>2, StepByStep
<1> QED
  BY <1>3 DEF S

\* What is kept of the first i elements.
KeptFits(T, s, C, i, r) ==
  /\ r \in Seq(T) /\ Len(r) <= i
  /\ \A j \in 1..Len(r) : \E k \in j..i : r[j] = s[k] /\ s[k] \notin C
  /\ \A k \in 1..i : s[k] \notin C => \E j \in 1..Len(r) : r[j] = s[k]
  /\ IsInjective(s) => IsInjective(r)
  /\ (\A k \in 1..i : s[k] \notin C) => Len(r) = i /\ \A j \in 1..i : r[j] = s[j]

LEMMA KeptFurther ==
  ASSUME NEW T, NEW s \in Seq(T), NEW C, NEW i \in 0..(Len(s) - 1), NEW r, KeptFits(T, s, C, i, r)
  PROVE  KeptFits(T, s, C, i + 1, IF s[i + 1] \in C THEN r ELSE Append(r, s[i + 1]))
<1>0. /\ Len(s) \in Nat /\ i \in Nat /\ i + 1 \in 1..Len(s) /\ s[i + 1] \in T
      /\ r \in Seq(T) /\ Len(r) \in Nat
  BY DEF KeptFits
<1>1. CASE s[i + 1] \in C
  <2>1. \A j \in 1..Len(r) : \E k \in j..(i + 1) : r[j] = s[k] /\ s[k] \notin C
    BY <1>0 DEF KeptFits
  <2>2. \A k \in 1..(i + 1) : s[k] \notin C => k \in 1..i
    BY <1>0, <1>1
  <2> QED
    BY <1>0, <1>1, <2>1, <2>2 DEF KeptFits
<1>2. CASE s[i + 1] \notin C
  <2>1. PICK t : t = Append(r, s[i + 1])
    OBVIOUS
  <2>2. /\ t \in Seq(T) /\ Len(t) = Len(r) + 1 /\ t[Len(r) + 1] = s[i + 1]
        /\ \A j \in 1..Len(r) : t[j] = r[j]
    BY <1>0, <2>1
  <2>3. \A j \in 1..Len(t) : j \in 1..Len(r) \/ j = Len(r) + 1
    BY <1>0, <2>2
  <2>4. \A k \in 1..(i + 1) : k \in 1..i \/ k = i + 1
    BY <1>0
  <2>5. ASSUME NEW j \in 1..Len(t)
        PROVE  \E k \in j..(i + 1) : t[j] = s[k] /\ s[k] \notin C
    <3>1. CASE j \in 1..Len(r)
      <4>1. PICK k \in j..i : r[j] = s[k] /\ s[k] \notin C
        BY <3>1 DEF KeptFits
      <4> QED
        BY <1>0, <2>2, <3>1, <4>1
    <3>2. CASE j = Len(r) + 1
      <4>1. i + 1 \in j..(i + 1)
        BY <1>0, <3>2 DEF KeptFits
      <4> QED
        BY <1>2, <2>2, <3>2, <4>1
    <3> QED
      BY <2>3, <3>1, <3>2
  <2>6. ASSUME NEW k \in 1..(i + 1), s[k] \notin C PROVE \E j \in 1..Len(t) : t[j] = s[k]
    <3>1. CASE k \in 1..i
      <4>1. PICK j \in 1..Len(r) : r[j] = s[k]
        BY <2>6, <3>1 DEF KeptFits
      <4> QED
        BY <1>0, <2>2, <4>1
    <3>2. CASE k = i + 1
      BY <1>0, <2>2, <3>2
    <3> QED
      BY <2>4, <3>1, <3>2
  <2>7. ASSUME IsInjective(s) PROVE IsInjective(t)
    <3>1. DOMAIN t = 1..Len(t) /\ DOMAIN r = 1..Len(r) /\ DOMAIN s = 1..Len(s)
      BY <1>0, <2>2
    <3>2. ASSUME NEW j \in 1..Len(r) PROVE r[j] # s[i + 1]
      <4>1. PICK k \in j..i : r[j] = s[k]
        BY <3>2 DEF KeptFits
      <4>2. k \in 1..Len(s) /\ k # i + 1
        BY <1>0, <4>1
      <4> QED
        BY <1>0, <2>7, <3>1, <4>1, <4>2 DEF IsInjective
    <3>3. \A x, y \in 1..Len(r) : r[x] = r[y] => x = y
      BY <2>7, <3>1 DEF KeptFits, IsInjective
    <3>4. \A x, y \in 1..Len(t) : t[x] = t[y] => x = y
      BY <2>2, <2>3, <3>2, <3>3
    <3> QED
      BY <3>1, <3>4 DEF IsInjective
  <2>8. ASSUME \A k \in 1..(i + 1) : s[k] \notin C
        PROVE  Len(t) = i + 1 /\ \A j \in 1..(i + 1) : t[j] = s[j]
    <3>1. \A k \in 1..i : s[k] \notin C
      BY <1>0, <2>8
    <3>2. Len(r) = i /\ \A j \in 1..i : r[j] = s[j]
      BY <3>1 DEF KeptFits
    <3> QED
      BY <2>2, <2>4, <3>2
  <2>9. Len(t) <= i + 1
    BY <1>0, <2>2 DEF KeptFits
  <2>10. KeptFits(T, s, C, i + 1, t)
    BY <2>2, <2>5, <2>6, <2>7, <2>8, <2>9 DEF KeptFits
  <2> QED
    BY <1>2, <2>1, <2>10
<1> QED
  BY <1>1, <1>2

LEMMA KeptAtLast ==
  ASSUME NEW T, NEW s \in Seq(T), NEW C, NEW g, KeptUpTo(s, C, Len(s), g)
  PROVE  KeptFits(T, s, C, Len(s), g[Len(s)])
<1> DEFINE S == {i \in 0..Len(s) : KeptFits(T, s, C, i, g[i])}
<1>0. Len(s) \in Nat
  OBVIOUS
<1>3. g[0] = <<>>
  BY <1>0 DEF KeptUpTo
<1>4. \A i \in 0..(Len(s) - 1) :
         g[i + 1] = IF s[i + 1] \in C THEN g[i] ELSE Append(g[i], s[i + 1])
  <2>1. \A i \in 0..Len(s) : g[i] = IF i = 0 THEN <<>>
                                        ELSE IF s[i] \in C THEN g[i - 1]
                                        ELSE Append(g[i - 1], s[i])
    BY DEF KeptUpTo
  <2>2. \A i \in 0..(Len(s) - 1) : i + 1 \in 0..Len(s) /\ i + 1 # 0 /\ (i + 1) - 1 = i
    BY <1>0
  <2> QED
    BY <2>1, <2>2
<1>5. 0 \in S
  <2>1. /\ <<>> \in Seq(T) /\ Len(<<>>) = 0 /\ DOMAIN <<>> = {}
        /\ 1..0 = {} /\ 0 \in 0..Len(s)
    BY <1>0
  <2>2. KeptFits(T, s, C, 0, <<>>)
    BY <2>1 DEF KeptFits, IsInjective
  <2> QED
    BY <1>3, <2>1, <2>2
<1>6. ASSUME NEW i \in 0..(Len(s) - 1), i \in S PROVE i + 1 \in S
  <2>1. KeptFits(T, s, C, i + 1, g[i + 1])
    BY <1>4, <1>6, KeptFurther
  <2> QED
    BY <1>0, <1>6, <2>1
<1>7. 0..Len(s) \subseteq S
  <2> HIDE DEF S
  <2> QED
    BY <1>0, <1>5, <1>6, StepByStep
<1> QED
  BY <1>0, <1>7

LEMMA WithoutKeeps ==
  ASSUME conns \in Seq(Client), NEW C
  PROVE  KeptFits(Client, conns, C, Len(conns), Without(C))
<1> DEFINE g == CHOOSE g : KeptUpTo(conns, C, Len(conns), g)
<1>1. KeptUpTo(conns, C, Len(conns), g)
  BY KeptExists
<1>2. Without(C) = g[Len(conns)]
  BY DEF Without, KeptUpTo
<1> HIDE DEF g
<1> QED
  BY <1>1, <1>2, KeptAtLast

LEMMA BesidesKeeps ==
  ASSUME NEW T, NEW s \in Seq(T), NEW C
  PROVE  KeptFits(T, s, C, Len(s), Besides(s, C))
<1> DEFINE g == CHOOSE g : KeptUpTo(s, C, Len(s), g)
<1>1. KeptUpTo(s, C, Len(s), g)
  BY KeptExists
<1>2. Besides(s, C) = g[Len(s)]
  BY DEF Besides, KeptUpTo
<1> HIDE DEF g
<1> QED
  BY <1>1, <1>2, KeptAtLast

-----------------------------------------------------------------------------
(* The clients that watch a run.  HubServes is not inductive: which places  *)
(* of the list a publication has served says who has got its event.         *)

Connected(c) == client[c] \in {"greeting", "open"}
Waits == {c \in Client : client[c] = "accepting"}

\* How many places of the list a publication has served.
Served(e) == IF pub[e].at = "sends" THEN pub[e].i ELSE pub[e].i - 1

HubTyped ==
  /\ conns \in Seq(Client) /\ IsInjective(conns)
  /\ DOMAIN client = Client
  /\ pub \in [Event -> [at : {"no", "next", "sends", "done"}, i : Nat \ {0}, dead : SUBSET Client]]
  /\ got \in [Client -> [Event -> Nat]]
  /\ audience \in [Event -> SUBSET Client]

ClientFits(c) ==
  /\ client[c] \in {"out", "accepting"} =>
       /\ \A j \in 1..Len(conns) : conns[j] # c
       /\ \A e \in Event : got[c][e] = 0 /\ c \notin audience[e]
  /\ client[c] = "out" => c \notin overtaken
  /\ Connected(c) => \E j \in 1..Len(conns) : conns[j] = c
  /\ \A e \in Event : got[c][e] <= 1 /\ (c \in pub[e].dead => ~Connected(c) /\ client[c] # "out"
                                                             /\ client[c] # "accepting")

EventFits(e) ==
  /\ pub[e].at = "no" => pub[e].i = 1 /\ \A c \in Client : got[c][e] = 0
  /\ pub[e].at \in {"next", "sends"} =>
       /\ \A j \in 1..Len(conns) : j > Served(e) => got[conns[j]][e] = 0
       /\ e \notin disturbed =>
            /\ Served(e) <= Len(conns)
            /\ \A j \in 1..Len(conns) :
                  j <= Served(e) /\ Connected(conns[j]) => got[conns[j]][e] = 1
  /\ pub[e].at = "done" /\ e \notin disturbed =>
       \A c \in audience[e] : Connected(c) => got[c][e] = 1

RoomFits ==
  /\ IsFiniteSet(overtaken) /\ IsFiniteSet(Waits)
  /\ Len(conns) + Cardinality(Waits) <= MaxConnections + Cardinality(overtaken)

HubInv ==
  /\ HubTyped /\ RoomFits
  /\ \A c \in Client : ClientFits(c)
  /\ \A e \in Event : EventFits(e)

\* Some connections are removed: all publications but perhaps one are disturbed,
\* and that one is over.
LEMMA RemovalKeeps ==
  ASSUME HubInv, NEW C, conns' = Without(C), conns' # conns,
         \A c \in Client : c \in C => ~Connected(c)',
         \A c \in Client : Connected(c)' <=> Connected(c),
         \A c \in Client : client'[c] \in {"out", "accepting"} => client'[c] = client[c],
         DOMAIN client' = Client, Waits' = Waits,
         got' = got, audience' = audience, overtaken' = overtaken,
         disturbed \subseteq disturbed',
         pub' \in [Event -> [at : {"no", "next", "sends", "done"}, i : Nat \ {0}, dead : SUBSET Client]],
         \A e \in Event : \/ pub'[e] = pub[e] /\ (e \in Publishing => e \in disturbed')
                          \/ /\ pub'[e] = [at |-> "done", i |-> 1, dead |-> {}]
                             /\ \A c \in audience[e] :
                                   e \notin disturbed /\ Connected(c) => got[c][e] = 1
  PROVE  HubInv'
<1>0. /\ HubTyped /\ RoomFits /\ Len(conns) \in Nat /\ DOMAIN conns = 1..Len(conns)
      /\ \A c \in Client : ClientFits(c)
      /\ \A e \in Event : EventFits(e)
  BY DEF HubInv, HubTyped
<1>1. KeptFits(Client, conns, C, Len(conns), conns')
  BY <1>0, WithoutKeeps DEF HubTyped
<1>2. /\ conns' \in Seq(Client) /\ IsInjective(conns') /\ Len(conns') \in Nat
      /\ Len(conns') <= Len(conns)
      /\ \A j \in 1..Len(conns') : \E k \in j..Len(conns) : conns'[j] = conns[k]
      /\ \A k \in 1..Len(conns) : conns[k] \notin C => \E j \in 1..Len(conns') : conns'[j] = conns[k]
  BY <1>0, <1>1 DEF KeptFits, HubTyped
<1>3. HubTyped'
  BY <1>0, <1>2 DEF HubTyped
<1>4. RoomFits'
  <2>1. MaxConnections \in Nat /\ Cardinality(Waits) \in Nat /\ Cardinality(overtaken) \in Nat
    BY <1>0, HubAssumption, FS_CardinalityType DEF RoomFits
  <2> QED
    BY <1>0, <1>2, <2>1 DEF RoomFits
<1>5. ASSUME NEW c \in Client PROVE ClientFits(c)'
  <2>1. \A j \in 1..Len(conns') : \E k \in 1..Len(conns) : conns'[j] = conns[k]
    BY <1>0, <1>2
  <2>2. client'[c] \in {"out", "accepting"} => \A j \in 1..Len(conns') : conns'[j] # c
    BY <1>0, <2>1 DEF ClientFits
  <2>3. Connected(c)' => \E j \in 1..Len(conns') : conns'[j] = c
    <3>1. SUFFICES ASSUME Connected(c)' PROVE \E j \in 1..Len(conns') : conns'[j] = c
      OBVIOUS
    <3>2. PICK k \in 1..Len(conns) : conns[k] = c
      BY <1>0, <3>1 DEF ClientFits
    <3> QED
      BY <1>2, <3>1, <3>2
  <2>4. ASSUME NEW e \in Event, c \in pub'[e].dead PROVE c \in pub[e].dead
    <3>1. pub'[e] # [at |-> "done", i |-> 1, dead |-> {}]
      BY <2>4
    <3> QED
      BY <2>4, <3>1
  <2>5. \A e \in Event : c \in pub'[e].dead => /\ ~Connected(c)' /\ client'[c] # "out"
                                               /\ client'[c] # "accepting"
    BY <1>0, <2>4 DEF ClientFits
  <2> QED
    BY <1>0, <2>2, <2>3, <2>5 DEF ClientFits
<1>6. ASSUME NEW e \in Event PROVE EventFits(e)'
  <2>1. CASE pub'[e] = pub[e] /\ (e \in Publishing => e \in disturbed')
    <3>1. pub[e].at \in {"next", "sends"} => e \in disturbed'
      BY <2>1 DEF Publishing
    <3>2. Served(e)' = Served(e) /\ Served(e) \in Nat
      BY <1>0, <2>1 DEF Served, HubTyped
    <3>3. ASSUME pub[e].at \in {"next", "sends"}, NEW j \in 1..Len(conns'), j > Served(e)
          PROVE  got'[conns'[j]][e] = 0
      <4>1. PICK k \in j..Len(conns) : conns'[j] = conns[k]
        BY <1>2
      <4>2. k \in 1..Len(conns) /\ k > Served(e)
        BY <1>0, <1>2, <3>2, <3>3, <4>1
      <4> QED
        BY <1>0, <3>3, <4>1, <4>2 DEF EventFits
    <3>4. ASSUME pub[e].at = "done", e \notin disturbed', NEW c \in audience[e], Connected(c)'
          PROVE  got[c][e] = 1
      <4>1. c \in Client
        BY <1>0, <3>4 DEF HubTyped
      <4>2. Connected(c)
        BY <3>4, <4>1
      <4> QED
        BY <1>0, <3>4, <4>2 DEF EventFits
    <3> QED
      BY <1>0, <2>1, <3>1, <3>2, <3>3, <3>4 DEF EventFits
  <2>2. CASE /\ pub'[e] = [at |-> "done", i |-> 1, dead |-> {}]
             /\ \A c \in audience[e] : e \notin disturbed /\ Connected(c) => got[c][e] = 1
    <3>1. pub'[e].at = "done"
      BY <2>2
    <3>2. ASSUME e \notin disturbed', NEW c \in audience'[e], Connected(c)' PROVE got'[c][e] = 1
      <4>1. c \in Client /\ c \in audience[e]
        BY <1>0, <3>2 DEF HubTyped
      <4> QED
        BY <2>2, <3>2, <4>1
    <3> QED
      BY <3>1, <3>2 DEF EventFits
  <2> QED
    BY <2>1, <2>2
<1> QED
  BY <1>3, <1>4, <1>5, <1>6 DEF HubInv

\* No connection is removed or comes, and no publication goes on.
LEMMA HubKeepsStill ==
  ASSUME HubInv, conns' = conns, pub' = pub, got' = got, audience' = audience,
         disturbed' = disturbed, DOMAIN client' = Client, NEW c \in Client,
         \A d \in Client : d # c => client'[d] = client[d],
         client[c] # "out", client'[c] # "out", Connected(c)' => Connected(c),
         client[c] # "accepting", client'[c] # "accepting", overtaken' = overtaken
  PROVE  HubInv'
<1>1. \A d \in Client : /\ Connected(d)' => Connected(d)
                        /\ client'[d] = "accepting" <=> client[d] = "accepting"
                        /\ client'[d] = "out" <=> client[d] = "out"
  BY DEF Connected
<1>2. Waits' = Waits
  BY <1>1 DEF Waits
<1>3. HubTyped' /\ RoomFits'
  BY <1>2 DEF HubInv, HubTyped, RoomFits
<1>4. ASSUME NEW d \in Client PROVE ClientFits(d)'
  BY <1>1, <1>4 DEF HubInv, ClientFits
<1>5. ASSUME NEW e \in Event PROVE EventFits(e)'
  <2>1. \A j \in 1..Len(conns) : conns[j] \in Client
    BY DEF HubInv, HubTyped
  <2>2. audience[e] \subseteq Client
    BY DEF HubInv, HubTyped
  <2> QED
    BY <1>1, <1>5, <2>1, <2>2 DEF HubInv, EventFits, Served
<1> QED
  BY <1>3, <1>4, <1>5 DEF HubInv

LEMMA ClientKeeps ==
  ASSUME HubInv, NEW c \in Client, Connect(c) \/ Accepted(c) \/ Greeted(c) \/ Break(c) \/ Disconnect(c)
  PROVE  HubInv'
<1>0. /\ HubTyped /\ RoomFits /\ Len(conns) \in Nat /\ DOMAIN conns = 1..Len(conns)
      /\ \A d \in Client : ClientFits(d)
      /\ \A e \in Event : EventFits(e)
      /\ \A j \in 1..Len(conns) : conns[j] \in Client
  BY DEF HubInv, HubTyped
<1>1. CASE Greeted(c) \/ Break(c)
  <2>1. /\ client[c] \in {"greeting", "open"} /\ DOMAIN client' = Client
        /\ client'[c] \in {"open", "breaks"}
        /\ \A d \in Client : d # c => client'[d] = client[d]
    BY <1>0, <1>1 DEF Greeted, Break, HubTyped
  <2> QED
    BY <1>1, <2>1, HubKeepsStill DEF Greeted, Break, Connected
<1>2. CASE Connect(c)
  <2>0. /\ client[c] = "out" /\ DOMAIN client' = Client
        /\ client'[c] = IF Len(conns) >= MaxConnections THEN "gone" ELSE "accepting"
        /\ \A d \in Client : d # c => client'[d] = client[d]
        /\ conns' = conns /\ pub' = pub /\ got' = got /\ audience' = audience
        /\ disturbed' = disturbed
    BY <1>0, <1>2 DEF Connect, HubTyped
  <2>1. /\ \A d \in Client : Connected(d)' <=> Connected(d)
        /\ \A d \in Client : client'[d] \in {"out", "accepting"} => client[d] \in {"out", "accepting"}
    BY <2>0 DEF Connected
  <2>2. HubTyped'
    BY <1>0, <2>0 DEF HubTyped
  <2>3. ASSUME NEW e \in Event PROVE EventFits(e)'
    <3>1. audience[e] \subseteq Client
      BY <1>0 DEF HubTyped
    <3> QED
      BY <1>0, <2>0, <2>1, <2>3, <3>1 DEF EventFits, Served
  <2>4. ASSUME NEW d \in Client PROVE ClientFits(d)'
    <3>1. client'[d] = "out" => d # c /\ client[d] = "out"
      BY <2>0
    <3>2. d # c => (d \in overtaken' => d \in overtaken)
      BY <1>2 DEF Connect
    <3>3. \A e \in Event : d \in pub[e].dead => client[d] # "out" /\ d # c
      BY <1>0, <2>0 DEF ClientFits
    <3>4. \A e \in Event : d \in pub'[e].dead => /\ ~Connected(d)' /\ client'[d] # "out"
                                                 /\ client'[d] # "accepting"
      BY <1>0, <2>0, <2>1, <3>3 DEF ClientFits
    <3> QED
      BY <1>0, <2>0, <2>1, <3>1, <3>2, <3>4 DEF ClientFits
  <2>5. RoomFits'
    <3>0. /\ MaxConnections \in Nat /\ Cardinality(Waits) \in Nat /\ Cardinality(overtaken) \in Nat
          /\ IsFiniteSet(overtaken) /\ IsFiniteSet(Waits)
          /\ Len(conns) + Cardinality(Waits) <= MaxConnections + Cardinality(overtaken)
          /\ c \notin Waits /\ c \notin overtaken
      BY <1>0, <2>0, HubAssumption, FS_CardinalityType DEF RoomFits, ClientFits, Waits
    <3>1. CASE Waits = {} /\ Len(conns) < MaxConnections
      <4>1. Waits' = {c} /\ overtaken' = overtaken
        BY <1>2, <2>0, <3>0, <3>1 DEF Waits, Connect
      <4>2. IsFiniteSet({c}) /\ Cardinality({c}) = 1
        BY FS_Singleton
      <4> QED
        BY <1>0, <2>0, <3>0, <3>1, <4>1, <4>2 DEF RoomFits
    <3>2. CASE Waits # {} /\ Len(conns) < MaxConnections
      <4>1. Waits' = Waits \cup {c} /\ overtaken' = overtaken \cup {c}
        BY <1>2, <2>0, <3>0, <3>2 DEF Waits, Connect
      <4>2. /\ IsFiniteSet(Waits \cup {c}) /\ Cardinality(Waits \cup {c}) = Cardinality(Waits) + 1
            /\ IsFiniteSet(overtaken \cup {c})
            /\ Cardinality(overtaken \cup {c}) = Cardinality(overtaken) + 1
        BY <3>0, FS_AddElement
      <4> QED
        BY <1>0, <2>0, <3>0, <4>1, <4>2 DEF RoomFits
    <3>3. CASE Len(conns) >= MaxConnections
      <4>1. Waits' = Waits /\ (overtaken' = overtaken \/ overtaken' = overtaken \cup {c})
        BY <1>2, <2>0, <3>0, <3>3 DEF Waits, Connect
      <4>2. /\ IsFiniteSet(overtaken \cup {c})
            /\ Cardinality(overtaken \cup {c}) = Cardinality(overtaken) + 1
        BY <3>0, FS_AddElement
      <4>3. IsFiniteSet(overtaken') /\ Cardinality(overtaken') \in Nat
            /\ Cardinality(overtaken') >= Cardinality(overtaken)
        <5>1. CASE overtaken' = overtaken
          BY <3>0, <5>1
        <5>2. CASE overtaken' = overtaken \cup {c}
          BY <3>0, <4>2, <5>2
        <5> QED
          BY <4>1, <5>1, <5>2
      <4> QED
        BY <1>0, <2>0, <3>0, <4>1, <4>3 DEF RoomFits
    <3> QED
      BY <1>0, <3>0, <3>1, <3>2, <3>3
  <2> QED
    BY <2>2, <2>3, <2>4, <2>5 DEF HubInv
<1>3. CASE Accepted(c)
  <2>0. /\ client[c] = "accepting" /\ DOMAIN client' = Client /\ client'[c] = "greeting"
        /\ \A d \in Client : d # c => client'[d] = client[d]
        /\ pub' = pub /\ got' = got /\ audience' = audience
        /\ disturbed' = disturbed /\ overtaken' = overtaken
    BY <1>0, <1>3 DEF Accepted, HubTyped
  <2>1. /\ conns' \in Seq(Client) /\ Len(conns') = Len(conns) + 1 /\ conns'[Len(conns) + 1] = c
        /\ \A j \in 1..Len(conns) : conns'[j] = conns[j]
        /\ DOMAIN conns' = 1..(Len(conns) + 1)
    BY <1>0, <1>3 DEF Accepted, HubTyped
  <2>2. \A j \in 1..Len(conns') : j \in 1..Len(conns) \/ j = Len(conns) + 1
    BY <1>0, <2>1
  <2>3. /\ \A j \in 1..Len(conns) : conns[j] # c
        /\ \A e \in Event : got[c][e] = 0 /\ c \notin audience[e] /\ c \notin pub[e].dead
    BY <1>0, <2>0 DEF ClientFits
  <2>4. HubTyped'
    <3>1. \A x, y \in 1..Len(conns) : conns[x] = conns[y] => x = y
      BY <1>0 DEF HubTyped, IsInjective
    <3>2. \A x, y \in 1..Len(conns') : conns'[x] = conns'[y] => x = y
      BY <2>1, <2>2, <2>3, <3>1
    <3> QED
      BY <1>0, <2>0, <2>1, <3>2 DEF HubTyped, IsInjective
  <2>5. \A d \in Client : d # c => (Connected(d)' <=> Connected(d))
    BY <2>0 DEF Connected
  <2>6. ASSUME NEW e \in Event PROVE EventFits(e)'
    <3>0. Served(e)' = Served(e) /\ Served(e) \in Nat
      BY <1>0, <2>0 DEF Served, HubTyped
    <3>1. ASSUME pub[e].at \in {"next", "sends"}, NEW j \in 1..Len(conns'), j > Served(e)
          PROVE  got'[conns'[j]][e] = 0
      <4>1. CASE j \in 1..Len(conns)
        BY <1>0, <2>0, <2>1, <3>1, <4>1 DEF EventFits
      <4>2. CASE j = Len(conns) + 1
        BY <2>0, <2>1, <2>3, <4>2
      <4> QED
        BY <2>2, <4>1, <4>2
    <3>2. ASSUME pub[e].at \in {"next", "sends"}, e \notin disturbed
          PROVE  /\ Served(e) <= Len(conns')
                 /\ \A j \in 1..Len(conns') :
                       j <= Served(e) /\ Connected(conns[j])' => got'[conns'[j]][e] = 1
      <4>1. Served(e) <= Len(conns)
        BY <1>0, <3>2 DEF EventFits
      <4>2. ASSUME NEW j \in 1..Len(conns'), j <= Served(e), Connected(conns[j])'
            PROVE  got'[conns'[j]][e] = 1
        <5>1. j \in 1..Len(conns) /\ conns'[j] = conns[j] /\ conns[j] \in Client /\ conns[j] # c
          BY <1>0, <2>1, <2>2, <2>3, <3>0, <4>1, <4>2
        <5>2. Connected(conns[j])
          BY <2>5, <4>2, <5>1
        <5> QED
          BY <1>0, <2>0, <3>2, <4>2, <5>1, <5>2 DEF EventFits
      <4> QED
        BY <1>0, <2>1, <3>0, <4>1, <4>2
    <3>3. ASSUME pub[e].at = "done", e \notin disturbed, NEW d \in audience[e], Connected(d)'
          PROVE  got[d][e] = 1
      <4>1. d \in Client /\ d # c
        BY <1>0, <2>3, <3>3 DEF HubTyped
      <4> QED
        BY <1>0, <2>5, <3>3, <4>1 DEF EventFits
    <3>4. pub[e].at = "no" => pub[e].i = 1 /\ \A d \in Client : got[d][e] = 0
      BY <1>0 DEF EventFits
    <3> QED
      BY <2>0, <3>0, <3>1, <3>2, <3>3, <3>4 DEF EventFits, Connected
  <2>7. ASSUME NEW d \in Client PROVE ClientFits(d)'
    <3>1. CASE d = c
      <4>1. Len(conns) + 1 \in 1..Len(conns')
        BY <1>0, <2>1
      <4> QED
        BY <2>0, <2>1, <2>3, <3>1, <4>1 DEF ClientFits
    <3>2. CASE d # c
      <4>1. \A j \in 1..Len(conns') : conns'[j] = d => \E k \in 1..Len(conns) : conns[k] = d
        BY <2>1, <2>2, <3>2
      <4>2. \A k \in 1..Len(conns) : conns[k] = d => \E j \in 1..Len(conns') : conns'[j] = d
        BY <1>0, <2>1
      <4>3. client'[d] = client[d]
        BY <2>0, <3>2
      <4> QED
        BY <1>0, <2>0, <2>5, <3>2, <4>1, <4>2, <4>3 DEF ClientFits
    <3> QED
      BY <3>1, <3>2
  <2>8. RoomFits'
    <3>1. Waits' = Waits \ {c} /\ c \in Waits
      BY <2>0 DEF Waits
    <3>2. /\ IsFiniteSet(Waits \ {c}) /\ Cardinality(Waits \ {c}) = Cardinality(Waits) - 1
          /\ Cardinality(Waits) \in Nat /\ Cardinality(overtaken) \in Nat
      BY <1>0, <3>1, FS_RemoveElement, FS_CardinalityType DEF RoomFits
    <3> QED
      BY <1>0, <2>0, <2>1, <3>1, <3>2, HubAssumption DEF RoomFits
  <2> QED
    BY <2>4, <2>6, <2>7, <2>8 DEF HubInv
<1>4. CASE Disconnect(c)
  <2>0. /\ client[c] = "breaks" /\ DOMAIN client' = Client /\ client'[c] = "gone"
        /\ \A d \in Client : d # c => client'[d] = client[d]
        /\ pub' = pub /\ got' = got /\ audience' = audience /\ overtaken' = overtaken
        /\ conns' = Without({c})
    BY <1>0, <1>4 DEF Disconnect, HubTyped
  <2>1. CASE conns' # conns
    <3>1. Contains(conns, c)
      <4>1. SUFFICES ASSUME ~Contains(conns, c) PROVE conns' = conns
        BY <2>1
      <4>2. \A k \in 1..Len(conns) : conns[k] \notin {c}
        BY <4>1 DEF Contains
      <4>3. KeptFits(Client, conns, {c}, Len(conns), conns')
        BY <1>0, <2>0, WithoutKeeps DEF HubTyped
      <4>4. /\ conns' \in Seq(Client) /\ conns \in Seq(Client) /\ Len(conns') = Len(conns)
            /\ \A j \in 1..Len(conns) : conns'[j] = conns[j]
        BY <1>0, <4>2, <4>3 DEF KeptFits, HubTyped
      <4> QED
        BY <4>4, SeqEqual
    <3>2. disturbed' = disturbed \cup Publishing
      BY <1>4, <3>1 DEF Disconnect
    <3>3. Waits' = Waits /\ \A d \in Client : Connected(d)' <=> Connected(d)
      BY <2>0 DEF Waits, Connected
    <3>4. \A d \in Client : d \in {c} => ~Connected(d)'
      BY <2>0 DEF Connected
    <3>5. \A d \in Client : client'[d] \in {"out", "accepting"} => client'[d] = client[d]
      BY <2>0
    <3>6. pub' \in [Event -> [at : {"no", "next", "sends", "done"}, i : Nat \ {0}, dead : SUBSET Client]]
      BY <1>0, <2>0 DEF HubTyped
    <3> QED
      BY <2>0, <2>1, <3>2, <3>3, <3>4, <3>5, <3>6, RemovalKeeps
  <2>2. CASE conns' = conns
    <3>1. ~Contains(conns, c)
      <4>1. SUFFICES ASSUME NEW k \in 1..Len(conns), conns[k] = c PROVE FALSE
        BY DEF Contains
      <4>2. KeptFits(Client, conns, {c}, Len(conns), conns)
        BY <1>0, <2>0, <2>2, WithoutKeeps DEF HubTyped
      <4>3. \A j \in 1..Len(conns) : \E i \in j..Len(conns) : conns[j] = conns[i] /\ conns[i] \notin {c}
        BY <4>2 DEF KeptFits
      <4> QED
        BY <4>1, <4>3
    <3>2. disturbed' = disturbed
      BY <1>4, <3>1 DEF Disconnect
    <3> QED
      BY <2>0, <2>2, <3>2, HubKeepsStill DEF Connected
  <2> QED
    BY <2>1, <2>2
<1> QED
  BY <1>1, <1>2, <1>3, <1>4

\* One publication goes on.
LEMMA PublicationKeeps ==
  ASSUME HubInv, NEW e \in Event,
         Publish(e) \/ SendNext(e) \/ SendReturns(e) \/ SendFails(e) \/ Sweep(e)
  PROVE  HubInv'
<1>0. /\ HubTyped /\ RoomFits /\ Len(conns) \in Nat /\ DOMAIN conns = 1..Len(conns)
      /\ \A d \in Client : ClientFits(d)
      /\ \A f \in Event : EventFits(f)
      /\ \A j \in 1..Len(conns) : conns[j] \in Client
      /\ pub[e].i \in Nat \ {0} /\ pub[e].dead \subseteq Client
      /\ pub[e] \in [at : {"no", "next", "sends", "done"}, i : Nat \ {0}, dead : SUBSET Client]
  BY DEF HubInv, HubTyped
<1> DEFINE Pub == [at : {"no", "next", "sends", "done"}, i : Nat \ {0}, dead : SUBSET Client]
<1>1. CASE Publish(e)
  <2>0. /\ pub[e].at = "no" /\ conns' = conns /\ client' = client /\ got' = got
        /\ disturbed' = disturbed /\ overtaken' = overtaken
        /\ pub' = [pub EXCEPT ![e].at = "next"]
        /\ audience' = [audience EXCEPT ![e] = ToSet(conns)]
    BY <1>1 DEF Publish
  <2>1. /\ pub' \in [Event -> Pub] /\ pub'[e].at = "next" /\ pub'[e].i = 1
        /\ pub'[e].dead = pub[e].dead
        /\ \A f \in Event : f # e => pub'[f] = pub[f]
    BY <1>0, <2>0 DEF HubTyped, EventFits
  <2>2. /\ audience' \in [Event -> SUBSET Client]
        /\ \A f \in Event : f # e => audience'[f] = audience[f]
        /\ audience'[e] = {conns[j] : j \in 1..Len(conns)}
    BY <1>0, <2>0 DEF HubTyped, ToSet
  <2>3. HubTyped' /\ RoomFits'
    BY <1>0, <2>0, <2>1, <2>2 DEF HubTyped, RoomFits, Waits
  <2>4. ASSUME NEW d \in Client PROVE ClientFits(d)'
    <3>1. \A f \in Event : pub'[f].dead = pub[f].dead
      BY <2>1
    <3>2. ASSUME client[d] \in {"out", "accepting"}, NEW f \in Event PROVE d \notin audience'[f]
      BY <1>0, <2>2, <3>2 DEF ClientFits
    <3> QED
      BY <1>0, <2>0, <3>1, <3>2 DEF ClientFits, Connected
  <2>5. ASSUME NEW f \in Event PROVE EventFits(f)'
    <3>1. CASE f = e
      <4>1. Served(e)' = 0
        BY <2>1 DEF Served
      <4> QED
        BY <1>0, <2>0, <2>1, <3>1, <4>1 DEF EventFits
    <3>2. CASE f # e
      <4>1. pub'[f] = pub[f] /\ audience'[f] = audience[f]
        BY <2>1, <2>2, <3>2
      <4> QED
        BY <1>0, <2>0, <4>1 DEF EventFits, Served, Connected
    <3> QED
      BY <3>1, <3>2
  <2> QED
    BY <2>3, <2>4, <2>5 DEF HubInv
<1>2. CASE SendNext(e)
  <2>1. PICK c \in Client, i \in 1..Len(conns) :
          /\ c = conns[i] /\ i = pub[e].i /\ pub[e].at = "next" /\ Connected(c)
    BY <1>0, <1>2 DEF SendNext, Connected
  <2>0. /\ conns' = conns /\ client' = client /\ audience' = audience
        /\ disturbed' = disturbed /\ overtaken' = overtaken
        /\ pub' = [pub EXCEPT ![e].at = "sends"]
        /\ got' = [got EXCEPT ![c][e] = got[c][e] + 1]
    BY <1>2, <2>1 DEF SendNext
  <2>2. /\ pub' \in [Event -> Pub] /\ pub'[e].at = "sends" /\ pub'[e].i = i
        /\ pub'[e].dead = pub[e].dead
        /\ \A f \in Event : f # e => pub'[f] = pub[f]
    BY <1>0, <2>0, <2>1 DEF HubTyped
  <2>3. Served(e) = i - 1 /\ Served(e)' = i /\ i > i - 1
    BY <1>0, <2>1, <2>2 DEF Served
  <2>4. got[c][e] = 0
    BY <1>0, <2>1, <2>3 DEF EventFits
  <2>5. /\ got' \in [Client -> [Event -> Nat]] /\ got'[c][e] = 1
        /\ \A d \in Client, f \in Event : d # c \/ f # e => got'[d][f] = got[d][f]
    BY <1>0, <2>0, <2>4 DEF HubTyped
  <2>6. HubTyped' /\ RoomFits'
    <3>1. HubTyped'
      BY <1>0, <2>0, <2>2, <2>5 DEF HubTyped
    <3>2. Waits' = Waits
      BY <2>0 DEF Waits
    <3> QED
      BY <1>0, <2>0, <3>1, <3>2 DEF RoomFits
  <2>7. ASSUME NEW d \in Client PROVE ClientFits(d)'
    <3>1. \A f \in Event : pub'[f].dead = pub[f].dead
      BY <2>2
    <3>2. d = c => client[d] # "out" /\ client[d] # "accepting"
      BY <2>1 DEF Connected
    <3>3. \A f \in Event : got'[d][f] <= 1
      <4> TAKE f \in Event
      <4>1. got[d][f] <= 1
        BY <1>0 DEF ClientFits
      <4> QED
        BY <2>5, <4>1
    <3>4. client[d] \in {"out", "accepting"} => \A f \in Event : got'[d][f] = 0
      <4> SUFFICES ASSUME client[d] \in {"out", "accepting"}, NEW f \in Event
                   PROVE  got'[d][f] = 0
        OBVIOUS
      <4>1. d # c /\ ClientFits(d)
        BY <1>0, <3>2
      <4>2. got[d][f] = 0
        BY <4>1 DEF ClientFits
      <4> QED
        BY <2>5, <4>1, <4>2
    <3> QED
      BY <1>0, <2>0, <3>1, <3>3, <3>4 DEF ClientFits, Connected
  <2>8. ASSUME NEW f \in Event PROVE EventFits(f)'
    <3>1. CASE f # e
      <4>1. pub'[f] = pub[f] /\ \A d \in Client : got'[d][f] = got[d][f]
        BY <2>2, <2>5, <3>1
      <4>2. audience[f] \subseteq Client
        BY <1>0 DEF HubTyped
      <4> QED
        BY <1>0, <2>0, <4>1, <4>2 DEF EventFits, Served, Connected
    <3>2. CASE f = e
      <4>1. \A j \in 1..Len(conns) : j # i => conns[j] # c
        BY <1>0, <2>1 DEF HubTyped, IsInjective
      <4>2. ASSUME NEW j \in 1..Len(conns), j > i PROVE got'[conns[j]][e] = 0
        <5>1. PICK d \in Client : d = conns[j]
          BY <1>0, <4>2
        <5>2. d # c /\ j > i - 1
          BY <4>1, <4>2, <5>1
        <5>3. got'[d][e] = got[d][e]
          BY <2>5, <5>2
        <5>4. got[conns[j]][e] = 0
          BY <1>0, <2>1, <2>3, <5>2 DEF EventFits
        <5> QED
          BY <5>1, <5>3, <5>4
      <4>3. ASSUME e \notin disturbed, NEW j \in 1..Len(conns), j <= i, Connected(conns[j])
            PROVE  got'[conns[j]][e] = 1
        <5>1. CASE j = i
          BY <2>1, <2>5, <5>1
        <5>2. CASE j # i
          <6>1. PICK d \in Client : d = conns[j]
            BY <1>0, <4>3
          <6>2. j <= i - 1 /\ d # c
            BY <4>1, <4>3, <5>2, <6>1
          <6>3. got'[d][e] = got[d][e]
            BY <2>5, <6>2
          <6>4. got[conns[j]][e] = 1
            BY <1>0, <2>1, <2>3, <4>3, <6>2 DEF EventFits
          <6> QED
            BY <6>1, <6>3, <6>4
        <5> QED
          BY <5>1, <5>2
      <4> QED
        BY <2>0, <2>1, <2>2, <2>3, <3>2, <4>2, <4>3 DEF EventFits, Connected
    <3> QED
      BY <3>1, <3>2
  <2> QED
    BY <2>6, <2>7, <2>8 DEF HubInv
<1>3. CASE SendReturns(e)
  <2>0. /\ conns' = conns /\ client' = client /\ audience' = audience /\ got' = got
        /\ disturbed' = disturbed /\ overtaken' = overtaken /\ pub[e].at = "sends"
        /\ pub' = [pub EXCEPT ![e].at = "next", ![e].i = pub[e].i + 1]
    BY <1>3 DEF SendReturns
  <2>1. pub' = [pub EXCEPT ![e] = [pub[e] EXCEPT !.at = "next", !.i = pub[e].i + 1]]
    BY <1>0, <2>0 DEF HubTyped
  <2>2. /\ pub' \in [Event -> Pub] /\ pub'[e].at = "next" /\ pub'[e].i = pub[e].i + 1
        /\ pub'[e].dead = pub[e].dead
        /\ \A f \in Event : f # e => pub'[f] = pub[f]
    <3>1. PICK p : p = [pub[e] EXCEPT !.at = "next", !.i = pub[e].i + 1]
      OBVIOUS
    <3>2. p \in Pub /\ p.at = "next" /\ p.i = pub[e].i + 1 /\ p.dead = pub[e].dead
      <4>1. pub[e].i + 1 \in Nat \ {0}
        BY <1>0
      <4> QED
        BY <1>0, <3>1, <4>1
    <3>3. pub' = [pub EXCEPT ![e] = p]
      BY <2>1, <3>1
    <3> QED
      BY <1>0, <3>2, <3>3 DEF HubTyped
  <2>3. \A f \in Event : Served(f)' = Served(f)
    BY <1>0, <2>0, <2>2 DEF Served
  <2>4. HubTyped' /\ RoomFits'
    BY <1>0, <2>0, <2>2 DEF HubTyped, RoomFits, Waits
  <2>5. ASSUME NEW d \in Client PROVE ClientFits(d)'
    <3>1. \A f \in Event : pub'[f].dead = pub[f].dead
      BY <2>2
    <3> QED
      BY <1>0, <2>0, <3>1 DEF ClientFits, Connected
  <2>6. ASSUME NEW f \in Event PROVE EventFits(f)'
    <3>1. CASE f = e
      BY <1>0, <2>0, <2>2, <2>3, <3>1 DEF EventFits, Connected
    <3>2. CASE f # e
      BY <1>0, <2>0, <2>2, <2>3, <3>2 DEF EventFits, Connected
    <3> QED
      BY <3>1, <3>2
  <2> QED
    BY <2>4, <2>5, <2>6 DEF HubInv
<1>4. CASE SendFails(e)
  <2>1. PICK c \in Client, i \in 1..Len(conns) :
          /\ c = conns[i] /\ i = pub[e].i /\ pub[e].at = "next" /\ client[c] = "breaks"
    BY <1>0, <1>4 DEF SendFails, Broken
  <2>0. /\ conns' = conns /\ client' = client /\ audience' = audience /\ got' = got
        /\ disturbed' = disturbed /\ overtaken' = overtaken
        /\ pub' = [pub EXCEPT ![e].dead = pub[e].dead \cup {c}, ![e].i = i + 1]
    BY <1>4, <2>1 DEF SendFails
  <2>2. pub' = [pub EXCEPT ![e] = [pub[e] EXCEPT !.dead = pub[e].dead \cup {c}, !.i = i + 1]]
    BY <1>0, <2>0 DEF HubTyped
  <2>3. /\ pub' \in [Event -> Pub] /\ pub'[e].at = "next" /\ pub'[e].i = i + 1
        /\ pub'[e].dead = pub[e].dead \cup {c}
        /\ \A f \in Event : f # e => pub'[f] = pub[f]
    <3>1. PICK p : p = [pub[e] EXCEPT !.dead = pub[e].dead \cup {c}, !.i = i + 1]
      OBVIOUS
    <3>2. p \in Pub /\ p.at = "next" /\ p.i = i + 1 /\ p.dead = pub[e].dead \cup {c}
      <4>1. i + 1 \in Nat \ {0} /\ pub[e].dead \cup {c} \in SUBSET Client
        BY <1>0, <2>1
      <4> QED
        BY <1>0, <2>1, <3>1, <4>1
    <3>3. pub' = [pub EXCEPT ![e] = p]
      BY <2>2, <3>1
    <3> QED
      BY <1>0, <3>2, <3>3 DEF HubTyped
  <2>4. Served(e) = i - 1 /\ Served(e)' = i
    BY <2>1, <2>3 DEF Served
  <2>5. HubTyped' /\ RoomFits'
    BY <1>0, <2>0, <2>3 DEF HubTyped, RoomFits, Waits
  <2>6. ASSUME NEW d \in Client PROVE ClientFits(d)'
    <3>1. \A f \in Event : d \in pub'[f].dead => d \in pub[f].dead \/ client[d] = "breaks"
      BY <2>1, <2>3
    <3>2. \A f \in Event : d \in pub'[f].dead => /\ ~Connected(d) /\ client[d] # "out"
                                                 /\ client[d] # "accepting"
      BY <1>0, <3>1 DEF ClientFits, Connected
    <3> QED
      BY <1>0, <2>0, <3>2 DEF ClientFits, Connected
  <2>7. ASSUME NEW f \in Event PROVE EventFits(f)'
    <3>1. CASE f = e
      <4>1. ASSUME NEW j \in 1..Len(conns), j > i PROVE got[conns[j]][e] = 0
        BY <1>0, <2>1, <2>4, <4>1 DEF EventFits
      <4>2. ASSUME e \notin disturbed, NEW j \in 1..Len(conns), j <= i, Connected(conns[j])
            PROVE  got[conns[j]][e] = 1
        <5>1. j # i
          BY <2>1, <4>2 DEF Connected
        <5>2. j <= i - 1
          BY <4>2, <5>1
        <5> QED
          BY <1>0, <2>1, <2>4, <4>2, <5>2 DEF EventFits
      <4> QED
        BY <2>0, <2>1, <2>3, <2>4, <3>1, <4>1, <4>2 DEF EventFits, Connected
    <3>2. CASE f # e
      BY <1>0, <2>0, <2>3, <3>2 DEF EventFits, Served, Connected
    <3> QED
      BY <3>1, <3>2
  <2> QED
    BY <2>5, <2>6, <2>7 DEF HubInv
<1>5. CASE Sweep(e)
  <2>0. /\ client' = client /\ audience' = audience /\ got' = got /\ overtaken' = overtaken
        /\ conns' = Without(pub[e].dead)
        /\ pub' = [pub EXCEPT ![e] = [at |-> "done", i |-> 1, dead |-> {}]]
        /\ pub[e].at = "next" /\ pub[e].i > Len(conns)
    BY <1>5 DEF Sweep
  <2>1. [at |-> "done", i |-> 1, dead |-> {}] \in Pub
    OBVIOUS
  <2>2. /\ pub' \in [Event -> Pub] /\ pub'[e] = [at |-> "done", i |-> 1, dead |-> {}]
        /\ \A f \in Event : f # e => pub'[f] = pub[f]
    BY <1>0, <2>0, <2>1 DEF HubTyped
  <2>3. ASSUME NEW c \in audience[e], e \notin disturbed, Connected(c) PROVE got[c][e] = 1
    <3>1. c \in Client
      BY <1>0, <2>3 DEF HubTyped
    <3>2. PICK j \in 1..Len(conns) : conns[j] = c
      BY <1>0, <2>3, <3>1 DEF ClientFits
    <3>3. j <= Served(e)
      BY <1>0, <2>0 DEF Served
    <3> QED
      BY <1>0, <2>0, <2>3, <3>2, <3>3 DEF EventFits
  <2>4. CASE conns' # conns
    <3>1. disturbed' = disturbed \cup (Publishing \ {e})
      BY <1>5, <2>4 DEF Sweep
    <3>2. \A f \in Event : \/ pub'[f] = pub[f] /\ (f \in Publishing => f \in disturbed')
                           \/ /\ pub'[f] = [at |-> "done", i |-> 1, dead |-> {}]
                              /\ \A c \in audience[f] :
                                    f \notin disturbed /\ Connected(c) => got[c][f] = 1
      BY <2>2, <2>3, <3>1
    <3>3. \A c \in Client : c \in pub[e].dead => ~Connected(c)'
      BY <1>0, <2>0 DEF ClientFits, Connected
    <3>4. Waits' = Waits /\ \A d \in Client : Connected(d)' <=> Connected(d)
      BY <2>0 DEF Waits, Connected
    <3>5. DOMAIN client' = Client /\ disturbed \subseteq disturbed'
      BY <1>0, <2>0, <3>1 DEF HubTyped
    <3> QED
      BY <2>0, <2>2, <2>4, <3>2, <3>3, <3>4, <3>5, RemovalKeeps
  <2>5. CASE conns' = conns
    <3>1. disturbed' = disturbed
      BY <1>5, <2>5 DEF Sweep
    <3>2. HubTyped' /\ RoomFits'
      BY <1>0, <2>0, <2>2, <2>5 DEF HubTyped, RoomFits, Waits
    <3>3. ASSUME NEW d \in Client PROVE ClientFits(d)'
      <4>1. \A f \in Event : d \in pub'[f].dead => d \in pub[f].dead
        BY <2>2
      <4> QED
        BY <1>0, <2>0, <2>5, <4>1 DEF ClientFits, Connected
    <3>4. ASSUME NEW f \in Event PROVE EventFits(f)'
      <4>1. CASE f = e
        <5>1. pub'[e].at = "done"
          BY <2>2
        <5> QED
          BY <2>0, <2>3, <3>1, <4>1, <5>1 DEF EventFits, Connected
      <4>2. CASE f # e
        BY <1>0, <2>0, <2>2, <2>5, <3>1, <4>2 DEF EventFits, Served, Connected
      <4> QED
        BY <4>1, <4>2
    <3> QED
      BY <3>2, <3>3, <3>4 DEF HubInv
  <2> QED
    BY <2>4, <2>5
<1> QED
  BY <1>1, <1>2, <1>3, <1>4, <1>5

\* A client that was connected when an event was published and is connected
\* still has received it, unless another connection was removed from the list
\* meanwhile; no client receives an event twice; and there are no more
\* connections than the limit but for clients let in side by side: for any
\* clients, events and limit (server/ws.py).
THEOREM HubAlwaysServes == HubSpec => []HubServes
<1>1. HubInit => HubInv
  <2> SUFFICES ASSUME HubInit PROVE HubInv
    OBVIOUS
  <2>1. /\ <<>> \in Seq(Client) /\ Len(<<>>) = 0 /\ DOMAIN <<>> = {} /\ 1..0 = {}
        /\ IsFiniteSet({}) /\ Cardinality({}) = 0 /\ MaxConnections \in Nat
    BY FS_EmptySet, HubAssumption
  <2>2. HubTyped
    BY <2>1 DEF HubInit, HubTyped, IsInjective
  <2>3. Waits = {}
    BY DEF HubInit, Waits
  <2>4. RoomFits
    BY <2>1, <2>3 DEF HubInit, RoomFits
  <2>5. \A c \in Client : ClientFits(c)
    BY <2>1 DEF HubInit, ClientFits, Connected
  <2>6. \A e \in Event : EventFits(e)
    BY <2>1 DEF HubInit, EventFits
  <2> QED
    BY <2>2, <2>4, <2>5, <2>6 DEF HubInv
<1>2. HubInv /\ [HubNext]_hubVars => HubInv'
  <2>1. HubInv /\ UNCHANGED hubVars => HubInv'
    BY DEF hubVars, HubInv, HubTyped, RoomFits, ClientFits, EventFits, Connected, Waits, Served
  <2> QED
    BY <2>1, ClientKeeps, PublicationKeeps DEF HubNext
<1>3. HubInv => HubServes
  <2> SUFFICES ASSUME HubInv PROVE HubServes
    OBVIOUS
  <2>1. /\ \A c \in Client : \A e \in Event : got[c][e] <= 1
        /\ \A e \in Event : audience[e] \subseteq Client
    BY DEF HubInv, ClientFits, HubTyped
  <2>2. Len(conns) <= MaxConnections + Cardinality(overtaken)
    <3>1. /\ Len(conns) \in Nat /\ Cardinality(Waits) \in Nat /\ Cardinality(overtaken) \in Nat
          /\ MaxConnections \in Nat
          /\ Len(conns) + Cardinality(Waits) <= MaxConnections + Cardinality(overtaken)
      BY HubAssumption, FS_CardinalityType DEF HubInv, HubTyped, RoomFits
    <3> QED
      BY <3>1
  <2> QED
    BY <2>1, <2>2 DEF HubInv, EventFits, HubServes, Connected
<1> QED
  BY <1>1, <1>2, <1>3, PTL DEF HubSpec

-----------------------------------------------------------------------------
(* Engines.  What a driver is told is settled when it is made; what a chain *)
(* gives is not: EnginesFit needs what the attempts before have left.       *)

BackendOf == Profiles \cup {NoProfile}
DriverOf == [engine : Engine, profile : Profiles, models : Seq(Model)]
Slot == [backend : BackendOf, models : Seq(Model), driver : DriverOf \cup {NoDriver}]

\* A driver is made of a backend.
SlotFits(slot) == slot.driver # NoDriver => slot.backend # NoProfile

DriverFits(r, d) ==
  /\ d.profile = held[r][d.engine]
  /\ d.profile.model # NoModel => d.models # <<>> /\ Last(d.models) = d.profile.model
  /\ d.profile.provider # "cli" \/ d.profile.command => d.models = OwnModels(d.profile)

EnginesTyped ==
  /\ world \in Worlds /\ profileOf \in Configuration /\ command \in Seq(Model)
  /\ building \in [BuildRun -> {"idle", "building", "built", "failed"}]
  /\ held \in [BuildRun -> Configuration]
  /\ drivers \in [BuildRun -> Seq(DriverOf)]
  /\ pool \in [Engine -> Slot]
  /\ edits \in 0..MaxEdits /\ calls \in 0..MaxCalls

EnginesInv ==
  /\ EnginesTyped
  /\ \A e \in Engine : SlotFits(pool[e])
  /\ \A r \in BuildRun : building[r] = "idle" => drivers[r] = <<>>
  /\ \A r \in BuildRun : \A i \in 1..Len(drivers[r]) : DriverFits(r, drivers[r][i])
  /\ ResolvedInOrder /\ ListedAsMerged

\* What the command becomes, and what a backend keeps of it.
LEMMA ModelsFit ==
  ASSUME NEW p \in Profiles, NEW line \in Seq(Model)
  PROVE  /\ Extend(p, line) \in Seq(Model)
         /\ BackendModels(p, Extend(p, line)) \in Seq(Model)
         /\ p.model # NoModel => /\ BackendModels(p, Extend(p, line)) # <<>>
                                 /\ Last(BackendModels(p, Extend(p, line))) = p.model
         /\ p.provider # "cli" \/ p.command =>
              BackendModels(p, Extend(p, line)) = OwnModels(p)
<1>1. /\ p.model \in Model \cup {NoModel} /\ OwnModels(p) \in Seq(Model)
      /\ p.model # NoModel => OwnModels(p) = <<p.model>>
  BY ProfileAssumption DEF Profile, OwnModels
<1>2. CASE p.provider = "cli" /\ ~p.command
  <2>1. Extend(p, line) = line \o OwnModels(p)
    BY <1>2 DEF Extend
  <2>2. BackendModels(p, Extend(p, line)) = line \o OwnModels(p)
    BY <1>2, <2>1 DEF BackendModels
  <2>3. line \o OwnModels(p) \in Seq(Model)
    BY <1>1
  <2>4. ASSUME p.model # NoModel
        PROVE  line \o OwnModels(p) # <<>> /\ Last(line \o OwnModels(p)) = p.model
    <3>1. PICK all : all = line \o <<p.model>>
      OBVIOUS
    <3>2. Len(all) = Len(line) + 1 /\ all[Len(line) + 1] = p.model /\ Len(line) \in Nat
      BY <3>1
    <3>3. all # <<>>
      BY <3>2
    <3> QED
      BY <1>1, <2>4, <3>1, <3>2, <3>3 DEF Last
  <2> QED
    BY <1>2, <2>1, <2>2, <2>3, <2>4
<1>3. CASE ~(p.provider = "cli" /\ ~p.command)
  <2>1. Extend(p, line) = line /\ BackendModels(p, Extend(p, line)) = OwnModels(p)
    BY <1>3 DEF Extend, BackendModels
  <2>2. p.model # NoModel => <<p.model>> # <<>> /\ Last(<<p.model>>) = p.model
    BY DEF Last
  <2> QED
    BY <1>1, <2>1, <2>2
<1> QED
  BY <1>2, <1>3

LEMMA EnginesStart == EnginesInit => EnginesInv
<1> SUFFICES ASSUME EnginesInit PROVE EnginesInv
  OBVIOUS
<1>1. Unresolved \in Slot /\ SlotFits(Unresolved)
  BY DEF Unresolved, Slot, BackendOf, SlotFits
<1>2. /\ <<>> \in Seq(DriverOf) /\ <<>> \in Seq(Model)
      /\ [e \in Engine |-> NoProfile] \in Configuration
  BY DEF Configuration
<1>3. EnginesTyped
  BY <1>1, <1>2, ProfileAssumption DEF EnginesInit, EnginesTyped
<1>4. ResolvedInOrder /\ ListedAsMerged
  BY DEF EnginesInit, ResolvedInOrder, ListedAsMerged, NoAnswer
<1> QED
  BY <1>1, <1>3, <1>4 DEF EnginesInit, EnginesInv

\* The steps of the runs.
LEMMA BuildingKeeps ==
  ASSUME EnginesInv, NEW r \in BuildRun, StartBuilding(r) \/ FreshDriver(r) \/ Built(r)
  PROVE  EnginesInv'
<1>0. /\ EnginesTyped /\ \A q \in BuildRun : building[q] = "idle" => drivers[q] = <<>>
      /\ \A q \in BuildRun : \A i \in 1..Len(drivers[q]) : DriverFits(q, drivers[q][i])
      /\ \A e \in Engine : SlotFits(pool[e])
      /\ UNCHANGED <<world, profileOf, pool, edits, calls>> /\ answer' = NoAnswer
      /\ \A q \in BuildRun : Len(drivers[q]) \in Nat
  BY DEF EnginesInv, EnginesTyped, StartBuilding, FreshDriver, Built, Apart
<1>1. ResolvedInOrder' /\ ListedAsMerged'
  BY <1>0 DEF ResolvedInOrder, ListedAsMerged, NoAnswer
<1>2. CASE StartBuilding(r)
  <2>1. /\ building[r] = "idle" /\ building' = [building EXCEPT ![r] = "building"]
        /\ held' = [held EXCEPT ![r] = profileOf] /\ command' = command /\ drivers' = drivers
    BY <1>2 DEF StartBuilding
  <2>2. EnginesTyped'
    BY <1>0, <2>1 DEF EnginesTyped
  <2>3. ASSUME NEW q \in BuildRun, NEW i \in 1..Len(drivers[q]) PROVE DriverFits(q, drivers[q][i])'
    <3>1. q # r
      BY <1>0, <2>1, <2>3
    <3>2. held'[q] = held[q]
      BY <1>0, <2>1, <3>1 DEF EnginesTyped
    <3> QED
      BY <1>0, <2>1, <2>3, <3>2 DEF DriverFits
  <2>4. \A q \in BuildRun : building'[q] = "idle" => drivers[q] = <<>>
    BY <1>0, <2>1 DEF EnginesTyped
  <2> QED
    BY <1>0, <1>1, <2>1, <2>2, <2>3, <2>4 DEF EnginesInv
<1>3. ASSUME held' = held, building' \in [BuildRun -> {"idle", "building", "built", "failed"}],
             \A q \in BuildRun : building'[q] = "idle" => building[q] = "idle",
             command' \in Seq(Model), drivers' = drivers
      PROVE  EnginesInv'
  <2>1. EnginesTyped'
    BY <1>0, <1>3 DEF EnginesTyped
  <2> QED
    BY <1>0, <1>1, <1>3, <2>1 DEF EnginesInv, DriverFits
<1>4. CASE Built(r)
  <2>1. /\ building' = [building EXCEPT ![r] = "built"]
        /\ command' = command /\ held' = held /\ drivers' = drivers
    BY <1>4 DEF Built
  <2> QED
    BY <1>0, <1>3, <2>1 DEF EnginesTyped
<1>5. CASE FreshDriver(r)
  <2>1. PICK e \in Engine : e = Wanted(r)
    <3>1. Len(drivers[r]) + 1 \in 1..Len(Asks)
      BY <1>0, <1>5, ProfileAssumption DEF FreshDriver
    <3>2. Asks[Len(drivers[r]) + 1] \in Engine \cup {NoEngine}
      BY <3>1, ProfileAssumption
    <3> QED
      BY <3>2, ProfileAssumption DEF Wanted
  <2>2. PICK p \in BackendOf : p = held[r][e]
    BY <1>0 DEF EnginesTyped, Configuration, BackendOf
  <2>3. held' = held /\ building[r] = "building"
    BY <1>5 DEF FreshDriver
  <2>4. CASE ~Mapped(p)
    <3>1. building' = [building EXCEPT ![r] = "failed"] /\ drivers' = drivers /\ command' = command
      BY <1>5, <2>1, <2>2, <2>4 DEF FreshDriver, Fails
    <3> QED
      BY <1>0, <1>3, <2>3, <3>1 DEF EnginesTyped
  <2>5. CASE Mapped(p)
    <3>0. p \in Profiles
      BY <2>2, <2>5 DEF Mapped, BackendOf
    <3>1. PICK models \in Seq(Model) :
             /\ models = BackendModels(p, Extend(p, command))
             /\ p.model # NoModel => models # <<>> /\ Last(models) = p.model
             /\ p.provider # "cli" \/ p.command => models = OwnModels(p)
      BY <1>0, <3>0, ModelsFit DEF EnginesTyped
    <3>2. command' = Extend(p, command) /\ command' \in Seq(Model)
      BY <1>0, <1>5, <2>1, <2>2, <2>5, <3>0, ModelsFit DEF FreshDriver, EnginesTyped
    <3>3. CASE Makes(p)
      <4>1. PICK d \in DriverOf : d = Driver(e, p, models)
        BY <3>0 DEF Driver, DriverOf
      <4>2. /\ drivers' = [drivers EXCEPT ![r] = Append(drivers[r], d)]
            /\ building' = building
        BY <1>5, <2>1, <2>2, <2>5, <3>1, <3>2, <3>3, <4>1 DEF FreshDriver
      <4>3. PICK built \in Seq(DriverOf) :
               /\ built = Append(drivers[r], d) /\ Len(built) = Len(drivers[r]) + 1
               /\ \A i \in 1..Len(built) : \/ i \in 1..Len(drivers[r]) /\ built[i] = drivers[r][i]
                                           \/ built[i] = d
        <5>1. PICK s \in Seq(DriverOf) : s = drivers[r]
          BY <1>0 DEF EnginesTyped
        <5>2. /\ Append(s, d) \in Seq(DriverOf) /\ Len(Append(s, d)) = Len(s) + 1
              /\ \A i \in 1..Len(s) : Append(s, d)[i] = s[i]
              /\ Append(s, d)[Len(s) + 1] = d /\ Len(s) \in Nat
          <6> HIDE DEF DriverOf
          <6> QED
            OBVIOUS
        <5>3. PICK t \in Seq(DriverOf) : t = Append(s, d) /\ Len(t) = Len(s) + 1
          BY <5>2
        <5>4. \A i \in 1..Len(t) : i \in 1..Len(s) \/ i = Len(s) + 1
          BY <5>2, <5>3
        <5> QED
          BY <5>1, <5>2, <5>3, <5>4
      <4>4. /\ drivers' \in [BuildRun -> Seq(DriverOf)] /\ drivers'[r] = built
            /\ \A q \in BuildRun : q # r => drivers'[q] = drivers[q]
        BY <1>0, <4>2, <4>3 DEF EnginesTyped
      <4>5. DriverFits(r, d)
        BY <2>2, <3>1, <4>1 DEF DriverFits, Driver
      <4>6. ASSUME NEW q \in BuildRun, NEW i \in 1..Len(drivers'[q])
            PROVE  DriverFits(q, drivers'[q][i])
        <5>1. CASE q = r
          BY <1>0, <4>3, <4>4, <4>5, <4>6, <5>1
        <5>2. CASE q # r
          BY <1>0, <4>4, <4>6, <5>2
        <5> QED
          BY <5>1, <5>2
      <4>7. EnginesTyped'
        BY <1>0, <2>3, <3>2, <4>2, <4>4 DEF EnginesTyped
      <4>8. \A q \in BuildRun : \A i \in 1..Len(drivers'[q]) : DriverFits(q, drivers[q][i])'
        BY <2>3, <4>6 DEF DriverFits
      <4> QED
        BY <1>0, <1>1, <2>3, <4>2, <4>4, <4>7, <4>8 DEF EnginesInv
    <3>4. CASE ~Makes(p)
      <4>1. building' = [building EXCEPT ![r] = "failed"] /\ drivers' = drivers
        BY <1>5, <2>1, <2>2, <2>5, <3>4 DEF FreshDriver, Fails
      <4> QED
        BY <1>0, <1>3, <2>3, <3>2, <4>1 DEF EnginesTyped
    <3> QED
      BY <3>3, <3>4
  <2> QED
    BY <2>4, <2>5
<1> QED
  BY <1>2, <1>4, <1>5

-----------------------------------------------------------------------------
\* What an attempt to resolve leaves: the engine has given its driver or cannot
\* give one, however often it is asked.
Attempt == [pool : [Engine -> Slot], command : Seq(Model), got : Engine \cup {NoEngine}]

Sound(s) == s \in Attempt /\ \A e \in Engine : SlotFits(s.pool[e])

Stuck(e, slot) ==
  \/ profileOf[e] = NoProfile
  \/ slot.driver = NoDriver /\ IF slot.backend = NoProfile THEN ~Mapped(profileOf[e])
                               ELSE ~Makes(slot.backend)

Able(e, slot) == profileOf[e] # NoProfile /\ slot.driver # NoDriver

LEMMA BackendAdded ==
  ASSUME EnginesTyped, NEW s, Sound(s), s.got = NoEngine, NEW e \in Engine,
         profileOf[e] # NoProfile, s.pool[e].backend = NoProfile => Mapped(profileOf[e])
  PROVE  LET t == AddBackend(e, s) IN
         /\ Sound(t) /\ t.got = NoEngine /\ t.pool[e].backend \in Profiles
         /\ \A f \in Engine : f # e => t.pool[f] = s.pool[f]
         /\ t.pool[e].driver = s.pool[e].driver
         /\ s.pool[e].backend # NoProfile => t.pool[e].backend = s.pool[e].backend
<1>0. /\ s \in Attempt /\ s.pool \in [Engine -> Slot] /\ s.command \in Seq(Model)
      /\ s.pool[e] \in Slot /\ \A f \in Engine : SlotFits(s.pool[f])
      /\ profileOf[e] \in Profiles
  BY DEF Sound, Attempt, EnginesTyped, Configuration
<1>1. CASE s.pool[e].backend # NoProfile
  BY <1>0, <1>1 DEF AddBackend, Slot, BackendOf
<1>2. CASE s.pool[e].backend = NoProfile
  <2>1. PICK p \in Profiles : p = profileOf[e]
    BY <1>0
  <2>2. PICK line \in Seq(Model) : line = Extend(p, s.command)
    BY <1>0, ModelsFit
  <2>3. PICK models \in Seq(Model) : models = BackendModels(p, line)
    BY <1>0, <2>2, ModelsFit
  <2>4. PICK added : added = [backend |-> p, models |-> models, driver |-> NoDriver]
    OBVIOUS
  <2>12. added \in Slot /\ added.backend = p /\ added.driver = NoDriver
    BY <2>4 DEF Slot, BackendOf
  <2>5. PICK q : q = [s.pool EXCEPT ![e] = added]
    OBVIOUS
  <2>13. /\ q \in [Engine -> Slot] /\ q[e] = added
         /\ \A f \in Engine : f # e => q[f] = s.pool[f]
    <3>1. PICK old \in [Engine -> Slot] : old = s.pool
      BY <1>0
    <3> QED
      BY <2>5, <2>12, <3>1
  <2>6. AddBackend(e, s) = [s EXCEPT !.command = line, !.pool = q]
    BY <1>2, <2>1, <2>2, <2>3, <2>4, <2>5 DEF AddBackend
  <2>7. PICK t : t = [s EXCEPT !.command = line, !.pool = q]
    OBVIOUS
  <2>8. t \in Attempt /\ t.pool = q /\ t.got = NoEngine
    BY <1>0, <2>7, <2>13 DEF Attempt
  <2>9. s.pool[e].driver = NoDriver
    BY <1>0, <1>2 DEF SlotFits
  <2>10. \A f \in Engine : SlotFits(q[f])
    BY <1>0, <2>12, <2>13 DEF SlotFits
  <2>11. Sound(t)
    BY <2>8, <2>10 DEF Sound
  <2> QED
    BY <1>2, <2>6, <2>7, <2>8, <2>9, <2>11, <2>12, <2>13
<1> QED
  BY <1>1, <1>2

LEMMA DriverGot ==
  ASSUME EnginesTyped, NEW s, Sound(s), s.got = NoEngine, NEW e \in Engine,
         s.pool[e].backend \in Profiles
  PROVE  LET t == GetDriver(e, s) IN
         /\ Sound(t) /\ t.got = NoEngine /\ t.pool[e].backend = s.pool[e].backend
         /\ \A f \in Engine : f # e => t.pool[f] = s.pool[f]
         /\ t.pool[e].driver = NoDriver =>
              s.pool[e].driver = NoDriver /\ ~Makes(s.pool[e].backend)
         /\ s.pool[e].driver = NoDriver /\ ~Makes(s.pool[e].backend) =>
              t.pool[e].driver = NoDriver
<1>0. /\ s \in Attempt /\ s.pool \in [Engine -> Slot] /\ s.pool[e] \in Slot
      /\ \A f \in Engine : SlotFits(s.pool[f])
  BY DEF Sound, Attempt
<1>1. CASE s.pool[e].driver # NoDriver \/ ~Makes(s.pool[e].backend)
  <2>1. GetDriver(e, s) = s
    BY <1>1 DEF GetDriver
  <2> QED
    BY <1>1, <2>1
<1>2. CASE s.pool[e].driver = NoDriver /\ Makes(s.pool[e].backend)
  <2>1. PICK kept \in Slot : kept = s.pool[e] /\ kept.backend \in Profiles
    BY <1>0
  <2>2. PICK d \in DriverOf : d = Driver(e, kept.backend, kept.models)
    BY <2>1 DEF Driver, DriverOf, Slot
  <2>3. d # NoDriver
    BY ProfileAssumption DEF DriverOf
  <2>4. PICK made : made = [kept EXCEPT !.driver = d]
    OBVIOUS
  <2>12. made \in Slot /\ made.driver = d /\ made.backend = kept.backend
    BY <2>1, <2>4 DEF Slot
  <2>5. PICK q : q = [s.pool EXCEPT ![e] = made]
    OBVIOUS
  <2>13. /\ q \in [Engine -> Slot] /\ q[e] = made
         /\ \A f \in Engine : f # e => q[f] = s.pool[f]
    <3>1. PICK old \in [Engine -> Slot] : old = s.pool
      BY <1>0
    <3> QED
      BY <2>5, <2>12, <3>1
  <2>6. GetDriver(e, s) = [s EXCEPT !.pool = q]
    BY <1>2, <2>1, <2>2, <2>4, <2>5 DEF GetDriver
  <2>7. PICK t : t = [s EXCEPT !.pool = q]
    OBVIOUS
  <2>8. t \in Attempt /\ t.pool = q /\ t.got = NoEngine
    BY <1>0, <2>7, <2>13 DEF Attempt
  <2>9. kept.backend # NoProfile
    BY <2>1, ProfileAssumption
  <2>10. \A f \in Engine : SlotFits(q[f])
    BY <1>0, <2>9, <2>12, <2>13 DEF SlotFits
  <2>11. Sound(t)
    BY <2>8, <2>10 DEF Sound
  <2> QED
    BY <1>2, <2>1, <2>3, <2>6, <2>7, <2>8, <2>11, <2>12, <2>13
<1> QED
  BY <1>1, <1>2

\* One engine is asked.
LEMMA ResolvedFits ==
  ASSUME EnginesTyped, NEW s, Sound(s), s.got = NoEngine, NEW e \in Engine
  PROVE  LET t == Resolved(e, s) IN
         /\ Sound(t) /\ \A f \in Engine : f # e => t.pool[f] = s.pool[f]
         /\ \/ t.got = NoEngine /\ Stuck(e, t.pool[e])
            \/ t.got = e /\ Able(e, t.pool[e]) /\ ~Stuck(e, s.pool[e])
<1>0. s \in Attempt /\ s.pool[e] \in Slot /\ SlotFits(s.pool[e])
  BY DEF Sound, Attempt
<1>1. CASE profileOf[e] = NoProfile
  BY <1>1 DEF Resolved, Stuck
<1>2. CASE profileOf[e] # NoProfile /\ s.pool[e].backend = NoProfile /\ ~Mapped(profileOf[e])
  <2>1. Resolved(e, s) = s
    BY <1>2 DEF Resolved
  <2> QED
    BY <1>0, <1>2, <2>1 DEF Stuck, SlotFits
<1>3. CASE profileOf[e] # NoProfile /\ (s.pool[e].backend = NoProfile => Mapped(profileOf[e]))
  <2>1. PICK t : t = AddBackend(e, s)
    OBVIOUS
  <2>2. /\ Sound(t) /\ t.got = NoEngine /\ t.pool[e].backend \in Profiles
        /\ \A f \in Engine : f # e => t.pool[f] = s.pool[f]
        /\ t.pool[e].driver = s.pool[e].driver
        /\ s.pool[e].backend # NoProfile => t.pool[e].backend = s.pool[e].backend
    BY <1>3, <2>1, BackendAdded
  <2>3. PICK u : u = GetDriver(e, t)
    OBVIOUS
  <2>4. /\ Sound(u) /\ u.got = NoEngine /\ u.pool[e].backend = t.pool[e].backend
        /\ \A f \in Engine : f # e => u.pool[f] = t.pool[f]
        /\ u.pool[e].driver = NoDriver =>
             t.pool[e].driver = NoDriver /\ ~Makes(t.pool[e].backend)
        /\ t.pool[e].driver = NoDriver /\ ~Makes(t.pool[e].backend) =>
             u.pool[e].driver = NoDriver
    BY <2>2, <2>3, DriverGot
  <2>5. Resolved(e, s) =
          [u EXCEPT !.got = IF u.pool[e].driver = NoDriver THEN u.got ELSE e]
    BY <1>3, <2>1, <2>3 DEF Resolved
  <2>6. PICK v : v = [u EXCEPT !.got = IF u.pool[e].driver = NoDriver THEN u.got ELSE e]
    OBVIOUS
  <2>7. /\ v \in Attempt /\ v.pool = u.pool
        /\ v.got = IF u.pool[e].driver = NoDriver THEN NoEngine ELSE e
    BY <2>4, <2>6 DEF Sound, Attempt
  <2>8. Sound(v)
    BY <2>4, <2>7 DEF Sound
  <2>9. \A f \in Engine : f # e => v.pool[f] = s.pool[f]
    BY <2>2, <2>4, <2>7
  <2>10. u.pool[e].backend # NoProfile /\ t.pool[e].backend # NoProfile
    BY <2>2, <2>4, ProfileAssumption
  <2>11. CASE u.pool[e].driver = NoDriver
    <3>1. v.got = NoEngine /\ Stuck(e, v.pool[e])
      BY <2>4, <2>7, <2>10, <2>11 DEF Stuck
    <3> QED
      BY <2>5, <2>6, <2>8, <2>9, <3>1
  <2>12. CASE u.pool[e].driver # NoDriver
    <3>1. v.got = e /\ Able(e, v.pool[e])
      BY <1>3, <2>7, <2>12 DEF Able
    <3>2. ~(t.pool[e].driver = NoDriver /\ ~Makes(t.pool[e].backend))
      BY <2>4, <2>12
    <3>3. ~Stuck(e, s.pool[e])
      BY <1>3, <2>2, <3>2 DEF Stuck
    <3> QED
      BY <2>5, <2>6, <2>8, <2>9, <3>1, <3>3
  <2> QED
    BY <2>11, <2>12
<1> QED
  BY <1>1, <1>2, <1>3

\* The chain as far as its engines have been tried.
TriedUpTo(chain, m, g) ==
  g = [i \in 0..m |-> IF i = 0 THEN Untried
                      ELSE IF g[i - 1].got = NoEngine THEN Resolved(chain[i], g[i - 1])
                      ELSE g[i - 1]]

LEMMA TriedExists ==
  ASSUME NEW chain, NEW m \in Nat
  PROVE  \E g : TriedUpTo(chain, m, g)
<1> DEFINE S == {n \in 0..m : \E g : TriedUpTo(chain, n, g)}
<1>1. 0 \in S
  <2>1. TriedUpTo(chain, 0, [i \in 0..0 |-> Untried])
    BY DEF TriedUpTo
  <2> QED
    BY <2>1
<1>2. ASSUME NEW n \in 0..(m - 1), n \in S PROVE n + 1 \in S
  <2>1. PICK g : TriedUpTo(chain, n, g)
    BY <1>2
  <2>2. PICK next : next = IF g[n].got = NoEngine THEN Resolved(chain[n + 1], g[n]) ELSE g[n]
    OBVIOUS
  <2>3. PICK h : h = [i \in 0..(n + 1) |-> IF i = n + 1 THEN next ELSE g[i]]
    OBVIOUS
  <2>4. n \in Nat /\ n + 1 \in 0..m
    BY <1>2
  <2>5. \A i \in 0..n : g[i] = IF i = 0 THEN Untried
                               ELSE IF g[i - 1].got = NoEngine THEN Resolved(chain[i], g[i - 1])
                               ELSE g[i - 1]
    BY <2>1 DEF TriedUpTo
  <2>6. ASSUME NEW i \in 0..(n + 1)
        PROVE  h[i] = IF i = 0 THEN Untried
                      ELSE IF h[i - 1].got = NoEngine THEN Resolved(chain[i], h[i - 1])
                      ELSE h[i - 1]
    <3>1. CASE i = n + 1
      <4>1. h[i] = next /\ h[i - 1] = g[n] /\ i # 0
        BY <2>3, <2>4, <3>1
      <4> QED
        BY <2>2, <3>1, <4>1
    <3>2. CASE i # n + 1
      <4>1. i \in 0..n
        BY <2>4, <3>2
      <4>2. h[i] = g[i]
        BY <2>3, <3>2
      <4>3. i # 0 => h[i - 1] = g[i - 1]
        BY <2>3, <2>4, <4>1
      <4> QED
        BY <2>5, <4>1, <4>2, <4>3
    <3> QED
      BY <3>1, <3>2
  <2>7. h = [i \in 0..(n + 1) |-> h[i]]
    BY <2>3
  <2>8. TriedUpTo(chain, n + 1, h)
    BY <2>6, <2>7 DEF TriedUpTo
  <2> QED
    BY <2>4, <2>8
<1> HIDE DEF S
<1>3. 0..m \subseteq S
  BY <1>1, <1>2, StepByStep
<1> QED
  BY <1>3 DEF S

\* The first n engines of a chain are tried: those before the one that gave its
\* driver cannot give one.
ChainFits(chain, n, s) ==
  /\ Sound(s)
  /\ s.got = NoEngine => \A i \in 1..n : Stuck(chain[i], s.pool[chain[i]])
  /\ s.got # NoEngine => \E k \in 1..n : /\ s.got = chain[k] /\ Able(chain[k], s.pool[chain[k]])
                                         /\ \A i \in 1..(k - 1) : Stuck(chain[i], s.pool[chain[i]])

LEMMA NextTried ==
  ASSUME EnginesTyped, NEW chain \in Seq(Engine), NEW n \in 0..(Len(chain) - 1),
         NEW s, ChainFits(chain, n, s)
  PROVE  ChainFits(chain, n + 1, IF s.got = NoEngine THEN Resolved(chain[n + 1], s) ELSE s)
<1>0. /\ n \in Nat /\ \A i \in 1..(n + 1) : chain[i] \in Engine
      /\ 1..n \subseteq 1..(n + 1) /\ n + 1 \in 1..(n + 1) /\ 1..(n + 1 - 1) = 1..n
      /\ \A i \in 1..(n + 1) : i \in 1..n \/ i = n + 1
  OBVIOUS
<1>1. CASE s.got # NoEngine
  BY <1>0, <1>1 DEF ChainFits
<1>2. CASE s.got = NoEngine
  <2>1. PICK e \in Engine : e = chain[n + 1]
    BY <1>0
  <2>2. PICK t : t = Resolved(e, s)
    OBVIOUS
  <2>3. /\ Sound(t) /\ \A f \in Engine : f # e => t.pool[f] = s.pool[f]
        /\ \/ t.got = NoEngine /\ Stuck(e, t.pool[e])
           \/ t.got = e /\ Able(e, t.pool[e]) /\ ~Stuck(e, s.pool[e])
    BY <1>2, <2>2, ResolvedFits DEF ChainFits
  <2>4. \A i \in 1..n : Stuck(chain[i], s.pool[chain[i]])
    BY <1>2 DEF ChainFits
  <2>5. CASE t.got = NoEngine
    <3>1. Stuck(e, t.pool[e])
      BY <2>3, <2>5, ProfileAssumption
    <3>2. ASSUME NEW i \in 1..(n + 1) PROVE Stuck(chain[i], t.pool[chain[i]])
      <4>1. CASE chain[i] = e
        BY <3>1, <4>1
      <4>2. CASE chain[i] # e
        <5>1. i \in 1..n /\ t.pool[chain[i]] = s.pool[chain[i]]
          BY <1>0, <2>1, <2>3, <3>2, <4>2
        <5> QED
          BY <2>4, <5>1
      <4> QED
        BY <4>1, <4>2
    <3> QED
      BY <1>2, <2>1, <2>2, <2>3, <2>5, <3>2 DEF ChainFits
  <2>6. CASE t.got # NoEngine
    <3>1. t.got = e /\ Able(e, t.pool[e]) /\ ~Stuck(e, s.pool[e])
      BY <2>3, <2>6
    <3>2. ASSUME NEW i \in 1..n PROVE Stuck(chain[i], t.pool[chain[i]])
      <4>1. chain[i] # e /\ chain[i] \in Engine
        BY <1>0, <2>4, <3>1, <3>2
      <4> QED
        BY <2>3, <2>4, <3>2, <4>1
    <3>3. ChainFits(chain, n + 1, t)
      BY <1>0, <2>1, <2>3, <2>6, <3>1, <3>2 DEF ChainFits
    <3> QED
      BY <1>2, <2>1, <2>2, <3>3
  <2> QED
    BY <2>5, <2>6
<1> QED
  BY <1>1, <1>2

LEMMA TriedFits ==
  ASSUME EnginesTyped, \A e \in Engine : SlotFits(pool[e]), NEW chain \in Seq(Engine)
  PROVE  ChainFits(chain, Len(chain), AfterChain(chain))
<1>0. Len(chain) \in Nat
  OBVIOUS
<1> DEFINE g == CHOOSE f : TriedUpTo(chain, Len(chain), f)
<1>1. TriedUpTo(chain, Len(chain), g)
  BY <1>0, TriedExists
<1>2. AfterChain(chain) = g[Len(chain)]
  BY DEF AfterChain, TriedUpTo
<1> HIDE DEF g
<1>3. \A i \in 0..Len(chain) : g[i] = IF i = 0 THEN Untried
                                      ELSE IF g[i - 1].got = NoEngine
                                           THEN Resolved(chain[i], g[i - 1])
                                           ELSE g[i - 1]
  BY <1>1 DEF TriedUpTo
<1>4. ChainFits(chain, 0, g[0])
  <2>1. g[0] = Untried
    BY <1>0, <1>3
  <2>2. Untried \in Attempt /\ Untried.pool = pool /\ Untried.got = NoEngine
    BY DEF Untried, Attempt, EnginesTyped
  <2> QED
    BY <2>1, <2>2 DEF ChainFits, Sound
<1>5. ASSUME NEW n \in 0..(Len(chain) - 1), ChainFits(chain, n, g[n])
      PROVE  ChainFits(chain, n + 1, g[n + 1])
  <2>1. n + 1 \in 0..Len(chain) /\ n + 1 # 0 /\ (n + 1) - 1 = n
    BY <1>0
  <2>2. g[n + 1] = IF g[n].got = NoEngine THEN Resolved(chain[n + 1], g[n]) ELSE g[n]
    BY <1>3, <2>1
  <2>3. ChainFits(chain, n + 1, IF g[n].got = NoEngine THEN Resolved(chain[n + 1], g[n]) ELSE g[n])
    BY <1>5, NextTried
  <2> QED
    BY <2>2, <2>3
<1> DEFINE S == {n \in 0..Len(chain) : ChainFits(chain, n, g[n])}
<1>6. 0 \in S
  BY <1>0, <1>4
<1>7. \A n \in 0..(Len(chain) - 1) : n \in S => n + 1 \in S
  BY <1>0, <1>5
<1> HIDE DEF S
<1>8. 0..Len(chain) \subseteq S
  BY <1>0, <1>6, <1>7, StepByStep
<1>9. Len(chain) \in S
  BY <1>0, <1>8
<1> QED
  BY <1>2, <1>9 DEF S

\* The steps of the resolver.
LEMMA ResolverKeeps ==
  ASSUME EnginesInv, NEW e \in Engine, Resolve(e) \/ ResolveWithFallbacks(e)
  PROVE  EnginesInv'
<1>0. EnginesTyped /\ \A f \in Engine : SlotFits(pool[f])
  BY DEF EnginesInv
<1>1. ASSUME NEW s, Sound(s), Taken(s), ResolvedInOrder', ListedAsMerged' PROVE EnginesInv'
  <2>1. /\ UNCHANGED <<world, profileOf, building, held, drivers, edits>>
        /\ pool' = s.pool /\ command' = s.command /\ calls' = calls + 1 /\ calls < MaxCalls
        /\ pool' \in [Engine -> Slot] /\ command' \in Seq(Model)
        /\ \A f \in Engine : SlotFits(pool'[f])
    BY <1>1 DEF Taken, Sound, Attempt, Resolve, ResolveWithFallbacks
  <2>2. EnginesTyped'
    BY <1>0, <2>1, ProfileAssumption DEF EnginesTyped
  <2> QED
    BY <1>1, <2>1, <2>2 DEF EnginesInv, SlotFits, DriverFits
<1>2. CASE Resolve(e)
  <2>1. Untried \in Attempt /\ Untried.pool = pool /\ Untried.got = NoEngine
    BY <1>0 DEF Untried, Attempt, EnginesTyped
  <2>2. Sound(Untried)
    BY <1>0, <2>1 DEF Sound
  <2>3. Sound(Resolved(e, Untried))
    BY <1>0, <2>1, <2>2, ResolvedFits
  <2>4. ResolvedInOrder' /\ ListedAsMerged'
    BY <1>2 DEF Resolve, ResolvedInOrder, ListedAsMerged, NoAnswer
  <2> QED
    BY <1>1, <1>2, <2>3, <2>4 DEF Resolve
<1>3. CASE ResolveWithFallbacks(e)
  <2>1. PICK chain \in Seq(Engine) : chain = Chain(e)
    <3>1. profileOf[e] \in Profile
      BY <1>0, <1>3, ProfileAssumption DEF EnginesTyped, Configuration, ResolveWithFallbacks
    <3>2. profileOf[e].fallbacks \in Seq(Engine)
      BY <3>1 DEF Profile
    <3>3. PICK rest \in Seq(Engine) : rest = profileOf[e].fallbacks
      BY <3>2
    <3>4. <<e>> \o rest \in Seq(Engine)
      BY <3>3
    <3> QED
      BY <3>3, <3>4 DEF Chain
  <2>2. PICK s : s = AfterChain(chain)
    OBVIOUS
  <2>3. ChainFits(chain, Len(chain), s)
    BY <1>0, <2>2, TriedFits
  <2>4. /\ Taken(s) /\ answer' = [chain |-> chain, got |-> s.got, lists |-> {}]
        /\ pool' = s.pool /\ profileOf' = profileOf
    BY <1>3, <2>1, <2>2 DEF ResolveWithFallbacks, Taken
  <2>5. answer'.chain = chain /\ answer'.got = s.got /\ answer'.lists = {}
    BY <2>4
  <2>6. PICK able : able = {i \in 1..Len(chain) : Able(chain[i], s.pool[chain[i]])}
    OBVIOUS
  <2>7. s.got = IF able = {} THEN NoEngine ELSE chain[Min(able)]
    <3>0. /\ Len(chain) \in Nat /\ \A i \in 1..Len(chain) : chain[i] \in Engine
          /\ \A f, slot : Stuck(f, slot) => ~Able(f, slot)
      BY DEF Stuck, Able
    <3>1. CASE s.got = NoEngine
      BY <2>3, <2>6, <3>0, <3>1 DEF ChainFits
    <3>2. CASE s.got # NoEngine
      <4>1. PICK k \in 1..Len(chain) : /\ s.got = chain[k] /\ Able(chain[k], s.pool[chain[k]])
                                       /\ \A i \in 1..(k - 1) : Stuck(chain[i], s.pool[chain[i]])
        BY <2>3, <3>2 DEF ChainFits
      <4>2. k \in able /\ \A i \in able : k <= i
        BY <2>6, <3>0, <4>1
      <4>3. able \subseteq Nat
        BY <2>6
      <4>4. \A m \in able : (\A i \in able : m <= i) => m = k
        BY <4>2, <4>3
      <4>5. Min(able) = k
        BY <4>2, <4>4 DEF Min
      <4> QED
        BY <4>1, <4>2, <4>5
    <3> QED
      BY <3>1, <3>2
  <2>8. ResolvedInOrder'
    <3>1. DOMAIN chain = 1..Len(chain)
      OBVIOUS
    <3>2. able = {i \in DOMAIN answer'.chain : /\ profileOf'[answer'.chain[i]] # NoProfile
                                               /\ pool'[answer'.chain[i]].driver # NoDriver}
      BY <2>4, <2>5, <2>6, <3>1 DEF Able
    <3> QED
      BY <2>5, <2>7, <3>2 DEF ResolvedInOrder
  <2>9. ListedAsMerged'
    BY <2>5 DEF ListedAsMerged
  <2> QED
    BY <1>1, <2>3, <2>4, <2>8, <2>9 DEF ChainFits
<1> QED
  BY <1>2, <1>3

\* A list of the engines, whatever is set and whichever servers answer.
LEMMA ListsAgree ==
  ASSUME NEW set, NEW up
  PROVE  /\ ListAvailableEngines(set, up) = ResolveWithDiscovery(set, up)
         /\ GetEngines(set, up) = ResolveWithDiscovery(set, up)
         /\ \A entry \in EngineDiscover(set, up) :
               \/ entry.name \in DOMAIN Explicit
               \/ ResolveWithDiscovery(set, up)[entry.name] = entry.of
<1>1. PICK env : env = DiscoverFromEnv(set)
  OBVIOUS
<1>2. PICK local : local = DiscoverLocalServers(up)
  OBVIOUS
<1>3. PICK yaml : yaml = Explicit
  OBVIOUS
<1>4. /\ env = [n \in DOMAIN env |-> env[n]] /\ local = [n \in DOMAIN local |-> local[n]]
      /\ yaml = [n \in DOMAIN yaml |-> yaml[n]]
  BY <1>1, <1>2, <1>3 DEF DiscoverFromEnv, DiscoverLocalServers, Explicit
<1>5. \A n \in DOMAIN env : n \notin DOMAIN local
  <2>1. ASSUME NEW n \in DOMAIN env PROVE \E i \in DOMAIN EnvMappings : n = EnvMappings[i].engine
    BY <1>1, <2>1 DEF DiscoverFromEnv
  <2>2. DOMAIN local \subseteq LocalServers
    BY <1>2 DEF DiscoverLocalServers
  <2> QED
    BY <2>1, <2>2, ProfileAssumption
<1> DEFINE every == DOMAIN yaml \cup DOMAIN env \cup DOMAIN local
<1>6. ResolveWithDiscovery(set, up) =
        [n \in every |-> IF n \in DOMAIN yaml THEN yaml[n]
                         ELSE IF n \in DOMAIN env THEN env[n] ELSE local[n]]
  <2>1. DiscoverAll(set, up) = [n \in DOMAIN env \cup DOMAIN local |->
                                  IF n \in DOMAIN env THEN env[n] ELSE local[n]]
    BY <1>1, <1>2 DEF DiscoverAll, Overlaid
  <2>2. PICK found : found = DiscoverAll(set, up)
    OBVIOUS
  <2> QED
    BY <1>3, <2>1, <2>2 DEF ResolveWithDiscovery, Overlaid
<1>7. ListAvailableEngines(set, up) = ResolveWithDiscovery(set, up)
  <2>1. PICK over : over = Overlaid([n \in DOMAIN env |-> "env"], [n \in DOMAIN local |-> "local"])
    OBVIOUS
  <2>2. over = [n \in DOMAIN env \cup DOMAIN local |-> IF n \in DOMAIN env THEN "env" ELSE "local"]
    BY <2>1 DEF Overlaid
  <2>3. PICK all : all = Overlaid([n \in DOMAIN yaml |-> "yaml"], over)
    OBVIOUS
  <2>4. all = [n \in every |-> IF n \in DOMAIN yaml THEN "yaml"
                               ELSE IF n \in DOMAIN env THEN "env" ELSE "local"]
    BY <2>2, <2>3 DEF Overlaid
  <2>5. ListAvailableEngines(set, up) =
          [n \in DOMAIN all |-> IF all[n] = "yaml" THEN yaml[n]
                                ELSE IF all[n] = "env" THEN env[n] ELSE local[n]]
    BY <1>1, <1>2, <1>3, <2>1, <2>3 DEF ListAvailableEngines
  <2> QED
    BY <1>6, <2>4, <2>5
<1>8. GetEngines(set, up) = ResolveWithDiscovery(set, up)
  <2>1. PICK all : all = ResolveWithDiscovery(set, up)
    OBVIOUS
  <2>2. DOMAIN all = every /\ all = [n \in every |-> all[n]]
        /\ \A n \in DOMAIN yaml : all[n] = yaml[n]
    BY <1>6, <2>1
  <2>3. GetEngines(set, up) = Overlaid(yaml, [n \in DOMAIN all \ DOMAIN yaml |-> all[n]])
    BY <1>3, <1>7, <2>1 DEF GetEngines
  <2>4. PICK rest : rest = [n \in DOMAIN all \ DOMAIN yaml |-> all[n]]
    OBVIOUS
  <2>5. Overlaid(yaml, rest) = [n \in every |-> all[n]]
    BY <2>2, <2>4 DEF Overlaid
  <2> QED
    BY <2>1, <2>2, <2>3, <2>4, <2>5
<1>9. ASSUME NEW entry \in EngineDiscover(set, up), entry.name \notin DOMAIN Explicit
      PROVE  ResolveWithDiscovery(set, up)[entry.name] = entry.of
  <2>1. \/ entry.name \in DOMAIN local /\ entry.of = local[entry.name]
        \/ entry.name \in DOMAIN env /\ entry.of = env[entry.name]
    BY <1>1, <1>2, <1>9 DEF EngineDiscover
  <2> QED
    BY <1>3, <1>5, <1>6, <1>9, <2>1
<1> QED
  BY <1>7, <1>8, <1>9

LEMMA EnginesStep == EnginesInv /\ [EnginesNext]_engineVars => EnginesInv'
<1> SUFFICES ASSUME EnginesInv, [EnginesNext]_engineVars PROVE EnginesInv'
  OBVIOUS
<1>0. /\ EnginesTyped /\ \A e \in Engine : SlotFits(pool[e])
      /\ \A r \in BuildRun : building[r] = "idle" => drivers[r] = <<>>
      /\ \A r \in BuildRun : \A i \in 1..Len(drivers[r]) : DriverFits(r, drivers[r][i])
  BY DEF EnginesInv
<1>1. ASSUME NEW set, NEW up, ListEngines(set, up) PROVE EnginesInv'
  <2>1. /\ UNCHANGED <<world, profileOf, command, pool, building, held, drivers, edits>>
        /\ calls < MaxCalls /\ calls' = calls + 1
        /\ answer' = [NoAnswer EXCEPT !.lists =
              {[merged |-> ResolveWithDiscovery(set, up), shown |-> GetEngines(set, up),
                listed |-> ListAvailableEngines(set, up), found |-> EngineDiscover(set, up)]}]
    BY <1>1 DEF ListEngines
  <2>2. /\ answer'.chain = <<>> /\ answer'.got = NoEngine
        /\ answer'.lists =
              {[merged |-> ResolveWithDiscovery(set, up), shown |-> GetEngines(set, up),
                listed |-> ListAvailableEngines(set, up), found |-> EngineDiscover(set, up)]}
    BY <2>1 DEF NoAnswer
  <2>3. ListedAsMerged'
    <3>1. Explicit' = Explicit
      BY <2>1 DEF Explicit
    <3>2. ASSUME NEW list \in answer'.lists
          PROVE  /\ list.listed = list.merged /\ list.shown = list.merged
                 /\ \A entry \in list.found : \/ entry.name \in DOMAIN Explicit
                                              \/ list.merged[entry.name] = entry.of
      <4>1. /\ list.merged = ResolveWithDiscovery(set, up) /\ list.shown = GetEngines(set, up)
            /\ list.listed = ListAvailableEngines(set, up)
            /\ list.found = EngineDiscover(set, up)
        BY <2>2, <3>2
      <4> QED
        BY <4>1, ListsAgree
    <3> QED
      BY <3>1, <3>2 DEF ListedAsMerged
  <2>4. ResolvedInOrder'
    BY <2>2 DEF ResolvedInOrder
  <2>5. EnginesTyped'
    BY <1>0, <2>1, ProfileAssumption DEF EnginesTyped
  <2> QED
    BY <1>0, <2>1, <2>3, <2>4, <2>5 DEF EnginesInv, DriverFits
<1>2. ASSUME ConfigEdited PROVE EnginesInv'
  <2>1. /\ UNCHANGED <<world, command, pool, building, held, drivers, calls>>
        /\ edits < MaxEdits /\ edits' = edits + 1 /\ answer' = NoAnswer
        /\ profileOf' \in Configuration
    BY <1>0, <1>2 DEF ConfigEdited, EnginesTyped, Configuration
  <2>2. ResolvedInOrder' /\ ListedAsMerged'
    BY <2>1 DEF ResolvedInOrder, ListedAsMerged, NoAnswer
  <2>3. EnginesTyped'
    BY <1>0, <2>1, ProfileAssumption DEF EnginesTyped
  <2> QED
    BY <1>0, <2>1, <2>2, <2>3 DEF EnginesInv, DriverFits
<1>3. ASSUME UNCHANGED engineVars PROVE EnginesInv'
  <2>1. /\ UNCHANGED <<world, profileOf, command, pool, building, held, drivers, edits, calls>>
        /\ answer' = answer
    BY <1>3 DEF engineVars
  <2>2. ResolvedInOrder' /\ ListedAsMerged'
    BY <2>1 DEF EnginesInv, ResolvedInOrder, ListedAsMerged, Explicit
  <2>3. EnginesTyped'
    BY <1>0, <2>1 DEF EnginesTyped
  <2> QED
    BY <1>0, <2>1, <2>2, <2>3 DEF EnginesInv, DriverFits
<1> QED
  BY <1>1, <1>2, <1>3, BuildingKeeps, ResolverKeeps DEF EnginesNext

LEMMA EnginesSafe == EnginesSpec => []EnginesInv
  BY EnginesStart, EnginesStep, PTL DEF EnginesSpec

\* The types of what the builder of drivers and the resolver keep.
THEOREM EnginesAlwaysTyped == EnginesSpec => []EnginesTypeOK
<1>1. EnginesInv => EnginesTypeOK
  BY DEF EnginesInv, EnginesTyped, EnginesTypeOK
<1> QED
  BY <1>1, EnginesSafe, PTL

\* Whatever was built in the process before: a driver asks the model of its
\* profile; the engine that a chain gives is the first that has a driver; and
\* every list of engines, whatever is set and runs, agrees with the merge.
THEOREM EnginesAlwaysFit == EnginesSpec => []EnginesFit
<1>1. EnginesInv => EnginesFit
  <2> SUFFICES ASSUME EnginesInv PROVE EnginesFit
    OBVIOUS
  <2>1. \A r \in BuildRun : DOMAIN drivers[r] = 1..Len(drivers[r])
    BY DEF EnginesInv, EnginesTyped
  <2>2. OwnModelLast
    BY <2>1 DEF EnginesInv, OwnModelLast, DriverFits
  <2> QED
    BY <2>2 DEF EnginesInv, EnginesFit
<1> QED
  BY <1>1, EnginesSafe, PTL

-----------------------------------------------------------------------------
(* Runs as they are shown.                                                  *)

HistoryEntry ==
  [run : ShownRun, flow : ShownFlow, status : {"running", "completed", "failed"}]

\* What an entry says of a run that is where it is.
StatusOf(stage) == IF stage \in {"queued", "running"} THEN "running" ELSE stage

\* A run has one entry.
HistoryFits ==
  /\ \A i, j \in 1..Len(onDisplay) : onDisplay[i].run = onDisplay[j].run => i = j
  /\ \A i \in 1..Len(onDisplay) : onDisplay[i].status = StatusOf(behind[onDisplay[i].run])

ShownInv == ShownTypeOK /\ HistoryFits

\* update_run finds the entry of the run.
LEMMA EntryUpdated ==
  ASSUME onDisplay \in Seq(HistoryEntry), HistoryFits, NEW r \in ShownRun,
         NEW st \in {"completed", "failed"}
  PROVE  /\ UpdateRun(r, st) \in Seq(HistoryEntry) /\ Len(UpdateRun(r, st)) = Len(onDisplay)
         /\ \A i \in 1..Len(onDisplay) :
               /\ UpdateRun(r, st)[i].run = onDisplay[i].run
               /\ UpdateRun(r, st)[i].status = IF onDisplay[i].run = r THEN st
                                               ELSE onDisplay[i].status
<1> DEFINE I == {i \in 1..Len(onDisplay) : onDisplay[i].run = r}
<1>0. Len(onDisplay) \in Nat /\ \A i \in 1..Len(onDisplay) : onDisplay[i] \in HistoryEntry
  OBVIOUS
<1>1. UpdateRun(r, st) = IF (IF I # {} THEN Min(I) ELSE 0) = 0 THEN onDisplay
                         ELSE [onDisplay EXCEPT ![IF I # {} THEN Min(I) ELSE 0].status = st]
  BY DEF UpdateRun, SelectInSeq
<1>2. CASE I = {}
  BY <1>0, <1>1, <1>2
<1>3. CASE I # {}
  <2>1. PICK k \in 1..Len(onDisplay) : onDisplay[k].run = r
    BY <1>3
  <2>2. \A i \in 1..Len(onDisplay) : onDisplay[i].run = r => i = k
    BY <2>1 DEF HistoryFits
  <2>3. I = {k}
    BY <2>1, <2>2
  <2>4. Min({k}) = k
    BY DEF Min
  <2>11. (IF I # {} THEN Min(I) ELSE 0) = k /\ k # 0
    <3> HIDE DEF I
    <3> QED
      BY <1>3, <2>3, <2>4
  <2>5. UpdateRun(r, st) = [onDisplay EXCEPT ![k].status = st]
    <3> HIDE DEF I
    <3> QED
      BY <1>1, <2>11
  <2>6. PICK entry : entry = [onDisplay[k] EXCEPT !.status = st]
    OBVIOUS
  <2>7. entry \in HistoryEntry /\ entry.run = r /\ entry.status = st
    BY <1>0, <2>1, <2>6 DEF HistoryEntry
  <2>8. UpdateRun(r, st) = [onDisplay EXCEPT ![k] = entry]
    BY <2>5, <2>6
  <2>9. PICK new : new = [onDisplay EXCEPT ![k] = entry]
    OBVIOUS
  <2>10. /\ new \in Seq(HistoryEntry) /\ Len(new) = Len(onDisplay)
         /\ new[k] = entry /\ \A i \in 1..Len(onDisplay) : i # k => new[i] = onDisplay[i]
    <3> HIDE DEF HistoryEntry
    <3> QED
      BY <1>0, <2>7, <2>9
  <2> QED
    BY <2>1, <2>2, <2>7, <2>8, <2>9, <2>10
<1> QED
  BY <1>2, <1>3

LEMMA ShownStart == ShownInit => ShownInv
<1> SUFFICES ASSUME ShownInit PROVE ShownInv
  OBVIOUS
<1>1. onDisplay \in Seq(HistoryEntry) /\ records \in Seq(RunRecord) /\ cleaning \in Seq(ShownRun)
      /\ Len(onDisplay) = 0
  BY DEF ShownInit
<1> QED
  BY <1>1 DEF ShownInit, ShownInv, ShownTypeOK, HistoryFits, HistoryEntry

\* The steps of the embedded console.
LEMMA ShownKeeps == ShownInv /\ Shown => ShownInv'
<1> SUFFICES ASSUME ShownInv, Shown PROVE ShownInv'
  OBVIOUS
<1>0. /\ ShownTypeOK /\ HistoryFits /\ onDisplay \in Seq(HistoryEntry) /\ Len(onDisplay) \in Nat
      /\ \A i \in 1..Len(onDisplay) : onDisplay[i] \in HistoryEntry
  <2>1. ShownTypeOK /\ HistoryFits /\ onDisplay \in Seq(HistoryEntry)
    BY DEF ShownInv, ShownTypeOK, HistoryEntry
  <2> HIDE DEF HistoryEntry
  <2> QED
    BY <2>1
<1>1. ASSUME storeUnchanged, defined' \subseteq ShownFlow, onDisplay' \in Seq(HistoryEntry),
             behind' \in [ShownRun -> {"no", "queued", "running", "completed", "failed"}],
             HistoryFits'
      PROVE  ShownInv'
  BY <1>0, <1>1 DEF storeUnchanged, ShownInv, ShownTypeOK, HistoryEntry
<1>2. ASSUME NEW f \in ShownFlow, ConfigChanges(f) PROVE ShownInv'
  BY <1>0, <1>1, <1>2 DEF ConfigChanges, ShownTypeOK, HistoryFits
<1>3. ASSUME NEW r \in ShownRun, NEW f \in ShownFlow, TriggerRun(r, f) PROVE ShownInv'
  <2>0. PICK e : e = [run |-> r, flow |-> f, status |-> "running"]
    OBVIOUS
  <2>1. e \in HistoryEntry /\ e.run = r /\ e.status = "running"
    BY <2>0 DEF HistoryEntry
  <2>2. /\ onDisplay' = Append(onDisplay, e) /\ behind[r] = "no" /\ defined' = defined
        /\ behind' = [behind EXCEPT ![r] = "queued"] /\ storeUnchanged
    BY <1>3, <2>0 DEF TriggerRun
  <2>3. /\ onDisplay' \in Seq(HistoryEntry) /\ Len(onDisplay') = Len(onDisplay) + 1
        /\ \A i \in 1..Len(onDisplay) : onDisplay'[i] = onDisplay[i]
        /\ onDisplay'[Len(onDisplay) + 1] = e
        /\ \A i \in 1..(Len(onDisplay) + 1) : i \in 1..Len(onDisplay) \/ i = Len(onDisplay) + 1
    <3> HIDE DEF HistoryEntry
    <3> QED
      BY <1>0, <2>1, <2>2
  <2>4. \A i \in 1..Len(onDisplay) : onDisplay[i].run # r
    <3> SUFFICES ASSUME NEW i \in 1..Len(onDisplay), onDisplay[i].run = r PROVE FALSE
      OBVIOUS
    <3>1. onDisplay[i].status = "no"
      BY <1>0, <2>2 DEF HistoryFits, StatusOf
    <3>2. onDisplay[i].status \in {"running", "completed", "failed"}
      BY <1>0 DEF HistoryEntry
    <3> QED
      BY <3>1, <3>2
  <2>5. /\ behind' \in [ShownRun -> {"no", "queued", "running", "completed", "failed"}]
        /\ behind'[r] = "queued" /\ \A q \in ShownRun : q # r => behind'[q] = behind[q]
    BY <1>0, <2>2 DEF ShownTypeOK
  <2>6. \A i, j \in 1..Len(onDisplay') : onDisplay'[i].run = onDisplay'[j].run => i = j
    BY <1>0, <2>1, <2>3, <2>4 DEF HistoryFits
  <2>7. ASSUME NEW i \in 1..Len(onDisplay')
        PROVE  onDisplay'[i].status = StatusOf(behind'[onDisplay'[i].run])
    <3>1. CASE i \in 1..Len(onDisplay)
      <4>1. onDisplay[i].run \in ShownRun /\ onDisplay[i].run # r
        BY <1>0, <2>4, <3>1 DEF HistoryEntry
      <4> QED
        BY <1>0, <2>3, <2>5, <3>1, <4>1 DEF HistoryFits
    <3>2. CASE i = Len(onDisplay) + 1
      BY <2>1, <2>3, <2>5, <3>2 DEF StatusOf
    <3> QED
      BY <2>3, <2>7, <3>1, <3>2
  <2> QED
    BY <1>0, <1>1, <2>2, <2>3, <2>5, <2>6, <2>7 DEF ShownTypeOK, HistoryFits, StatusOf
<1>4. ASSUME NEW r \in ShownRun, behind[r] \in {"queued", "running"},
             NEW st \in {"completed", "failed"}, behind' = [behind EXCEPT ![r] = st],
             onDisplay' = UpdateRun(r, st), defined' = defined, storeUnchanged
      PROVE  ShownInv'
  <2>1. /\ behind' \in [ShownRun -> {"no", "queued", "running", "completed", "failed"}]
        /\ behind'[r] = st /\ \A q \in ShownRun : q # r => behind'[q] = behind[q]
    BY <1>0, <1>4 DEF ShownTypeOK
  <2>2. /\ onDisplay' \in Seq(HistoryEntry) /\ Len(onDisplay') = Len(onDisplay)
        /\ \A i \in 1..Len(onDisplay) :
              /\ onDisplay'[i].run = onDisplay[i].run
              /\ onDisplay'[i].status = IF onDisplay[i].run = r THEN st ELSE onDisplay[i].status
    BY <1>0, <1>4, EntryUpdated
  <2>3. ASSUME NEW i \in 1..Len(onDisplay')
        PROVE  onDisplay'[i].status = StatusOf(behind'[onDisplay'[i].run])
    <3>1. i \in 1..Len(onDisplay) /\ onDisplay[i].run \in ShownRun
          /\ onDisplay[i].status = StatusOf(behind[onDisplay[i].run])
      BY <1>0, <2>2, <2>3 DEF HistoryFits, HistoryEntry
    <3> QED
      BY <2>1, <2>2, <3>1 DEF StatusOf
  <2>4. \A i, j \in 1..Len(onDisplay') : onDisplay'[i].run = onDisplay'[j].run => i = j
    BY <1>0, <2>2 DEF HistoryFits
  <2> QED
    BY <1>0, <1>1, <1>4, <2>1, <2>2, <2>3, <2>4 DEF ShownTypeOK, HistoryFits, StatusOf
<1>5. ASSUME NEW r \in ShownRun, BeginRun(r) PROVE ShownInv'
  <2>1. CASE behind' = [behind EXCEPT ![r] = "running"] /\ UNCHANGED onDisplay
    <3>1. /\ behind[r] = "queued" /\ defined' = defined /\ storeUnchanged
          /\ behind' \in [ShownRun -> {"no", "queued", "running", "completed", "failed"}]
          /\ behind'[r] = "running" /\ \A q \in ShownRun : q # r => behind'[q] = behind[q]
      BY <1>0, <1>5, <2>1 DEF BeginRun, ShownTypeOK
    <3>2. ASSUME NEW i \in 1..Len(onDisplay)
          PROVE  onDisplay[i].status = StatusOf(behind'[onDisplay[i].run])
      <4>1. onDisplay[i].run \in ShownRun /\ onDisplay[i].status = StatusOf(behind[onDisplay[i].run])
        BY <1>0, <3>2 DEF HistoryFits, HistoryEntry
      <4> QED
        BY <3>1, <4>1 DEF StatusOf
    <3> QED
      BY <1>0, <1>1, <2>1, <3>1, <3>2 DEF ShownTypeOK, HistoryFits, StatusOf
  <2>2. CASE /\ behind' = [behind EXCEPT ![r] = "failed"]
             /\ onDisplay' = UpdateRun(r, "failed")
    BY <1>4, <1>5, <2>2 DEF BeginRun
  <2> QED
    BY <1>5, <2>1, <2>2 DEF BeginRun
<1>6. ASSUME NEW r \in ShownRun, NEW st \in {"completed", "failed"}, EndRun(r, st)
      PROVE  ShownInv'
  BY <1>4, <1>6 DEF EndRun
<1> QED
  BY <1>2, <1>3, <1>5, <1>6 DEF Shown

\* The record of a run is found where it is.
LEMMA RecordFound ==
  ASSUME records \in Seq(RunRecord), NEW r \in ShownRun, Here(r)
  PROVE  At(r) \in 1..Len(records) /\ records[At(r)] \in RunRecord /\ records[At(r)].run = r
<1> DEFINE I == {i \in 1..Len(records) : records[i].run = r}
<1>1. At(r) = IF I # {} THEN Min(I) ELSE 0
  BY DEF At, SelectInSeq
<1>2. I # {} /\ At(r) = Min(I) /\ I \in SUBSET Nat
  BY <1>1 DEF Here
<1>3. \E k \in I : \A i \in I : k <= i
  <2> HIDE DEF I
  <2> QED
    BY <1>2, LeastNumber
<1>4. Min(I) \in I
  <2> HIDE DEF I
  <2> QED
    BY <1>3 DEF Min
<1> QED
  BY <1>2, <1>4

LEMMA SavedTyped ==
  ASSUME records \in Seq(RunRecord), NEW e \in RunRecord
  PROVE  Saved(e) \in Seq(RunRecord)
<1>1. CASE database
  <2>1. PICK rest \in Seq(RunRecord) : rest = Besides(records, Of(e.run))
    BY BesidesKeeps DEF KeptFits
  <2>2. <<e>> \o rest \in Seq(RunRecord)
    <3> HIDE DEF RunRecord
    <3> QED
      OBVIOUS
  <2> QED
    BY <1>1, <2>1, <2>2 DEF Saved
<1>2. CASE ~database /\ Here(e.run)
  <2>1. At(e.run) \in 1..Len(records)
    BY <1>2, RecordFound DEF RunRecord
  <2>2. PICK i \in 1..Len(records) : i = At(e.run)
    BY <2>1
  <2>3. [records EXCEPT ![i] = e] \in Seq(RunRecord)
    OBVIOUS
  <2> QED
    BY <1>2, <2>2, <2>3 DEF Saved
<1>3. CASE ~database /\ ~Here(e.run)
  <2>1. Append(records, e) \in Seq(RunRecord)
    OBVIOUS
  <2> QED
    BY <1>3, <2>1 DEF Saved
<1> QED
  BY <1>1, <1>2, <1>3

\* The steps of the store.
LEMMA StoredKeeps == ShownInv /\ Stored => ShownInv'
<1> SUFFICES ASSUME ShownInv, Stored PROVE ShownInv'
  OBVIOUS
<1>0. ShownTypeOK /\ HistoryFits /\ records \in Seq(RunRecord) /\ cleaning \in Seq(ShownRun)
      /\ cancelling \subseteq RunRecord
  BY DEF ShownInv, ShownTypeOK
<1>1. ASSUME consoleUnchanged, records' \in Seq(RunRecord), cancelling' \subseteq RunRecord,
             cleaning' \in Seq(ShownRun)
      PROVE  ShownInv'
  BY <1>0, <1>1 DEF consoleUnchanged, ShownInv, ShownTypeOK, HistoryFits
<1>2. ASSUME NEW r \in ShownRun, NEW st \in Unended \cup Cleanable, NEW named \in BOOLEAN,
             SaveRun(r, st, named)
      PROVE  records' \in Seq(RunRecord)
  <2>1. PICK e \in RunRecord : e = [run |-> r, status |-> st, named |-> named]
    BY DEF RunRecord
  <2> QED
    BY <1>0, <1>2, <2>1, SavedTyped DEF SaveRun
<1>3. {"pending", "started", "resumed"} \subseteq Unended \cup Cleanable
      /\ "cancelled" \in Unended \cup Cleanable
  BY DEF Unended, Cleanable
<1>4. ASSUME NEW r \in ShownRun, CreateRun(r) \/ RunnerStarts(r) \/ MarkResumed(r)
      PROVE  ShownInv'
  BY <1>0, <1>1, <1>2, <1>3, <1>4 DEF CreateRun, RunnerStarts, MarkResumed
<1>5. ASSUME NEW r \in ShownRun, NEW st \in Cleanable, RunnerEnds(r, st) PROVE ShownInv'
  BY <1>0, <1>1, <1>2, <1>5 DEF RunnerEnds
<1>6. ASSUME NEW r \in ShownRun, CancelRead(r) PROVE ShownInv'
  <2>1. PICK e \in RunRecord : e = records[At(r)]
    BY <1>0, <1>6, RecordFound DEF CancelRead
  <2>2. e.named \in BOOLEAN
    BY DEF RunRecord
  <2> QED
    BY <1>0, <1>1, <1>2, <1>3, <1>6, <2>1, <2>2 DEF CancelRead
<1>7. ASSUME CancelWrite PROVE ShownInv'
  <2>1. PICK e \in cancelling : SaveRun(e.run, "cancelled", e.named)
    BY <1>7 DEF CancelWrite
  <2>2. e.run \in ShownRun /\ e.named \in BOOLEAN
    BY <1>0 DEF RunRecord
  <2> QED
    BY <1>0, <1>1, <1>2, <1>3, <1>7, <2>1, <2>2 DEF CancelWrite
<1>8. \A C : Besides(records, C) \in Seq(RunRecord)
  BY <1>0, BesidesKeeps DEF KeptFits
<1>9. ASSUME CleanSessions PROVE ShownInv'
  <2>1. PICK old \in Seq(RunRecord) :
          old = Besides(records, {e \in RunRecord : ~(e.status \in Cleanable /\ e.named)})
    BY <1>8
  <2>2. ToClean = [i \in 1..Len(old) |-> old[i].run]
    BY <2>1 DEF ToClean
  <2>3. ASSUME NEW i \in 1..Len(old) PROVE old[i].run \in ShownRun
    <3>1. old[i] \in RunRecord
      OBVIOUS
    <3> QED
      BY <3>1 DEF RunRecord
  <2>4. ToClean \in Seq(ShownRun)
    BY <2>2, <2>3
  <2> QED
    BY <1>0, <1>1, <1>8, <1>9, <2>4 DEF CleanSessions
<1>10. ASSUME CleanNext PROVE ShownInv'
  BY <1>0, <1>1, <1>8, <1>10 DEF CleanNext
<1> QED
  BY <1>4, <1>5, <1>6, <1>7, <1>9, <1>10 DEF Stored

LEMMA ShownSafe == ShownSpec => []ShownInv
<1>1. ShownInv /\ UNCHANGED shownVars => ShownInv'
  BY DEF shownVars, ShownInv, ShownTypeOK, HistoryFits
<1> QED
  BY <1>1, ShownStart, ShownKeeps, StoredKeeps, PTL DEF ShownSpec

\* The embedded console shows of every run whether it goes on and how it ended,
\* and no other run's end.
THEOREM RunsAreShown == ShownSpec => []RunsShown
<1>1. ShownInv => RunsShown
  <2> SUFFICES ASSUME ShownInv PROVE RunsShown
    OBVIOUS
  <2>1. /\ onDisplay \in Seq(HistoryEntry) /\ HistoryFits
    BY DEF ShownInv, ShownTypeOK, HistoryEntry
  <2>2. ToSet(onDisplay) = {onDisplay[i] : i \in 1..Len(onDisplay)}
    BY <2>1 DEF ToSet
  <2> QED
    BY <2>1, <2>2 DEF RunsShown, HistoryFits, StatusOf
<1> QED
  BY <1>1, ShownSafe, PTL

\* The types of what is shown and stored.
THEOREM ShownTyped == ShownSpec => []ShownTypeOK
<1>1. ShownInv => ShownTypeOK
  BY DEF ShownInv
<1> QED
  BY <1>1, ShownSafe, PTL

-----------------------------------------------------------------------------
(* The checkpoint of a run and its log.  RecordsAgree holds as long as a     *)
(* run has one writer at a time; how often it stops and who goes on in its   *)
(* place does not matter.                                                    *)

Row == [event : LogEvent, index : Nat]
Hand == [at : LogStage, step : 0..MaxSteps, left : Seq(LogEvent), seen : Nat]

Numbered(rs) == \A j \in 1..Len(rs) : rs[j].index = j - 1

LEMMA RowsHaveEvents ==
  ASSUME rows \in Seq(Row)
  PROVE  \A j \in 1..Len(rows) : rows[j].event \in LogEvent
<1>1. \A r \in Row : r.event \in LogEvent
  BY DEF Row
<1> HIDE DEF Row
<1>2. \A j \in 1..Len(rows) : rows[j] \in Row
  OBVIOUS
<1> QED
  BY <1>1, <1>2

\* Functions that compute their value at a number from the one before.
Stepwise(m, X, z, step, g) ==
  g \in [0..m -> X] /\ g[0] = z /\ \A i \in 1..m : g[i] = step[i][g[i - 1]]

LEMMA StepsExist ==
  ASSUME NEW m \in Nat, NEW X, NEW z \in X, NEW step \in [1..m -> [X -> X]]
  PROVE  \E g : Stepwise(m, X, z, step, g)
<1> DEFINE S == {n \in 0..m : \E g : Stepwise(n, X, z, step, g)}
<1> USE DEF Stepwise
<1>1. 0 \in S
  <2>1. PICK g : g = [i \in 0..0 |-> z]
    OBVIOUS
  <2>2. g \in [0..0 -> X] /\ g[0] = z /\ \A i \in 1..0 : g[i] = step[i][g[i - 1]]
    BY <2>1
  <2> QED
    BY <2>2
<1>2. ASSUME NEW n \in 0..(m - 1), n \in S PROVE n + 1 \in S
  <2>1. PICK g : Stepwise(n, X, z, step, g)
    BY <1>2
  <2>2. n \in Nat /\ n + 1 \in 1..m /\ n + 1 \in 0..m /\ g[n] \in X
    BY <2>1
  <2>3. PICK next \in X : next = step[n + 1][g[n]]
    BY <2>2
  <2>4. PICK h : h = [i \in 0..(n + 1) |-> IF i = n + 1 THEN next ELSE g[i]]
    OBVIOUS
  <2>5. h \in [0..(n + 1) -> X] /\ h[0] = z
    BY <2>1, <2>2, <2>4
  <2>6. ASSUME NEW i \in 1..(n + 1) PROVE h[i] = step[i][h[i - 1]]
    <3>1. CASE i = n + 1
      <4>1. h[i] = next /\ h[i - 1] = g[n]
        BY <2>2, <2>4, <3>1
      <4> QED
        BY <2>3, <3>1, <4>1
    <3>2. CASE i # n + 1
      <4>1. i \in 1..n /\ h[i] = g[i] /\ h[i - 1] = g[i - 1]
        BY <2>2, <2>4, <3>2
      <4> QED
        BY <2>1, <4>1
    <3> QED
      BY <3>1, <3>2
  <2> QED
    BY <2>2, <2>5, <2>6
<1> HIDE DEF S, Stepwise
<1>3. 0..m \subseteq S
  BY <1>1, <1>2, StepByStep
<1> QED
  BY <1>3 DEF S

\* The rows of one index are one row.
LEMMA OneRow ==
  ASSUME rows \in Seq(Row), Numbered(rows), NEW i \in 1..Len(rows)
  PROVE  AtIndex(i - 1) = <<rows[i].event>>
<1> DEFINE Found(g) == g = [j \in 0..Len(rows) |->
                              IF j = 0 THEN <<>>
                              ELSE IF rows[j].index = i - 1 THEN Append(g[j - 1], rows[j].event)
                              ELSE g[j - 1]]
           g == CHOOSE g : Found(g)
           So(j) == IF j < i THEN <<>> ELSE <<rows[i].event>>
<1>0. Len(rows) \in Nat /\ i \in Nat
  OBVIOUS
<1>1. \A j \in 1..Len(rows) : rows[j].index = i - 1 <=> j = i
  BY <1>0 DEF Numbered
<1>2. \A j \in 1..Len(rows) :
         So(j) = IF rows[j].index = i - 1 THEN Append(So(j - 1), rows[j].event) ELSE So(j - 1)
  <2> SUFFICES ASSUME NEW j \in 1..Len(rows)
               PROVE So(j) = IF rows[j].index = i - 1 THEN Append(So(j - 1), rows[j].event)
                             ELSE So(j - 1)
    OBVIOUS
  <2>1. CASE j = i
    <3>1. So(j - 1) = <<>> /\ So(j) = <<rows[i].event>>
      BY <1>0, <2>1
    <3>2. Append(<<>>, rows[j].event) = <<rows[j].event>>
      OBVIOUS
    <3> QED
      BY <1>1, <2>1, <3>1, <3>2
  <2>2. CASE j # i
    <3>1. So(j) = So(j - 1)
      BY <1>0, <2>2
    <3> QED
      BY <1>1, <2>2, <3>1
  <2> QED
    BY <2>1, <2>2
<1>3. Found([j \in 0..Len(rows) |-> So(j)])
  <2> DEFINE h == [j \in 0..Len(rows) |-> So(j)]
  <2>1. So(0) = <<>>
    BY <1>0
  <2> HIDE DEF So
  <2>2. \A j \in 0..Len(rows) : h[j] = So(j)
    OBVIOUS
  <2>3. \A j \in 0..Len(rows) : j # 0 => j \in 1..Len(rows) /\ h[j - 1] = So(j - 1)
    BY <1>0
  <2>4. \A j \in 0..Len(rows) :
           So(j) = IF j = 0 THEN <<>>
                   ELSE IF rows[j].index = i - 1 THEN Append(h[j - 1], rows[j].event)
                   ELSE h[j - 1]
    <3> HIDE DEF h
    <3> QED
      BY <1>2, <2>1, <2>3
  <2> QED
    BY <2>4
<1>4. Found(g)
  <2> HIDE DEF Found
  <2> QED
    BY <1>3
<1>5. AtIndex(i - 1) = g[Len(rows)]
  BY DEF AtIndex
<1> DEFINE S == {j \in 0..Len(rows) : g[j] = So(j)}
<1> HIDE DEF g, So
<1>6. g[0] = <<>> /\ So(0) = <<>>
  BY <1>0, <1>4 DEF So
<1>7. ASSUME NEW j \in 0..(Len(rows) - 1), j \in S PROVE j + 1 \in S
  <2>1. j + 1 \in 1..Len(rows) /\ j + 1 \in 0..Len(rows) /\ (j + 1) - 1 = j /\ j + 1 # 0
    BY <1>0
  <2>2. g[j + 1] = IF rows[j + 1].index = i - 1 THEN Append(g[j], rows[j + 1].event) ELSE g[j]
    BY <1>4, <2>1
  <2> QED
    BY <1>2, <1>7, <2>1, <2>2
<1>8. 0..Len(rows) \subseteq S
  <2>1. 0 \in S
    BY <1>0, <1>6
  <2> HIDE DEF S
  <2> QED
    BY <1>0, <1>7, <2>1, StepByStep
<1> QED
  BY <1>0, <1>5, <1>8 DEF So

\* What list_events returns from an index on.
ListedFrom(after, i) ==
  IF i <= after THEN <<>> ELSE [j \in 1..(i - after) |-> rows[after + j].event]

LEMMA ListedTo ==
  ASSUME rows \in Seq(Row), NEW after \in Nat, NEW i \in 0..Len(rows)
  PROVE  /\ ListedFrom(after, i) \in Seq(LogEvent)
         /\ Len(ListedFrom(after, i)) = IF i <= after THEN 0 ELSE i - after
         /\ \A j \in 1..Len(ListedFrom(after, i)) :
               ListedFrom(after, i)[j] = rows[after + j].event
<1>0. \A j \in 1..Len(rows) : rows[j].event \in LogEvent
  BY RowsHaveEvents
<1>1. CASE i <= after
  BY <1>1 DEF ListedFrom
<1>2. CASE ~(i <= after)
  <2>1. PICK n \in Nat : n = i - after
    BY <1>2
  <2>2. ListedFrom(after, i) = [j \in 1..n |-> rows[after + j].event]
    BY <1>2, <2>1 DEF ListedFrom
  <2>3. \A j \in 1..n : rows[after + j].event \in LogEvent
    <3>1. \A j \in 1..n : after + j \in 1..Len(rows)
      BY <2>1
    <3> QED
      BY <1>0, <3>1
  <2> HIDE DEF LogEvent
  <2>4. [j \in 1..n |-> rows[after + j].event] \in Seq(LogEvent)
    BY <2>3
  <2> QED
    BY <1>2, <2>1, <2>2, <2>4
<1> QED
  BY <1>1, <1>2

LEMMA RowsAreListed ==
  ASSUME rows \in Seq(Row), Numbered(rows), NEW after \in Nat
  PROVE  ListEvents(after) = ListedFrom(after, Len(rows))
<1> DEFINE Found(g) == g = [i \in 0..Len(rows) |->
                              IF i <= after THEN <<>> ELSE g[i - 1] \o AtIndex(i - 1)]
           g == CHOOSE g : Found(g)
           So(i) == ListedFrom(after, i)
<1>0. Len(rows) \in Nat
  OBVIOUS
<1>1. \A i \in 0..Len(rows) :
         So(i) = IF i <= after THEN <<>> ELSE So(i - 1) \o AtIndex(i - 1)
  <2> SUFFICES ASSUME NEW i \in 0..Len(rows), ~(i <= after)
               PROVE  So(i) = So(i - 1) \o AtIndex(i - 1)
    BY DEF ListedFrom
  <2>1. i \in 1..Len(rows) /\ i - 1 \in 0..Len(rows) /\ rows[i].event \in LogEvent
    BY <1>0, RowsHaveEvents
  <2>2. PICK e \in LogEvent : e = rows[i].event /\ AtIndex(i - 1) = <<e>>
    BY <2>1, OneRow
  <2>3. PICK s \in Seq(LogEvent) :
           /\ s = So(i - 1) /\ Len(s) = i - 1 - after
           /\ \A j \in 1..Len(s) : s[j] = rows[after + j].event
    <3>1. /\ So(i - 1) \in Seq(LogEvent)
          /\ Len(So(i - 1)) = IF i - 1 <= after THEN 0 ELSE i - 1 - after
          /\ \A j \in 1..Len(So(i - 1)) : So(i - 1)[j] = rows[after + j].event
      BY <2>1, ListedTo
    <3>2. i - 1 <= after => i - 1 - after = 0
      BY <2>1
    <3> QED
      BY <3>1, <3>2
  <2>4. PICK t \in Seq(LogEvent) :
           /\ t = So(i) /\ Len(t) = i - after
           /\ \A j \in 1..Len(t) : t[j] = rows[after + j].event
    BY <2>1, ListedTo
  <2> HIDE DEF So, LogEvent
  <2>5. PICK u : u = s \o <<e>>
    OBVIOUS
  <2>6. /\ u \in Seq(LogEvent) /\ Len(u) = Len(s) + 1
        /\ \A j \in 1..Len(s) : u[j] = s[j]
        /\ u[Len(s) + 1] = e
    BY <2>5
  <2>7. Len(u) = Len(t) /\ \A j \in 1..Len(u) : u[j] = t[j]
    <3>1. Len(u) = Len(t) /\ Len(s) \in Nat /\ Len(s) + 1 = i - after /\ after + (Len(s) + 1) = i
      BY <2>1, <2>3, <2>4, <2>6
    <3>2. \A j \in 1..Len(u) : j \in 1..Len(s) \/ j = Len(s) + 1
      BY <2>6, <3>1
    <3>3. \A j \in 1..Len(s) : u[j] = t[j]
      BY <2>3, <2>4, <2>6, <3>1
    <3>4. u[Len(s) + 1] = t[Len(s) + 1]
      BY <2>2, <2>4, <2>6, <3>1
    <3> QED
      BY <3>1, <3>2, <3>3, <3>4
  <2>8. u = t
    BY <2>6, <2>7, SeqEqual
  <2> QED
    BY <2>2, <2>3, <2>4, <2>5, <2>8
<1> HIDE DEF So
<1>2. Found([i \in 0..Len(rows) |-> So(i)])
  <2> DEFINE h == [i \in 0..Len(rows) |-> So(i)]
  <2>1. \A i \in 0..Len(rows) : ~(i <= after) => h[i - 1] = So(i - 1)
    BY <1>0
  <2>2. \A i \in 0..Len(rows) :
           So(i) = IF i <= after THEN <<>> ELSE h[i - 1] \o AtIndex(i - 1)
    <3> HIDE DEF h
    <3> QED
      BY <1>1, <2>1
  <2> QED
    BY <2>2
<1>3. Found(g)
  <2> HIDE DEF Found
  <2> QED
    BY <1>2
<1>4. ListEvents(after) = g[Len(rows)]
  BY DEF ListEvents
<1> DEFINE S == {i \in 0..Len(rows) : g[i] = So(i)}
<1> HIDE DEF g
<1>5. \A i \in 0..Len(rows) : g[i] = IF i <= after THEN <<>> ELSE g[i - 1] \o AtIndex(i - 1)
  BY <1>3
<1>6. 0 \in S
  BY <1>0, <1>1, <1>5
<1>7. ASSUME NEW i \in 0..(Len(rows) - 1), i \in S PROVE i + 1 \in S
  <2>1. i + 1 \in 0..Len(rows) /\ (i + 1) - 1 = i
    BY <1>0
  <2> QED
    BY <1>1, <1>5, <1>7, <2>1
<1>8. 0..Len(rows) \subseteq S
  <2> HIDE DEF S
  <2> QED
    BY <1>0, <1>6, <1>7, StepByStep
<1> QED
  BY <1>0, <1>4, <1>8 DEF So

\* What the caller hands over.
Carried == enclosed \in [1..MaxSteps -> EventLists]
Due(lists, k) == EventsOf(lists[k], k)

LEMMA HandedFits ==
  ASSUME Carried, NEW k \in 1..MaxSteps
  PROVE  /\ Due(enclosed, k) \in Seq(LogEvent) /\ enclosed[k] \in Seq(EventType)
         /\ Len(Due(enclosed, k)) = Len(enclosed[k])
         /\ \A i \in 1..Len(Due(enclosed, k)) : /\ Due(enclosed, k)[i].type = enclosed[k][i]
                                         /\ Due(enclosed, k)[i].step = k
         /\ \A i, j \in 1..Len(Due(enclosed, k)) : Due(enclosed, k)[i] = Due(enclosed, k)[j] => i = j
         /\ \A i, j \in 1..Len(enclosed[k]) : enclosed[k][i] = enclosed[k][j] => i = j
<1>1. PICK types \in EventLists : types = enclosed[k]
  BY DEF Carried
<1>2. /\ types \in Seq(EventType) /\ Len(types) \in Nat /\ DOMAIN types = 1..Len(types)
      /\ \A i, j \in 1..Len(types) : types[i] = types[j] => i = j
  BY LogAssumption
<1> HIDE DEF EventType
<1>3. PICK n \in Nat : n = Len(types)
  BY <1>2
<1>4. PICK es : es = [i \in 1..n |-> [type |-> types[i], step |-> k]]
  OBVIOUS
<1>5. Due(enclosed, k) = es
  BY <1>1, <1>2, <1>3, <1>4 DEF Due, EventsOf
<1>6. \A i \in 1..n : [type |-> types[i], step |-> k] \in LogEvent
  BY <1>2, <1>3 DEF LogEvent
<1>7. es \in Seq(LogEvent) /\ Len(es) = n
  <2> HIDE DEF LogEvent
  <2> QED
    BY <1>4, <1>6
<1>8. \A i \in 1..n : es[i].type = types[i] /\ es[i].step = k
  BY <1>4
<1>9. \A i, j \in 1..n : es[i] = es[j] => i = j
  BY <1>2, <1>3, <1>8
<1> QED
  BY <1>1, <1>2, <1>3, <1>5, <1>7, <1>8, <1>9

LEMMA EventsByStep ==
  ASSUME Carried
  PROVE  /\ EventsUpTo(enclosed)[0] = <<>>
         /\ \A k \in 0..(MaxSteps - 1) :
               EventsUpTo(enclosed)[k + 1] = EventsUpTo(enclosed)[k] \o Due(enclosed, k + 1)
         /\ \A k \in 0..MaxSteps : EventsUpTo(enclosed)[k] \in Seq(LogEvent)
<1> DEFINE Adds(g) == g = [k \in 0..MaxSteps |-> IF k = 0 THEN <<>> ELSE g[k - 1] \o Due(enclosed, k)]
           g == CHOOSE g : Adds(g)
           X == Seq(LogEvent)
           step == [k \in 1..MaxSteps |-> [s \in X |-> s \o Due(enclosed, k)]]
<1>0. MaxSteps \in Nat
  BY LogAssumption
<1>1. \A k \in 1..MaxSteps, s \in X : s \o Due(enclosed, k) \in X
  <2> SUFFICES ASSUME NEW k \in 1..MaxSteps, NEW s \in X PROVE s \o Due(enclosed, k) \in X
    OBVIOUS
  <2>1. Due(enclosed, k) \in Seq(LogEvent)
    BY HandedFits
  <2> HIDE DEF LogEvent
  <2> QED
    BY <2>1
<1>2. PICK h : Stepwise(MaxSteps, X, <<>>, step, h)
  <2>1. step \in [1..MaxSteps -> [X -> X]]
    <3> HIDE DEF X
    <3> QED
      BY <1>1
  <2>2. <<>> \in X
    OBVIOUS
  <2> HIDE DEF X, step
  <2> QED
    BY <1>0, <2>1, <2>2, StepsExist
<1>3. \A k \in 1..MaxSteps : h[k] = h[k - 1] \o Due(enclosed, k)
  <2> HIDE DEF X
  <2> SUFFICES ASSUME NEW k \in 1..MaxSteps PROVE h[k] = h[k - 1] \o Due(enclosed, k)
    OBVIOUS
  <2>1. h[k - 1] \in X
    BY <1>0, <1>2 DEF Stepwise
  <2> QED
    BY <1>2, <2>1 DEF Stepwise
<1> HIDE DEF step
<1>4. Adds(h)
  <2>1. \A k \in 0..MaxSteps : k = 0 \/ k \in 1..MaxSteps
    BY <1>0
  <2>3. \A k \in 1..MaxSteps : k # 0
    OBVIOUS
  <2>4. \A k \in 0..MaxSteps : h[k] = IF k = 0 THEN <<>> ELSE h[k - 1] \o Due(enclosed, k)
    BY <1>2, <1>3, <2>1, <2>3, Zenon DEF Stepwise
  <2> HIDE DEF X
  <2> QED
    BY <1>2, <2>4 DEF Stepwise
<1>5. Adds(g)
  <2> HIDE DEF Adds
  <2> QED
    BY <1>4
<1>6. EventsUpTo(enclosed) = g
  BY DEF EventsUpTo, Due
<1> HIDE DEF g, X
<1>7. \A k \in 0..MaxSteps : g[k] = IF k = 0 THEN <<>> ELSE g[k - 1] \o Due(enclosed, k)
  BY <1>5
<1>8. \A k \in 0..(MaxSteps - 1) : k + 1 \in 0..MaxSteps /\ k + 1 # 0 /\ (k + 1) - 1 = k
  BY <1>0
<1>9. g[0] = <<>> /\ \A k \in 0..(MaxSteps - 1) : g[k + 1] = g[k] \o Due(enclosed, k + 1)
  <2>1. g[0] = <<>>
    BY <1>0, <1>7
  <2>2. ASSUME NEW k \in 0..(MaxSteps - 1) PROVE g[k + 1] = g[k] \o Due(enclosed, k + 1)
    <3>1. g[k + 1] = IF k + 1 = 0 THEN <<>> ELSE g[(k + 1) - 1] \o Due(enclosed, k + 1)
      BY <1>7, <1>8
    <3> QED
      BY <1>8, <3>1
  <2> QED
    BY <2>1, <2>2
<1> DEFINE S == {k \in 0..MaxSteps : g[k] \in X}
<1>10. 0 \in S
  <2>1. <<>> \in X
    BY DEF X
  <2> QED
    BY <1>0, <1>9, <2>1
<1>11. ASSUME NEW k \in 0..(MaxSteps - 1), k \in S PROVE k + 1 \in S
  <2>1. k + 1 \in 1..MaxSteps /\ g[k] \in X
    BY <1>0, <1>11
  <2>2. g[k] \o Due(enclosed, k + 1) \in X
    BY <1>1, <2>1
  <2> QED
    BY <1>8, <1>9, <2>2
<1>12. 0..MaxSteps \subseteq S
  <2> HIDE DEF S
  <2> QED
    BY <1>0, <1>10, <1>11, StepByStep
<1> QED
  BY <1>6, <1>9, <1>12 DEF X

\* What fold makes of a list, and of one event more.
Folded == [status : {"none", "started", "finished"}, step_index : Nat, last_checkpoint : Nat]
Fresh == [status |-> "none", step_index |-> 0, last_checkpoint |-> 0]

FoldTo(events, g) ==
  g = [j \in 0..Len(events) |-> IF j = 0 THEN Fresh ELSE Reduce(g[j - 1], events[j])]

LEMMA Reduces == \A f \in Folded, e \in LogEvent : Reduce(f, e) \in Folded
<1> SUFFICES ASSUME NEW f \in Folded, NEW e \in LogEvent PROVE Reduce(f, e) \in Folded
  OBVIOUS
<1>0. /\ f.step_index \in Nat /\ e.step \in Nat
      /\ e.type \in {"run_started", "component_finished", "checkpoint_saved", "run_finished"}
  BY LogAssumption DEF Folded, LogEvent, EventType
<1>1. CASE e.type = "run_started"
  BY <1>1 DEF Reduce, Folded
<1>2. CASE e.type = "component_finished"
  BY <1>0, <1>2 DEF Reduce, Folded
<1>3. CASE e.type = "checkpoint_saved"
  BY <1>0, <1>3 DEF Reduce, Folded
<1>4. CASE e.type = "run_finished"
  BY <1>4 DEF Reduce, Folded
<1> QED
  BY <1>0, <1>1, <1>2, <1>3, <1>4

LEMMA FoldExists ==
  ASSUME NEW s \in Seq(LogEvent)
  PROVE  \E g \in [0..Len(s) -> Folded] : /\ FoldTo(s, g) /\ Fold(s) = g[Len(s)]
<1> DEFINE step == [j \in 1..Len(s) |-> [f \in Folded |-> Reduce(f, s[j])]]
           g == CHOOSE g : FoldTo(s, g)
<1>0. Len(s) \in Nat /\ Fresh \in Folded /\ \A j \in 1..Len(s) : s[j] \in LogEvent
  BY DEF Fresh, Folded
<1>1. PICK h : Stepwise(Len(s), Folded, Fresh, step, h)
  <2>1. step \in [1..Len(s) -> [Folded -> Folded]]
    <3> HIDE DEF Folded, LogEvent
    <3> QED
      BY <1>0, Reduces
  <2> HIDE DEF step, Folded
  <2> QED
    BY <1>0, <2>1, StepsExist
<1> HIDE DEF Folded, LogEvent
<1>2. FoldTo(s, h)
  <2>1. \A j \in 1..Len(s) : h[j] = Reduce(h[j - 1], s[j])
    <3> SUFFICES ASSUME NEW j \in 1..Len(s) PROVE h[j] = Reduce(h[j - 1], s[j])
      OBVIOUS
    <3>1. h[j - 1] \in Folded
      BY <1>0, <1>1 DEF Stepwise
    <3> QED
      BY <1>1, <3>1 DEF Stepwise
  <2>2. \A j \in 0..Len(s) : h[j] = IF j = 0 THEN Fresh ELSE Reduce(h[j - 1], s[j])
    BY <1>0, <1>1, <2>1 DEF Stepwise
  <2> QED
    BY <1>1, <2>2 DEF FoldTo, Stepwise
<1>3. FoldTo(s, g)
  BY <1>2
<1>4. Fold(s) = g[Len(s)]
  BY DEF Fold, FoldTo, Fresh
<1> HIDE DEF g
<1>5. \A j \in 0..Len(s) : g[j] = IF j = 0 THEN Fresh ELSE Reduce(g[j - 1], s[j])
  BY <1>3 DEF FoldTo
<1> DEFINE S == {j \in 0..Len(s) : g[j] \in Folded}
<1>6. 0 \in S
  BY <1>0, <1>5
<1>7. ASSUME NEW j \in 0..(Len(s) - 1), j \in S PROVE j + 1 \in S
  <2>1. j + 1 \in 0..Len(s) /\ j + 1 \in 1..Len(s) /\ j + 1 # 0 /\ (j + 1) - 1 = j
    BY <1>0
  <2>2. g[j + 1] = Reduce(g[j], s[j + 1])
    BY <1>5, <2>1
  <2> QED
    BY <1>0, <1>7, <2>1, <2>2, Reduces
<1>8. 0..Len(s) \subseteq S
  <2> HIDE DEF S
  <2> QED
    BY <1>0, <1>6, <1>7, StepByStep
<1>9. g \in [0..Len(s) -> Folded]
  <2>1. g = [j \in 0..Len(s) |-> g[j]]
    BY <1>3, <1>5 DEF FoldTo
  <2> QED
    BY <1>8, <2>1
<1> QED
  BY <1>3, <1>4, <1>9

LEMMA FoldOneMore ==
  ASSUME NEW s \in Seq(LogEvent), NEW e \in LogEvent
  PROVE  /\ Fold(s) \in Folded /\ Fold(Append(s, e)) = Reduce(Fold(s), e)
         /\ Append(s, e) \in Seq(LogEvent)
<1> HIDE DEF LogEvent, Folded
<1>1. PICK t : t = Append(s, e)
  OBVIOUS
<1>2. /\ t \in Seq(LogEvent) /\ Len(s) \in Nat /\ Len(t) = Len(s) + 1 /\ t[Len(s) + 1] = e
      /\ \A j \in 1..Len(s) : t[j] = s[j]
  BY <1>1
<1>3. PICK g \in [0..Len(s) -> Folded] : FoldTo(s, g) /\ Fold(s) = g[Len(s)]
  BY FoldExists
<1>4. PICK h \in [0..Len(t) -> Folded] : FoldTo(t, h) /\ Fold(t) = h[Len(t)]
  BY <1>2, FoldExists
<1>5. \A j \in 0..Len(s) : g[j] = IF j = 0 THEN Fresh ELSE Reduce(g[j - 1], s[j])
  BY <1>3 DEF FoldTo
<1>6. \A j \in 0..Len(t) : h[j] = IF j = 0 THEN Fresh ELSE Reduce(h[j - 1], t[j])
  BY <1>4 DEF FoldTo
<1> DEFINE S == {j \in 0..Len(s) : g[j] = h[j]}
<1>7. 0 \in S
  BY <1>2, <1>5, <1>6
<1>8. ASSUME NEW j \in 0..(Len(s) - 1), j \in S PROVE j + 1 \in S
  <2>1. /\ j + 1 \in 0..Len(s) /\ j + 1 \in 1..Len(s) /\ j + 1 \in 0..Len(t)
        /\ j + 1 # 0 /\ (j + 1) - 1 = j
    BY <1>2
  <2>2. g[j + 1] = Reduce(g[j], s[j + 1]) /\ h[j + 1] = Reduce(h[j], t[j + 1])
    BY <1>5, <1>6, <2>1
  <2> QED
    BY <1>2, <1>8, <2>1, <2>2
<1>9. 0..Len(s) \subseteq S
  <2> HIDE DEF S
  <2> QED
    BY <1>2, <1>7, <1>8, StepByStep
<1>10. h[Len(t)] = Reduce(h[Len(s)], e)
  <2>1. Len(t) \in 0..Len(t) /\ Len(t) # 0 /\ Len(t) - 1 = Len(s)
    BY <1>2
  <2> QED
    BY <1>2, <1>6, <2>1
<1>11. g[Len(s)] = h[Len(s)] /\ g[Len(s)] \in Folded
  BY <1>2, <1>9
<1> QED
  BY <1>1, <1>3, <1>4, <1>10, <1>11

\* The events of a step count for one step done if one of them says so.
LEMMA FoldOfStep ==
  ASSUME Carried, NEW k \in 1..MaxSteps, NEW s \in Seq(LogEvent)
  PROVE  Fold(s \o Due(enclosed, k)).step_index = Fold(s).step_index + IF Tells(k) THEN 1 ELSE 0
<1> DEFINE told(i) == \E j \in 1..i : enclosed[k][j] = "component_finished"
           so(i) == Fold(s).step_index + IF told(i) THEN 1 ELSE 0
<1>1. PICK es \in Seq(LogEvent) : es = Due(enclosed, k)
  BY HandedFits
<1>2. PICK n \in Nat : n = Len(es) /\ n = Len(enclosed[k])
  BY <1>1, HandedFits
<1>3. /\ \A i \in 1..n : es[i].type = enclosed[k][i] /\ es[i] \in LogEvent
      /\ \A i, j \in 1..n : enclosed[k][i] = enclosed[k][j] => i = j
  BY <1>1, <1>2, HandedFits
<1>4. Tells(k) = told(n)
  BY <1>2 DEF Tells
<1> DEFINE first(i) == [j \in 1..i |-> es[j]]
           S == {i \in 0..n : /\ s \o first(i) \in Seq(LogEvent)
                              /\ Fold(s \o first(i)) \in Folded
                              /\ Fold(s \o first(i)).step_index = so(i)}
<1> HIDE DEF LogEvent, Folded
<1>5. Fold(s) \in Folded /\ Fold(s).step_index \in Nat
  <2>1. Fold(s) \in Folded
    BY FoldExists
  <2> QED
    BY <2>1 DEF Folded
<1>6. 0 \in S
  <2>1. first(0) = <<>>
    OBVIOUS
  <2>2. s \o first(0) = s
    BY <2>1
  <2>3. ~told(0)
    OBVIOUS
  <2>4. so(0) = Fold(s).step_index
    BY <1>5, <2>3
  <2>5. 0 \in 0..n
    BY <1>2
  <2> HIDE DEF so
  <2> QED
    BY <1>5, <2>2, <2>4, <2>5
<1>7. ASSUME NEW i \in 0..(n - 1), i \in S PROVE i + 1 \in S
  <2>1. i + 1 \in 1..n /\ i + 1 \in 0..n /\ i \in Nat
    OBVIOUS
  <2>2. PICK p : p = first(i)
    OBVIOUS
  <2>3. p \in Seq(LogEvent) /\ Len(p) = i /\ \A j \in 1..i : p[j] = es[j]
    BY <1>3, <2>1, <2>2
  <2>4. PICK q : q = first(i + 1)
    OBVIOUS
  <2>5. q \in Seq(LogEvent) /\ Len(q) = i + 1 /\ \A j \in 1..(i + 1) : q[j] = es[j]
    BY <1>3, <2>1, <2>4
  <2>6. PICK e \in LogEvent : e = es[i + 1]
    BY <1>3, <2>1
  <2>7. q = Append(p, e)
    <3>1. PICK r : r = Append(p, e)
      OBVIOUS
    <3>2. r \in Seq(LogEvent) /\ Len(r) = i + 1 /\ r[i + 1] = e /\ \A j \in 1..i : r[j] = p[j]
      BY <2>3, <3>1
    <3>3. \A j \in 1..(i + 1) : j \in 1..i \/ j = i + 1
      BY <2>1
    <3>4. \A j \in 1..Len(r) : r[j] = q[j]
      BY <2>3, <2>5, <2>6, <3>2, <3>3
    <3>5. r = q
      BY <2>5, <3>2, <3>4, SeqEqual
    <3> QED
      BY <3>1, <3>5
  <2>8. s \o q = Append(s \o p, e) /\ s \o p \in Seq(LogEvent)
    BY <2>3, <2>7
  <2>9. /\ Fold(s \o q) = Reduce(Fold(s \o p), e) /\ s \o q \in Seq(LogEvent)
        /\ Fold(s \o p) \in Folded
    BY <2>8, FoldOneMore
  <2>10. Fold(s \o q) \in Folded
    BY <2>9, Reduces
  <2>11. PICK f \in Folded : f = Fold(s \o p) /\ f.step_index = so(i)
    BY <1>7, <2>2, <2>9
  <2>12. Reduce(f, e).step_index
           = IF e.type = "component_finished" THEN f.step_index + 1 ELSE f.step_index
    <3>1. e.type \in {"run_started", "component_finished", "checkpoint_saved", "run_finished"}
      BY DEF LogEvent, EventType
    <3>2. f = [status |-> f.status, step_index |-> f.step_index,
               last_checkpoint |-> f.last_checkpoint]
      BY DEF Folded
    <3> QED
      BY <3>1, <3>2 DEF Reduce
  <2>13. so(i + 1) = IF e.type = "component_finished" THEN so(i) + 1 ELSE so(i)
    <3>1. e.type = enclosed[k][i + 1]
      BY <1>3, <2>1, <2>6
    <3>2. \A j \in 1..(i + 1) : j \in 1..i \/ j = i + 1
      BY <2>1
    <3>3. told(i + 1) <=> told(i) \/ e.type = "component_finished"
      <4>1. told(i) => told(i + 1)
        <5>1. \A j \in 1..i : j \in 1..(i + 1)
          BY <2>1
        <5> QED
          BY <5>1
      <4>2. e.type = "component_finished" => told(i + 1)
        <5>1. i + 1 \in 1..(i + 1)
          BY <2>1
        <5> QED
          BY <3>1, <5>1
      <4>3. told(i + 1) => told(i) \/ e.type = "component_finished"
        BY <3>1, <3>2
      <4> QED
        BY <4>1, <4>2, <4>3
    <3>4. ~(told(i) /\ e.type = "component_finished")
      <4> SUFFICES ASSUME NEW j \in 1..i, enclosed[k][j] = "component_finished",
                          e.type = "component_finished"
                   PROVE FALSE
        OBVIOUS
      <4>1. j \in 1..n /\ j # i + 1
        BY <2>1
      <4> QED
        BY <1>3, <2>1, <3>1, <4>1
    <3>5. so(i) \in Nat
      <4> HIDE DEF told
      <4> QED
        BY <1>5
    <3>6. CASE e.type = "component_finished"
      <4>1. so(i) = Fold(s).step_index /\ so(i + 1) = Fold(s).step_index + 1
        <5> HIDE DEF told
        <5> QED
          BY <1>5, <3>3, <3>4, <3>6
      <4> HIDE DEF so
      <4> QED
        BY <3>6, <4>1
    <3>7. CASE e.type # "component_finished"
      <4>1. so(i + 1) = so(i)
        <5> HIDE DEF told
        <5> QED
          BY <3>3, <3>7
      <4> HIDE DEF so
      <4> QED
        BY <3>7, <4>1
    <3> QED
      BY <3>6, <3>7
  <2> HIDE DEF first, so
  <2> QED
    BY <2>1, <2>4, <2>9, <2>10, <2>11, <2>12, <2>13
<1>8. 0..n \subseteq S
  <2> HIDE DEF S
  <2> QED
    BY <1>6, <1>7, StepByStep
<1>9. first(n) = es
  <2>1. PICK q : q = first(n)
    OBVIOUS
  <2>2. q \in Seq(LogEvent) /\ Len(q) = n /\ \A j \in 1..n : q[j] = es[j]
    BY <1>3, <2>1
  <2>3. q = es
    BY <1>2, <2>2, SeqEqual
  <2> QED
    BY <2>1, <2>3
<1>10. n \in S
  BY <1>8
<1> HIDE DEF first, told
<1> QED
  BY <1>1, <1>4, <1>9, <1>10

LEMMA FoldOfSteps ==
  ASSUME Carried, NEW k \in 0..MaxSteps
  PROVE  /\ (\A l \in 1..MaxSteps : Tells(l)) => Fold(EventsUpTo(enclosed)[k]).step_index = k
         /\ (\A l \in 1..MaxSteps : ~Tells(l)) => Fold(EventsUpTo(enclosed)[k]).step_index = 0
<1> DEFINE Index(n) == Fold(EventsUpTo(enclosed)[n]).step_index
           S == {n \in 0..MaxSteps : /\ (\A l \in 1..MaxSteps : Tells(l)) => Index(n) = n
                                     /\ (\A l \in 1..MaxSteps : ~Tells(l)) => Index(n) = 0}
<1>0. MaxSteps \in Nat /\ MaxSteps # 0
  BY LogAssumption
<1>1. 0 \in S
  <2>1. <<>> \in Seq(LogEvent) /\ Len(<<>>) = 0
    OBVIOUS
  <2>2. PICK g : FoldTo(<<>>, g) /\ Fold(<<>>) = g[0]
    BY <2>1, FoldExists
  <2>3. Fold(<<>>) = Fresh
    BY <2>1, <2>2 DEF FoldTo
  <2>4. Index(0) = 0
    BY <2>3, EventsByStep DEF Fresh
  <2> HIDE DEF Index
  <2> QED
    BY <1>0, <2>4
<1>2. ASSUME NEW n \in 0..(MaxSteps - 1), n \in S PROVE n + 1 \in S
  <2>1. n \in 0..MaxSteps /\ n + 1 \in 1..MaxSteps /\ n + 1 \in 0..MaxSteps /\ n \in Nat
    BY <1>0
  <2>2. PICK s \in Seq(LogEvent) : s = EventsUpTo(enclosed)[n]
    BY <2>1, EventsByStep
  <2>3. EventsUpTo(enclosed)[n + 1] = s \o Due(enclosed, n + 1)
    BY <2>2, EventsByStep
  <2>4. Index(n + 1) = Index(n) + IF Tells(n + 1) THEN 1 ELSE 0
    BY <2>1, <2>2, <2>3, FoldOfStep
  <2> HIDE DEF Index
  <2> QED
    BY <1>2, <2>1, <2>4
<1>3. 0..MaxSteps \subseteq S
  <2> HIDE DEF S
  <2> QED
    BY <1>0, <1>1, <1>2, StepByStep
<1> QED
  BY <1>3

\* The log: the rows are numbered as they come, what the sink was given is in
\* it, and the client has read the beginning.
EventsIn(rs) == [j \in 1..Len(rs) |-> rs[j].event]
Among(e, rs) == \E j \in 1..Len(rs) : rs[j].event = e

ReaderFits ==
  /\ reader.after \in 0..Len(rows) /\ Len(reader.got) = reader.after
  /\ \A j \in 1..reader.after : reader.got[j] = rows[j].event

Ordered ==
  \A i, j \in 1..Len(rows) : /\ rows[i].event.step <= checkpoint
                             /\ i < j => /\ rows[i].event.step <= rows[j].event.step
                                         /\ rows[i].event # rows[j].event

LogFits ==
  IF keeping = "stores" THEN Ordered ELSE EventsIn(rows) = EventsUpTo(enclosed)[checkpoint]

\* The writer: a transition begins after the checkpoint; what its writer has
\* left to append is not in the log, and what it publishes is.
Appending(w) ==
  /\ hand[w].step = checkpoint
  /\ \A i \in 1..Len(hand[w].left) : /\ hand[w].left[i].step = checkpoint
                                     /\ ~Among(hand[w].left[i], rows)
  /\ \A i, j \in 1..Len(hand[w].left) : hand[w].left[i] = hand[w].left[j] => i = j
  /\ \A i \in 1..Len(Due(enclosed, checkpoint)) :
        \/ Among(Due(enclosed, checkpoint)[i], rows)
        \/ \E j \in 1..Len(hand[w].left) : hand[w].left[j] = Due(enclosed, checkpoint)[i]

WriterFits(w) ==
  /\ hand[w].at \in {"save", "append", "insert", "publish"} => hand[w].step \in 1..MaxSteps
  /\ hand[w].at \in {"append", "publish"} \/ (hand[w].at = "insert" /\ keeping = "stores") =>
        Len(hand[w].left) > 0
  /\ hand[w].at = "save" \/ (hand[w].at = "insert" /\ keeping = "transaction") =>
        hand[w].step = checkpoint + 1 /\ hand[w].left = Due(enclosed, hand[w].step)
  /\ hand[w].at = "insert" => hand[w].seen = Len(rows)
  /\ hand[w].at = "publish" =>
        hand[w].step = checkpoint /\ \A i \in 1..Len(hand[w].left) : Among(hand[w].left[i], rows)
  /\ hand[w].at \in {"append", "insert"} /\ keeping = "stores" => Appending(w)

LogInv ==
  /\ Carried /\ keeping \in Keeping /\ checkpoint \in 0..MaxSteps
  /\ rows \in Seq(Row) /\ Numbered(rows)
  /\ live \in Seq(LogEvent) /\ \A i \in 1..Len(live) : Among(live[i], rows)
  /\ hand \in [Writer -> Hand]
  /\ reader \in [after : Nat, got : Seq(LogEvent), total : Nat]
  /\ LogFits /\ ReaderFits
  /\ \A w \in Writer : WriterFits(w)

LEMMA EventsInRows ==
  ASSUME NEW rs \in Seq(Row)
  PROVE  /\ EventsIn(rs) \in Seq(LogEvent) /\ Len(EventsIn(rs)) = Len(rs)
         /\ \A j \in 1..Len(rs) : rs[j].event \in LogEvent /\ EventsIn(rs)[j] = rs[j].event
<1>1. \A r \in Row : r.event \in LogEvent
  BY DEF Row
<1> HIDE DEF Row, LogEvent
<1>2. Len(rs) \in Nat /\ \A j \in 1..Len(rs) : rs[j] \in Row
  OBVIOUS
<1>3. \A j \in 1..Len(rs) : rs[j].event \in LogEvent
  BY <1>1, <1>2
<1>4. PICK n \in Nat : n = Len(rs)
  BY <1>2
<1>5. PICK s : s = [j \in 1..n |-> rs[j].event]
  OBVIOUS
<1>6. s \in Seq(LogEvent) /\ Len(s) = n /\ \A j \in 1..n : s[j] = rs[j].event
  BY <1>3, <1>4, <1>5
<1> QED
  BY <1>3, <1>4, <1>5, <1>6 DEF EventsIn

\* Rows for some more events.
Grown(rs, es, new) ==
  /\ new \in Seq(Row) /\ Len(new) = Len(rs) + Len(es)
  /\ \A j \in 1..Len(rs) : new[j] = rs[j]
  /\ \A j \in 1..Len(es) : /\ new[Len(rs) + j].event = es[j]
                           /\ new[Len(rs) + j].index = Len(rs) + j - 1

LEMMA RowsAdded ==
  ASSUME NEW rs \in Seq(Row), NEW es \in Seq(LogEvent)
  PROVE  Grown(rs, es, rs \o Rows(es, Len(rs)))
<1>0. Len(rs) \in Nat /\ Len(es) \in Nat /\ DOMAIN es = 1..Len(es)
  OBVIOUS
<1> DEFINE R(j) == [event |-> es[j], index |-> Len(rs) + j - 1]
<1>1. \A j \in 1..Len(es) : R(j) \in Row /\ R(j).event = es[j] /\ R(j).index = Len(rs) + j - 1
  <2>1. \A j \in 1..Len(es) : es[j] \in LogEvent /\ Len(rs) + j - 1 \in Nat
    BY <1>0
  <2> QED
    BY <2>1 DEF Row
<1>2. PICK new : new = Rows(es, Len(rs))
  OBVIOUS
<1>3. new = [j \in 1..Len(es) |-> R(j)]
  BY <1>0, <1>2 DEF Rows
<1> HIDE DEF R, Row, LogEvent
<1>4. new \in Seq(Row) /\ Len(new) = Len(es) /\ \A j \in 1..Len(es) : new[j] = R(j)
  BY <1>0, <1>1, <1>3
<1>5. PICK all : all = rs \o new
  OBVIOUS
<1>6. /\ all \in Seq(Row) /\ Len(all) = Len(rs) + Len(es)
      /\ \A j \in 1..Len(rs) : all[j] = rs[j]
      /\ \A j \in 1..Len(es) : all[Len(rs) + j] = new[j]
  BY <1>0, <1>4, <1>5
<1>7. \A j \in 1..Len(es) : all[Len(rs) + j] = R(j)
  BY <1>4, <1>6
<1> QED
  BY <1>1, <1>2, <1>5, <1>6, <1>7 DEF Grown

LEMMA RowAdded ==
  ASSUME NEW rs \in Seq(Row), NEW e \in LogEvent
  PROVE  <<e>> \in Seq(LogEvent) /\ Grown(rs, <<e>>, Append(rs, [event |-> e, index |-> Len(rs)]))
<1>1. PICK r : r = [event |-> e, index |-> Len(rs)]
  OBVIOUS
<1>2. r \in Row /\ r.event = e /\ r.index = Len(rs)
  BY <1>1 DEF Row
<1> HIDE DEF Row, LogEvent
<1>3. PICK new : new = Append(rs, r)
  OBVIOUS
<1>4. /\ new \in Seq(Row) /\ Len(new) = Len(rs) + 1 /\ new[Len(rs) + 1] = r
      /\ \A j \in 1..Len(rs) : new[j] = rs[j]
  BY <1>2, <1>3
<1>5. PICK es : es = <<e>>
  OBVIOUS
<1>6. es \in Seq(LogEvent) /\ Len(es) = 1 /\ es[1] = e /\ Len(rs) + 1 - 1 = Len(rs)
  BY <1>5
<1>7. \A j \in 1..Len(es) : j = 1
  BY <1>6
<1>8. Grown(rs, es, new)
  BY <1>2, <1>4, <1>6, <1>7 DEF Grown
<1> QED
  BY <1>1, <1>3, <1>5, <1>6, <1>8

\* The rows before and the rows for the events are all there is.
LEMMA RowsBefore ==
  ASSUME NEW rs \in Seq(Row), NEW es \in Seq(LogEvent), NEW new, Grown(rs, es, new),
         NEW j \in 1..Len(new)
  PROVE  \/ j \in 1..Len(rs) /\ new[j] = rs[j]
         \/ \E i \in 1..Len(es) : /\ j = Len(rs) + i /\ new[j].event = es[i]
                                  /\ new[j].index = j - 1
<1>0. Len(rs) \in Nat /\ Len(es) \in Nat /\ Len(new) = Len(rs) + Len(es)
  BY DEF Grown
<1>1. CASE j \in 1..Len(rs)
  BY <1>1 DEF Grown
<1>2. CASE j \notin 1..Len(rs)
  <2>1. j - Len(rs) \in 1..Len(es)
    BY <1>0, <1>2
  <2>2. PICK i \in 1..Len(es) : i = j - Len(rs)
    BY <2>1
  <2>3. j = Len(rs) + i /\ j - 1 = Len(rs) + i - 1
    BY <1>0, <2>2
  <2>4. new[Len(rs) + i].event = es[i] /\ new[Len(rs) + i].index = Len(rs) + i - 1
    BY DEF Grown
  <2> QED
    BY <2>3, <2>4
<1> QED
  BY <1>1, <1>2

LEMMA LogGrows ==
  ASSUME NEW rs \in Seq(Row), Numbered(rs), NEW es \in Seq(LogEvent), NEW new, Grown(rs, es, new)
  PROVE  /\ new \in Seq(Row) /\ Numbered(new)
         /\ \A e : Among(e, rs) => Among(e, new)
         /\ \A i \in 1..Len(es) : Among(es[i], new)
         /\ \A e : Among(e, new) => Among(e, rs) \/ \E i \in 1..Len(es) : e = es[i]
         /\ EventsIn(new) = EventsIn(rs) \o es
<1>0. /\ Len(rs) \in Nat /\ Len(es) \in Nat /\ Len(new) \in Nat
      /\ new \in Seq(Row) /\ Len(new) = Len(rs) + Len(es)
  BY DEF Grown
<1>1. \A j \in 1..Len(rs) : j \in 1..Len(new) /\ new[j] = rs[j]
  BY <1>0 DEF Grown
<1>2. \A j \in 1..Len(es) : Len(rs) + j \in 1..Len(new) /\ new[Len(rs) + j].event = es[j]
  BY <1>0 DEF Grown
<1>3. \A j \in 1..Len(new) : new[j].index = j - 1
  <2> SUFFICES ASSUME NEW j \in 1..Len(new) PROVE new[j].index = j - 1
    OBVIOUS
  <2> QED
    BY RowsBefore DEF Numbered
<1>4. ASSUME NEW e, Among(e, new) PROVE Among(e, rs) \/ \E i \in 1..Len(es) : e = es[i]
  <2>1. PICK j \in 1..Len(new) : new[j].event = e
    BY <1>4 DEF Among
  <2>2. \/ j \in 1..Len(rs) /\ new[j] = rs[j]
        \/ \E i \in 1..Len(es) : /\ j = Len(rs) + i /\ new[j].event = es[i]
                                 /\ new[j].index = j - 1
    BY RowsBefore
  <2> QED
    BY <2>1, <2>2 DEF Among
<1>5. \A e : Among(e, rs) => Among(e, new)
  BY <1>1 DEF Among
<1>6. \A i \in 1..Len(es) : Among(es[i], new)
  BY <1>2 DEF Among
<1>7. EventsIn(new) = EventsIn(rs) \o es
  <2>1. PICK s, t : s = EventsIn(rs) /\ t = EventsIn(new)
    OBVIOUS
  <2>2. s \in Seq(LogEvent) /\ Len(s) = Len(rs) /\ \A j \in 1..Len(rs) : s[j] = rs[j].event
    BY <2>1, EventsInRows
  <2>3. t \in Seq(LogEvent) /\ Len(t) = Len(new) /\ \A j \in 1..Len(new) : t[j] = new[j].event
    BY <1>0, <2>1, EventsInRows
  <2> HIDE DEF LogEvent
  <2>4. PICK u : u = s \o es
    OBVIOUS
  <2>5. /\ u \in Seq(LogEvent) /\ Len(u) = Len(s) + Len(es)
        /\ \A j \in 1..Len(s) : u[j] = s[j]
        /\ \A j \in 1..Len(es) : u[Len(s) + j] = es[j]
    BY <1>0, <2>2, <2>4
  <2>6. ASSUME NEW j \in 1..Len(u) PROVE u[j] = t[j]
    <3>1. j \in 1..Len(new)
      BY <1>0, <2>2, <2>5
    <3> QED
      BY <2>2, <2>3, <2>5, <3>1, RowsBefore
  <2>7. Len(u) = Len(t)
    BY <1>0, <2>2, <2>3, <2>5
  <2>8. u = t
    BY <2>3, <2>5, <2>6, <2>7, SeqEqual
  <2> QED
    BY <2>1, <2>4, <2>8
<1> QED
  BY <1>0, <1>3, <1>4, <1>5, <1>6, <1>7 DEF Numbered

OneWriter == \A v, w \in Writer : v = w

LEMMA NothingInHand == Off \in Hand /\ [Off EXCEPT !.at = "done"] \in Hand
<1>1. 0 \in 0..MaxSteps /\ <<>> \in Seq(LogEvent) /\ 0 \in Nat
  BY LogAssumption
<1>2. [Off EXCEPT !.at = "done"] = [at |-> "done", step |-> 0, left |-> <<>>, seen |-> 0]
  BY DEF Off
<1> QED
  BY <1>1, <1>2 DEF Off, Hand, LogStage

LEMMA LogStart ==
  ASSUME LogInit
  PROVE  LogInv
<1>0. MaxSteps \in Nat /\ MaxSteps # 0
  BY LogAssumption
<1>1. rows = <<>> /\ rows \in Seq(Row) /\ Len(rows) = 0 /\ live = <<>> /\ Len(live) = 0
  BY DEF LogInit
<1>2. Numbered(rows) /\ Ordered
  BY <1>1 DEF Numbered, Ordered
<1>9. Carried
  BY DEF LogInit, Carried
<1>3. EventsIn(rows) = EventsUpTo(enclosed)[checkpoint]
  <2>1. EventsIn(rows) \in Seq(LogEvent) /\ Len(EventsIn(rows)) = 0
    BY <1>1, EventsInRows
  <2>2. EventsIn(rows) = <<>>
    BY <2>1
  <2> QED
    BY <1>9, <2>2, EventsByStep DEF LogInit
<1>4. Off \in Hand
  BY NothingInHand
<1>5. \A w \in Writer : WriterFits(w)
  BY DEF LogInit, WriterFits, Off
<1>6. reader \in [after : Nat, got : Seq(LogEvent), total : Nat] /\ ReaderFits
  BY <1>1 DEF LogInit, ReaderFits
<1>7. hand \in [Writer -> Hand]
  BY <1>4 DEF LogInit
<1> QED
  BY <1>0, <1>1, <1>2, <1>3, <1>5, <1>6, <1>7, <1>9 DEF LogInit, LogInv, LogFits

\* A step of the writer that leaves the log as it is, and one that adds to it.
LEMMA HandOnly ==
  ASSUME OneWriter, LogInv, NEW w \in Writer, NEW now \in Hand, Becomes(w, now),
         UNCHANGED <<keeping, enclosed, checkpoint, rows, reader>>,
         live' \in Seq(LogEvent), \A i \in 1..Len(live') : Among(live'[i], rows),
         WriterFits(w)'
  PROVE  LogInv'
<1>1. hand' \in [Writer -> Hand]
  BY DEF LogInv, Becomes
<1>2. \A v \in Writer : WriterFits(v)'
  BY DEF OneWriter
<1>3. LogFits' /\ ReaderFits' /\ Carried'
  BY DEF Carried, LogInv, LogFits, Ordered, ReaderFits
<1> QED
  BY <1>1, <1>2, <1>3 DEF LogInv

LEMMA LogOnly ==
  ASSUME OneWriter, LogInv, NEW w \in Writer, NEW now \in Hand, Becomes(w, now),
         NEW es \in Seq(LogEvent), Grown(rows, es, rows'),
         UNCHANGED <<keeping, enclosed, live, reader>>, checkpoint' \in 0..MaxSteps,
         LogFits', WriterFits(w)'
  PROVE  LogInv'
<1>0. rows \in Seq(Row) /\ Numbered(rows)
  BY DEF LogInv
<1>1. hand' \in [Writer -> Hand]
  BY DEF LogInv, Becomes
<1>2. \A v \in Writer : WriterFits(v)'
  BY DEF OneWriter
<1>3. rows' \in Seq(Row) /\ Numbered(rows') /\ \A e : Among(e, rows) => Among(e, rows')
  BY <1>0, LogGrows
<1>4. \A i \in 1..Len(live) : Among(live[i], rows')
  BY <1>3 DEF LogInv
<1>5. ReaderFits'
  <2>1. /\ Len(rows) \in Nat /\ Len(rows') = Len(rows) + Len(es) /\ Len(es) \in Nat
        /\ \A j \in 1..Len(rows) : rows'[j] = rows[j]
    BY <1>0 DEF Grown
  <2>2. /\ reader.after \in 0..Len(rows) /\ Len(reader.got) = reader.after
        /\ \A j \in 1..reader.after : reader.got[j] = rows[j].event
    BY DEF LogInv, ReaderFits
  <2>3. PICK n \in 0..Len(rows) : n = reader.after
    BY <2>2
  <2>4. n \in 0..Len(rows') /\ \A j \in 1..n : rows'[j] = rows[j]
    BY <2>1
  <2>5. \A j \in 1..n : reader.got[j] = rows'[j].event
    BY <2>2, <2>3, <2>4
  <2>6. reader' = reader
    OBVIOUS
  <2> QED
    BY <2>2, <2>3, <2>4, <2>5, <2>6 DEF ReaderFits
<1>6. Carried'
  BY DEF LogInv, Carried
<1> QED
  BY <1>1, <1>2, <1>3, <1>4, <1>5, <1>6 DEF LogInv

\* The writer's next step begins, or it is done.
LEMMA NextFits ==
  ASSUME Carried, hand \in [Writer -> Hand], NEW w \in Writer, NEW k \in 0..MaxSteps,
         NEW now, now = AfterStep(k)
  PROVE  /\ now \in Hand
         /\ Becomes(w, now) /\ enclosed' = enclosed /\ checkpoint' = k => WriterFits(w)'
<1>0. MaxSteps \in Nat /\ MaxSteps # 0
  BY LogAssumption
<1>1. CASE k = MaxSteps
  <2>1. now = [Off EXCEPT !.at = "done"] /\ now.at = "done"
    BY <1>1 DEF AfterStep, Off
  <2>2. now \in Hand
    BY <2>1, NothingInHand
  <2>3. ASSUME Becomes(w, now) PROVE WriterFits(w)'
    <3>1. hand'[w] = now
      BY <2>3 DEF Becomes
    <3> QED
      BY <2>1, <3>1 DEF WriterFits
  <2> QED
    BY <2>2, <2>3
<1>2. CASE k # MaxSteps
  <2>1. k + 1 \in 1..MaxSteps /\ k + 1 \in 0..MaxSteps /\ 0 \in Nat
    BY <1>0, <1>2
  <2>2. PICK es \in Seq(LogEvent) : es = Due(enclosed, k + 1)
    BY <2>1, HandedFits
  <2>3. now = [at |-> "save", step |-> k + 1, left |-> es, seen |-> 0]
    BY <1>2, <2>2 DEF AfterStep, Handed, Due, Off
  <2>4. now \in Hand
    <3> HIDE DEF LogEvent
    <3> QED
      BY <2>1, <2>3 DEF Hand, LogStage
  <2>5. ASSUME Becomes(w, now), enclosed' = enclosed, checkpoint' = k PROVE WriterFits(w)'
    <3>1. hand'[w] = now
      BY <2>5 DEF Becomes
    <3> QED
      BY <2>1, <2>2, <2>3, <2>5, <3>1 DEF WriterFits
  <2> QED
    BY <2>4, <2>5
<1> QED
  BY <1>1, <1>2

\* A step has been kept, its events with it: they are published, or there are none.
LEMMA StepKept ==
  ASSUME Carried, hand \in [Writer -> Hand], NEW w \in Writer, NEW k \in 1..MaxSteps,
         NEW now, now = AfterKept(k)
  PROVE  /\ now \in Hand
         /\ /\ Becomes(w, now) /\ enclosed' = enclosed /\ checkpoint' = k
            /\ \A i \in 1..Len(Due(enclosed, k)) : Among(Due(enclosed, k)[i], rows')
            => WriterFits(w)'
<1>0. MaxSteps \in Nat /\ k \in 0..MaxSteps /\ 0 \in Nat
  BY LogAssumption
<1>1. PICK es \in Seq(LogEvent) : es = Due(enclosed, k)
  BY HandedFits
<1>2. CASE es = <<>>
  <2>1. now = AfterStep(k)
    BY <1>1, <1>2 DEF AfterKept, Handed, Due
  <2> QED
    BY <1>0, <2>1, NextFits
<1>3. CASE es # <<>>
  <2>1. now = [at |-> "publish", step |-> k, left |-> es, seen |-> 0]
    BY <1>1, <1>3 DEF AfterKept, Handed, Due, Off
  <2>2. Len(es) > 0
    BY <1>3
  <2>3. now \in Hand
    <3> HIDE DEF LogEvent
    <3> QED
      BY <1>0, <2>1 DEF Hand, LogStage
  <2>4. ASSUME Becomes(w, now), checkpoint' = k, \A i \in 1..Len(es) : Among(es[i], rows')
        PROVE  WriterFits(w)'
    <3>1. hand'[w] = now
      BY <2>4 DEF Becomes
    <3> QED
      BY <2>1, <2>2, <2>4, <3>1 DEF WriterFits
  <2> QED
    BY <1>1, <2>3, <2>4
<1> QED
  BY <1>2, <1>3

LEMMA WriterResumes ==
  ASSUME OneWriter, LogInv, NEW w \in Writer, ResumeRun(w)
  PROVE  LogInv'
<1>1. PICK now : now = AfterStep(checkpoint) /\ Becomes(w, now)
  BY DEF ResumeRun
<1>2. now \in Hand /\ WriterFits(w)'
  <2>1. /\ Carried /\ hand \in [Writer -> Hand] /\ checkpoint \in 0..MaxSteps
        /\ enclosed' = enclosed /\ checkpoint' = checkpoint
    BY DEF LogInv, ResumeRun
  <2> QED
    BY <1>1, <2>1, NextFits
<1> QED
  BY <1>1, <1>2, HandOnly DEF ResumeRun, LogInv

\* What is saved before a retry is the checkpoint there is.
LEMMA WriterRetries ==
  ASSUME LogInv, NEW w \in Writer, KeepBeforeRetry(w)
  PROVE  LogInv'
<1>1. hand[w].step = checkpoint + 1 /\ checkpoint' = hand[w].step - 1 /\ checkpoint \in Nat
  BY LogAssumption DEF LogInv, WriterFits, KeepBeforeRetry
<1>2. checkpoint' = checkpoint
  BY <1>1
<1>3. UNCHANGED logVars
  BY <1>2 DEF KeepBeforeRetry, logVars
<1> QED
  BY <1>3 DEF logVars, Carried, LogInv, LogFits, Ordered, ReaderFits, WriterFits, Appending

LEMMA WriterStops ==
  ASSUME OneWriter, LogInv, NEW w \in Writer, StopWriter(w)
  PROVE  LogInv'
<1>1. Off \in Hand
  BY NothingInHand
<1>2. hand'[w] = Off
  BY DEF LogInv, StopWriter, Becomes
<1>3. WriterFits(w)'
  BY <1>2 DEF Off, WriterFits
<1> QED
  BY <1>1, <1>3, HandOnly DEF StopWriter, LogInv

LEMMA WriterCounts ==
  ASSUME OneWriter, LogInv, NEW w \in Writer, CountRows(w)
  PROVE  LogInv'
<1>1. PICK h \in Hand : h = hand[w]
  BY DEF LogInv
<1>2. PICK now : now = [h EXCEPT !.at = "insert", !.seen = Len(rows)]
  OBVIOUS
<1>3. /\ now \in Hand /\ now.at = "insert" /\ now.seen = Len(rows) /\ now.step = h.step
      /\ now.left = h.left
  <2>1. Len(rows) \in Nat
    BY DEF LogInv
  <2> HIDE DEF LogEvent
  <2> QED
    BY <1>2, <2>1 DEF Hand, LogStage
<1>4. hand'[w] = now /\ Becomes(w, now)
  BY <1>1, <1>2 DEF LogInv, CountRows, Becomes
<1>5. /\ WriterFits(w) /\ checkpoint' = checkpoint /\ keeping' = keeping /\ rows' = rows
      /\ enclosed' = enclosed
      /\ h.at = IF keeping = "stores" THEN "append" ELSE "save"
      /\ keeping \in {"stores", "transaction"}
  BY <1>1 DEF LogInv, CountRows
<1>6. WriterFits(w)'
  <2>1. CASE keeping = "stores"
    <3>1. Appending(w) /\ h.step \in 1..MaxSteps /\ Len(h.left) > 0
      BY <1>1, <1>5, <2>1 DEF WriterFits
    <3>2. Appending(w)'
      BY <1>1, <1>3, <1>4, <1>5, <3>1 DEF Appending
    <3> QED
      BY <1>1, <1>3, <1>4, <1>5, <2>1, <3>1, <3>2 DEF WriterFits
  <2>2. CASE keeping = "transaction"
    BY <1>1, <1>3, <1>4, <1>5, <2>2 DEF WriterFits
  <2> QED
    BY <1>5, <2>1, <2>2
<1> QED
  BY <1>3, <1>4, <1>6, HandOnly DEF CountRows, LogInv

LEMMA WriterSaves ==
  ASSUME OneWriter, LogInv, NEW w \in Writer, SaveCheckpoint(w)
  PROVE  LogInv'
<1>0. MaxSteps \in Nat /\ checkpoint \in 0..MaxSteps
  BY LogAssumption DEF LogInv
<1>1. PICK h \in Hand : h = hand[w]
  BY DEF LogInv
<1>2. PICK now : now = IF h.left = <<>> THEN AfterStep(h.step) ELSE [h EXCEPT !.at = "append"]
  OBVIOUS
<1>3. Becomes(w, now) /\ enclosed' = enclosed /\ Carried /\ hand \in [Writer -> Hand]
  BY <1>1, <1>2 DEF LogInv, SaveCheckpoint
<1>5. /\ WriterFits(w) /\ h.at = "save" /\ keeping = "stores"
      /\ keeping' = keeping /\ rows' = rows /\ checkpoint' = h.step
  BY <1>1 DEF LogInv, SaveCheckpoint
<1>6. /\ h.step = checkpoint + 1 /\ h.left = Due(enclosed, h.step)
      /\ h.step \in 1..MaxSteps /\ h.left \in Seq(LogEvent)
  <2>1. h.left \in Seq(LogEvent)
    BY DEF Hand
  <2> QED
    BY <1>1, <1>5, <2>1 DEF WriterFits
<1>7. Ordered
  BY <1>5 DEF LogInv, LogFits
<1>8. Ordered'
  <2>1. \A j \in 1..Len(rows) : rows[j].event.step \in Int
    <3>1. \A j \in 1..Len(rows) : rows[j].event \in LogEvent
      BY EventsInRows DEF LogInv
    <3> QED
      BY <1>0, <3>1 DEF LogEvent
  <2>2. \A j \in 1..Len(rows) : rows[j].event.step <= checkpoint + 1
    BY <1>0, <1>7, <2>1 DEF Ordered
  <2> QED
    BY <1>5, <1>6, <1>7, <2>2 DEF Ordered
<1>4. /\ \A i \in 1..Len(h.left) : h.left[i].step = h.step /\ ~Among(h.left[i], rows)
      /\ \A i, j \in 1..Len(h.left) : h.left[i] = h.left[j] => i = j
  <2>1. /\ \A i \in 1..Len(h.left) : h.left[i].step = h.step
        /\ \A i, j \in 1..Len(h.left) : h.left[i] = h.left[j] => i = j
    BY <1>3, <1>6, HandedFits
  <2>2. \A i \in 1..Len(h.left) : ~Among(h.left[i], rows)
    <3> SUFFICES ASSUME NEW i \in 1..Len(h.left), Among(h.left[i], rows) PROVE FALSE
      OBVIOUS
    <3>1. PICK j \in 1..Len(rows) : rows[j].event = h.left[i]
      BY DEF Among
    <3>2. rows[j].event.step = checkpoint + 1
      BY <1>6, <2>1, <3>1
    <3>3. rows[j].event.step <= checkpoint
      BY <1>7 DEF Ordered
    <3> QED
      BY <1>0, <3>2, <3>3
  <2> QED
    BY <2>1, <2>2
<1>10. now \in Hand /\ WriterFits(w)'
  <2>1. CASE h.left = <<>>
    <3>1. now = AfterStep(h.step) /\ h.step \in 0..MaxSteps
      BY <1>0, <1>2, <1>6, <2>1
    <3> QED
      BY <1>3, <1>5, <3>1, NextFits
  <2>2. CASE h.left # <<>>
    <3>1. /\ now \in Hand /\ now.at = "append" /\ now.step = h.step /\ now.left = h.left
          /\ Len(h.left) > 0
      <4>1. Len(h.left) > 0
        BY <1>6, <2>2
      <4>2. now = [h EXCEPT !.at = "append"]
        BY <1>2, <2>2
      <4> QED
        BY <4>1, <4>2 DEF Hand, LogStage
    <3>2. hand'[w] = now
      BY <1>3 DEF Becomes
    <3>3. Appending(w)'
      BY <1>3, <1>4, <1>5, <1>6, <3>1, <3>2 DEF Appending
    <3> QED
      BY <1>5, <1>6, <3>1, <3>2, <3>3 DEF WriterFits
  <2> QED
    BY <2>1, <2>2
<1>11. \A v \in Writer : WriterFits(v)'
  BY <1>10 DEF OneWriter
<1>13. Carried' /\ hand' \in [Writer -> Hand]
  BY <1>3, <1>10 DEF Carried, Becomes
<1>12. LogFits' /\ ReaderFits'
  BY <1>5, <1>8 DEF LogFits, LogInv, ReaderFits, SaveCheckpoint
<1> QED
  BY <1>0, <1>5, <1>6, <1>11, <1>12, <1>13 DEF LogInv, SaveCheckpoint

LEMMA WriterPublishes ==
  ASSUME OneWriter, LogInv, NEW w \in Writer, PublishLogged(w)
  PROVE  LogInv'
<1>0. MaxSteps \in Nat /\ checkpoint \in 0..MaxSteps
  BY LogAssumption DEF LogInv
<1>1. PICK h \in Hand : h = hand[w]
  BY DEF LogInv
<1>2. /\ WriterFits(w) /\ h.at = "publish" /\ live \in Seq(LogEvent) /\ h.left \in Seq(LogEvent)
      /\ live' = Append(live, Head(h.left))
      /\ keeping' = keeping /\ rows' = rows /\ checkpoint' = checkpoint
  BY <1>1 DEF LogInv, PublishLogged, Hand
<1>3. /\ h.step = checkpoint /\ h.step \in 1..MaxSteps /\ Len(h.left) > 0
      /\ \A i \in 1..Len(h.left) : Among(h.left[i], rows)
  BY <1>1, <1>2 DEF WriterFits
<1>4. PICK e \in LogEvent : e = Head(h.left) /\ Among(e, rows)
  <2>1. Head(h.left) = h.left[1] /\ 1 \in 1..Len(h.left) /\ h.left[1] \in LogEvent
    BY <1>2, <1>3
  <2> QED
    BY <1>3, <2>1
<1>5. live' \in Seq(LogEvent) /\ \A i \in 1..Len(live') : Among(live'[i], rows)
  <2>1. /\ live' \in Seq(LogEvent) /\ Len(live') = Len(live) + 1 /\ live'[Len(live) + 1] = e
        /\ \A i \in 1..Len(live) : live'[i] = live[i]
    BY <1>2, <1>4
  <2>2. \A i \in 1..Len(live') : i \in 1..Len(live) \/ i = Len(live) + 1
    BY <1>2, <2>1
  <2> QED
    BY <1>4, <2>1, <2>2 DEF LogInv
<1>6. PICK now : /\ now = IF Len(h.left) > 1 THEN [h EXCEPT !.left = Tail(@)]
                          ELSE AfterStep(h.step)
                 /\ Becomes(w, now)
  BY <1>1 DEF PublishLogged
<1>7. hand'[w] = now
  BY <1>6 DEF LogInv, Becomes
<1>8. now \in Hand /\ WriterFits(w)'
  <2>1. CASE Len(h.left) > 1
    <3>1. PICK t : t = Tail(h.left)
      OBVIOUS
    <3>2. t \in Seq(LogEvent) /\ Len(t) = Len(h.left) - 1 /\ \A i \in 1..Len(t) : t[i] = h.left[i + 1]
      BY <1>2, <2>1, <3>1
    <3>3. \A i \in 1..Len(t) : Among(t[i], rows)
      <4>1. \A i \in 1..Len(t) : i + 1 \in 1..Len(h.left)
        BY <1>2, <3>2
      <4> QED
        BY <1>3, <3>2, <4>1
    <3>4. now = [h EXCEPT !.left = t]
      BY <1>6, <2>1, <3>1
    <3>5. now \in Hand /\ now.at = "publish" /\ now.step = h.step /\ now.left = t
      BY <1>2, <3>2, <3>4 DEF Hand
    <3>6. Len(t) > 0
      BY <1>2, <2>1, <3>2
    <3> QED
      BY <1>2, <1>3, <1>7, <3>3, <3>5, <3>6 DEF WriterFits
  <2>2. CASE ~(Len(h.left) > 1)
    <3>1. now = AfterStep(checkpoint)
      BY <1>3, <1>6, <2>2
    <3>2. Carried /\ hand \in [Writer -> Hand] /\ enclosed' = enclosed /\ Becomes(w, now)
      BY <1>6 DEF LogInv, PublishLogged
    <3> QED
      BY <1>0, <1>2, <3>1, <3>2, NextFits
  <2> QED
    BY <2>1, <2>2
<1> QED
  BY <1>2, <1>5, <1>6, <1>8, HandOnly DEF PublishLogged

\* All the events of a step at once.
LEMMA StepIsLogged ==
  ASSUME OneWriter, LogInv, NEW w \in Writer, keeping # "stores",
         hand[w].at \in {"save", "insert"}, hand[w].step = checkpoint + 1,
         hand[w].left = Due(enclosed, hand[w].step), hand[w].step \in 1..MaxSteps,
         checkpoint' = hand[w].step, rows' = rows \o Rows(hand[w].left, Len(rows)),
         Becomes(w, AfterKept(hand[w].step)), UNCHANGED <<keeping, enclosed, live, reader>>
  PROVE  LogInv'
<1>0. MaxSteps \in Nat /\ checkpoint \in 0..MaxSteps /\ rows \in Seq(Row) /\ Numbered(rows)
  BY LogAssumption DEF LogInv
<1>1. PICK h \in Hand : h = hand[w]
  BY DEF LogInv
<1>2. PICK now : now = AfterKept(h.step)
  OBVIOUS
<1>4. Becomes(w, now) /\ Carried /\ hand \in [Writer -> Hand]
  BY <1>1, <1>2 DEF LogInv
<1>5. h.left \in Seq(LogEvent)
  BY DEF Hand
<1>6. Grown(rows, h.left, rows')
  BY <1>0, <1>1, <1>5, RowsAdded
<1>7. /\ \A i \in 1..Len(h.left) : Among(h.left[i], rows')
      /\ EventsIn(rows') = EventsIn(rows) \o h.left
  <2>1. \A i \in 1..Len(h.left) : Among(h.left[i], rows')
    BY <1>0, <1>5, <1>6, LogGrows
  <2>2. PICK es \in Seq(LogEvent) : es = h.left
    BY <1>5
  <2>3. EventsIn(rows') = EventsIn(rows) \o es
    <3>1. PICK new : new = rows'
      OBVIOUS
    <3>2. Grown(rows, es, new)
      BY <1>6, <2>2, <3>1
    <3>3. EventsIn(new) = EventsIn(rows) \o es
      BY <1>0, <3>2, LogGrows
    <3> QED
      BY <3>1, <3>3
  <2> QED
    BY <2>1, <2>2, <2>3
<1>8. EventsIn(rows') = EventsUpTo(enclosed)[checkpoint']
  <2>1. EventsIn(rows) = EventsUpTo(enclosed)[checkpoint]
    BY DEF LogInv, LogFits
  <2>2. checkpoint \in 0..(MaxSteps - 1)
    BY <1>0
  <2> QED
    BY <1>1, <1>4, <1>7, <2>1, <2>2, EventsByStep
<1>9. LogFits'
  BY <1>8 DEF LogFits
<1>10. now \in Hand /\ WriterFits(w)'
  BY <1>1, <1>2, <1>4, <1>7, StepKept
<1>11. checkpoint' \in 0..MaxSteps
  BY <1>0
<1> QED
  BY <1>4, <1>5, <1>6, <1>9, <1>10, <1>11, LogOnly

LEMMA WriterKeeps ==
  ASSUME OneWriter, LogInv, NEW w \in Writer, KeepInMemory(w)
  PROVE  LogInv'
<1>1. /\ keeping # "stores" /\ hand[w].at = "save" /\ hand[w].step = checkpoint + 1
      /\ hand[w].left = Due(enclosed, hand[w].step) /\ hand[w].step \in 1..MaxSteps
  BY DEF KeepInMemory, LogInv, WriterFits
<1> QED
  BY <1>1, StepIsLogged DEF KeepInMemory

LEMMA WriterCommits ==
  ASSUME OneWriter, LogInv, NEW w \in Writer, Commit(w)
  PROVE  LogInv'
<1>1. /\ keeping # "stores" /\ hand[w].at = "insert" /\ hand[w].step = checkpoint + 1
      /\ hand[w].left = Due(enclosed, hand[w].step) /\ hand[w].step \in 1..MaxSteps
      /\ hand[w].seen = Len(rows)
  BY DEF Commit, LogInv, WriterFits
<1> QED
  BY <1>1, StepIsLogged DEF Commit

LEMMA WriterInserts ==
  ASSUME OneWriter, LogInv, NEW w \in Writer, InsertRow(w)
  PROVE  LogInv'
<1>0. /\ MaxSteps \in Nat /\ checkpoint \in 0..MaxSteps /\ rows \in Seq(Row) /\ Numbered(rows)
      /\ Len(rows) \in Nat
  BY LogAssumption DEF LogInv
<1>1. PICK h \in Hand : h = hand[w]
  BY DEF LogInv
<1>2. /\ WriterFits(w) /\ h.at = "insert" /\ keeping = "stores" /\ h.left \in Seq(LogEvent)
      /\ keeping' = keeping /\ checkpoint' = checkpoint /\ enclosed' = enclosed
  BY <1>1 DEF LogInv, InsertRow, Hand
<1>3. /\ h.seen = Len(rows) /\ h.step \in 1..MaxSteps /\ Len(h.left) > 0 /\ h.step = checkpoint
      /\ \A i \in 1..Len(h.left) : h.left[i].step = checkpoint /\ ~Among(h.left[i], rows)
      /\ \A i, j \in 1..Len(h.left) : h.left[i] = h.left[j] => i = j
      /\ \A i \in 1..Len(Due(enclosed, checkpoint)) :
            \/ Among(Due(enclosed, checkpoint)[i], rows)
            \/ \E j \in 1..Len(h.left) : h.left[j] = Due(enclosed, checkpoint)[i]
  BY <1>1, <1>2 DEF WriterFits, Appending
<1>4. PICK e \in LogEvent : e = Head(h.left) /\ e = h.left[1] /\ 1 \in 1..Len(h.left)
  BY <1>2, <1>3
<1>5. PICK es \in Seq(LogEvent) : es = <<e>> /\ Len(es) = 1 /\ es[1] = e
  <2>1. PICK es : es = <<e>>
    OBVIOUS
  <2>2. Len(es) = 1 /\ es[1] = e /\ es \in Seq(LogEvent)
    BY <2>1
  <2> QED
    BY <2>1, <2>2
<1>6. Grown(rows, es, rows')
  <2>1. rows' = Append(rows, [event |-> e, index |-> Len(rows)])
    BY <1>1, <1>3, <1>4 DEF InsertRow
  <2> QED
    BY <1>0, <1>5, <2>1, RowAdded
<1>7. /\ \A f : Among(f, rows) => Among(f, rows')
      /\ Among(e, rows')
      /\ \A f : Among(f, rows') => Among(f, rows) \/ f = e
  <2>1. \A f : Among(f, rows) => Among(f, rows')
    BY <1>0, <1>6, LogGrows
  <2>2. \A i \in 1..Len(es) : Among(es[i], rows')
    BY <1>0, <1>6, LogGrows
  <2>3. \A f : Among(f, rows') => Among(f, rows) \/ \E i \in 1..Len(es) : f = es[i]
    BY <1>0, <1>6, LogGrows
  <2> QED
    BY <1>5, <2>1, <2>2, <2>3
<1>8. Ordered'
  <2>1. \A j \in 1..Len(rows) : rows[j].event.step \in Int /\ rows[j].event.step <= checkpoint
    <3>1. \A j \in 1..Len(rows) : rows[j].event \in LogEvent
      BY <1>0, EventsInRows
    <3>2. Ordered
      BY <1>2 DEF LogInv, LogFits
    <3> QED
      BY <1>0, <3>1, <3>2 DEF LogEvent, Ordered
  <2>2. e.step = checkpoint /\ ~Among(e, rows)
    BY <1>3, <1>4
  <2>3. Len(rows') = Len(rows) + 1 /\ \A j \in 1..Len(rows) : rows'[j] = rows[j]
    BY <1>5, <1>6 DEF Grown
  <2>4. rows'[Len(rows) + 1].event = e
    <3>1. 1 \in 1..Len(es)
      BY <1>5
    <3> QED
      BY <1>5, <1>6, <3>1 DEF Grown
  <2>5. \A j \in 1..Len(rows) : rows[j].event # e
    BY <2>2 DEF Among
  <2>6. Ordered
    BY <1>2 DEF LogInv, LogFits
  <2> SUFFICES ASSUME NEW i \in 1..Len(rows'), NEW j \in 1..Len(rows')
               PROVE  /\ rows'[i].event.step <= checkpoint
                      /\ i < j => /\ rows'[i].event.step <= rows'[j].event.step
                                  /\ rows'[i].event # rows'[j].event
    BY <1>2 DEF Ordered
  <2>7. CASE i \in 1..Len(rows) /\ j \in 1..Len(rows)
    BY <2>3, <2>6, <2>7 DEF Ordered
  <2>8. CASE i \in 1..Len(rows) /\ j = Len(rows) + 1
    BY <2>1, <2>2, <2>3, <2>4, <2>5, <2>8
  <2>9. CASE i = Len(rows) + 1
    BY <1>0, <2>2, <2>3, <2>4, <2>9
  <2> QED
    BY <1>0, <2>3, <2>7, <2>8, <2>9
<1>9. PICK now : /\ now = IF Len(h.left) > 1 THEN [h EXCEPT !.at = "append", !.left = Tail(@)]
                          ELSE AfterKept(h.step)
                 /\ Becomes(w, now)
  BY <1>1 DEF InsertRow
<1>10. hand'[w] = now
  BY <1>9 DEF LogInv, Becomes
<1>11. now \in Hand /\ WriterFits(w)'
  <2>1. CASE Len(h.left) > 1
    <3>1. PICK t : t = Tail(h.left)
      OBVIOUS
    <3>2. t \in Seq(LogEvent) /\ Len(t) = Len(h.left) - 1 /\ \A i \in 1..Len(t) : t[i] = h.left[i + 1]
      BY <1>2, <2>1, <3>1
    <3>3. now = [h EXCEPT !.at = "append", !.left = t]
      BY <1>9, <2>1, <3>1
    <3>4. now \in Hand /\ now.at = "append" /\ now.step = h.step /\ now.left = t
      BY <3>2, <3>3 DEF Hand, LogStage
    <3>5. \A i \in 1..Len(t) : i + 1 \in 1..Len(h.left) /\ i + 1 # 1 /\ t[i] = h.left[i + 1]
      BY <1>2, <3>2
    <3>6. \A i \in 1..Len(t) : t[i].step = checkpoint /\ ~Among(t[i], rows')
      BY <1>3, <1>4, <1>7, <3>5
    <3>7. \A i, j \in 1..Len(t) : t[i] = t[j] => i = j
      <4> SUFFICES ASSUME NEW i \in 1..Len(t), NEW j \in 1..Len(t), t[i] = t[j] PROVE i = j
        OBVIOUS
      <4>1. i + 1 = j + 1
        BY <1>3, <3>5
      <4> QED
        BY <4>1
    <3>8. ASSUME NEW i \in 1..Len(Due(enclosed, checkpoint))
          PROVE  \/ Among(Due(enclosed, checkpoint)[i], rows')
                 \/ \E j \in 1..Len(t) : t[j] = Due(enclosed, checkpoint)[i]
      <4>1. CASE Among(Due(enclosed, checkpoint)[i], rows)
        BY <1>7, <4>1
      <4>2. ASSUME NEW j \in 1..Len(h.left), h.left[j] = Due(enclosed, checkpoint)[i]
            PROVE  \/ Among(Due(enclosed, checkpoint)[i], rows')
                   \/ \E k \in 1..Len(t) : t[k] = Due(enclosed, checkpoint)[i]
        <5>1. CASE j = 1
          BY <1>4, <1>7, <4>2, <5>1
        <5>2. CASE j # 1
          <6>1. j - 1 \in 1..Len(t) /\ (j - 1) + 1 = j
            BY <1>2, <3>2, <5>2
          <6>2. t[j - 1] = h.left[j]
            BY <3>2, <6>1
          <6> QED
            BY <4>2, <6>1, <6>2
        <5> QED
          BY <5>1, <5>2
      <4> QED
        BY <1>3, <4>1, <4>2
    <3>9. Appending(w)'
      BY <1>2, <1>3, <1>10, <3>4, <3>6, <3>7, <3>8 DEF Appending
    <3>10. Len(t) > 0
      BY <1>2, <2>1, <3>2
    <3> QED
      BY <1>2, <1>3, <1>10, <3>4, <3>9, <3>10 DEF WriterFits
  <2>2. CASE ~(Len(h.left) > 1)
    <3>1. now = AfterKept(h.step)
      BY <1>9, <2>2
    <3>3. /\ Carried /\ hand \in [Writer -> Hand] /\ Becomes(w, now)
          /\ enclosed' = enclosed /\ checkpoint' = h.step
      BY <1>2, <1>3, <1>9 DEF LogInv, InsertRow
    <3>4. \A j \in 1..Len(h.left) : j = 1
      BY <1>2, <2>2
    <3>5. \A i \in 1..Len(Due(enclosed, checkpoint)) : Among(Due(enclosed, checkpoint)[i], rows')
      BY <1>3, <1>4, <1>7, <3>4
    <3> QED
      BY <1>3, <3>1, <3>3, <3>5, StepKept
  <2> QED
    BY <2>1, <2>2
<1> QED
  <2>1. LogFits'
    BY <1>2, <1>8 DEF LogFits
  <2> QED
    BY <1>0, <1>2, <1>6, <1>9, <1>11, <2>1, LogOnly DEF InsertRow

\* What the client reads.
LEMMA ListedAre ==
  ASSUME LogInv, NEW after \in 0..Len(rows)
  PROVE  /\ ListEvents(after) \in Seq(LogEvent) /\ Len(ListEvents(after)) = Len(rows) - after
         /\ \A j \in 1..Len(ListEvents(after)) : /\ after + j \in 1..Len(rows)
                                                 /\ ListEvents(after)[j] = rows[after + j].event
<1>0. /\ rows \in Seq(Row) /\ Numbered(rows) /\ Len(rows) \in Nat /\ after \in Nat
      /\ Len(rows) \in 0..Len(rows)
  BY DEF LogInv
<1>1. ListEvents(after) = ListedFrom(after, Len(rows))
  BY <1>0, RowsAreListed
<1>2. PICK s : s = ListedFrom(after, Len(rows))
  OBVIOUS
<1>3. /\ s \in Seq(LogEvent) /\ Len(s) = IF Len(rows) <= after THEN 0 ELSE Len(rows) - after
      /\ \A j \in 1..Len(s) : s[j] = rows[after + j].event
  BY <1>0, <1>2, ListedTo
<1>4. Len(s) = Len(rows) - after
  BY <1>0, <1>3
<1>5. \A j \in 1..Len(s) : after + j \in 1..Len(rows)
  BY <1>0, <1>4
<1> QED
  BY <1>1, <1>2, <1>3, <1>4, <1>5

LEMMA PageFits ==
  ASSUME LogInv, NEW after \in 0..Len(rows)
  PROVE  /\ PageFrom(after) \in Seq(LogEvent) /\ Len(PageFrom(after)) <= Len(rows) - after
         /\ \A j \in 1..Len(PageFrom(after)) : PageFrom(after)[j] = rows[after + j].event
<1>1. PICK s : s = ListEvents(after)
  OBVIOUS
<1>2. /\ s \in Seq(LogEvent) /\ Len(s) = Len(rows) - after
      /\ \A j \in 1..Len(s) : s[j] = rows[after + j].event
  BY <1>1, ListedAre
<1>3. CASE Len(s) > PageLimit
  <2>1. PICK t : t = SubSeq(s, 1, PageLimit)
    OBVIOUS
  <2>2. PageLimit \in Nat /\ PageLimit # 0 /\ Len(s) \in Nat
    BY <1>2, LogAssumption
  <2>3. \A i \in 1..PageLimit : s[i] \in LogEvent /\ i \in 1..Len(s)
    BY <1>2, <1>3, <2>2
  <2>4. t \in Seq(LogEvent) /\ Len(t) = PageLimit /\ \A i \in 1..PageLimit : t[i] = s[i]
    BY <1>2, <1>3, <2>1, <2>2, <2>3
  <2>5. PageFrom(after) = t
    BY <1>1, <1>3, <2>1 DEF PageFrom
  <2>6. Len(t) <= Len(rows) - after
    BY <1>2, <1>3, <2>2, <2>4
  <2>7. \A j \in 1..Len(t) : t[j] = rows[after + j].event
    BY <1>2, <2>3, <2>4
  <2> QED
    BY <2>4, <2>5, <2>6, <2>7
<1>4. CASE ~(Len(s) > PageLimit)
  <2>1. PageFrom(after) = s
    BY <1>1, <1>4 DEF PageFrom
  <2> QED
    BY <1>2, <2>1
<1> QED
  BY <1>3, <1>4

LEMMA ClientReads ==
  ASSUME LogInv, ReadPage
  PROVE  LogInv'
<1>0. /\ reader \in [after : Nat, got : Seq(LogEvent), total : Nat] /\ ReaderFits
      /\ rows \in Seq(Row) /\ Len(rows) \in Nat /\ rows' = rows
  BY DEF LogInv, ReadPage
<1>1. PICK page, have, after : page = PageFrom(reader.after) /\ have = reader.got /\ after = reader.after
  OBVIOUS
<1>2. /\ after \in 0..Len(rows) /\ have \in Seq(LogEvent) /\ Len(have) = after
      /\ \A j \in 1..after : have[j] = rows[j].event
  BY <1>0, <1>1 DEF ReaderFits
<1>3. /\ page \in Seq(LogEvent) /\ Len(page) <= Len(rows) - after
      /\ \A j \in 1..Len(page) : page[j] = rows[after + j].event
  BY <1>1, <1>2, PageFits
<1>4. PICK all : all = have \o page
  OBVIOUS
<1> HIDE DEF LogEvent
<1>5. reader' = [reader EXCEPT !.got = all, !.after = after + Len(page)]
  BY <1>1, <1>4 DEF ReadPage
<1>6. Len(page) \in Nat /\ after + Len(page) \in 0..Len(rows)
  BY <1>0, <1>2, <1>3
<1>7. /\ all \in Seq(LogEvent) /\ Len(all) = Len(have) + Len(page)
      /\ \A j \in 1..Len(have) : all[j] = have[j]
      /\ \A j \in 1..Len(page) : all[Len(have) + j] = page[j]
  <2>1. Len(have) \in Nat /\ page \in Seq(LogEvent) /\ have \in Seq(LogEvent)
    BY <1>2, <1>3
  <2> QED
    BY <1>4, <1>6, <2>1
<1>8. ASSUME NEW j \in 1..(after + Len(page)) PROVE all[j] = rows[j].event
  <2>1. CASE j \in 1..after
    BY <1>2, <1>7, <2>1
  <2>2. CASE j \notin 1..after
    <3>1. PICK i \in 1..Len(page) : j = after + i
      <4>1. j - after \in 1..Len(page) /\ j = after + (j - after)
        BY <1>2, <1>6, <2>2
      <4> QED
        BY <4>1
    <3> QED
      BY <1>2, <1>3, <1>7, <3>1
  <2> QED
    BY <2>1, <2>2
<1>9. /\ reader'.after = after + Len(page) /\ reader'.got = all
      /\ reader' \in [after : Nat, got : Seq(LogEvent), total : Nat]
  <2>1. after + Len(page) \in Nat
    BY <1>2, <1>6
  <2> QED
    BY <1>0, <1>5, <1>7, <2>1
<1>10. ReaderFits'
  BY <1>0, <1>2, <1>6, <1>7, <1>8, <1>9 DEF ReaderFits
<1> QED
  BY <1>9, <1>10 DEF Carried, LogInv, ReadPage, LogFits, Ordered, WriterFits, Appending

LEMMA ClientCounts ==
  ASSUME LogInv, CountTotal
  PROVE  LogInv'
<1>1. /\ reader' \in [after : Nat, got : Seq(LogEvent), total : Nat]
      /\ reader'.after = reader.after /\ reader'.got = reader.got
  <2>1. /\ reader \in [after : Nat, got : Seq(LogEvent), total : Nat] /\ Len(rows) \in Nat
        /\ reader' = [reader EXCEPT !.total = Len(rows)]
    BY DEF CountTotal, LogInv
  <2> HIDE DEF LogEvent
  <2> QED
    BY <2>1
<1>2. ReaderFits'
  BY <1>1 DEF ReaderFits, CountTotal, LogInv
<1> QED
  BY <1>1, <1>2 DEF Carried, LogInv, CountTotal, LogFits, Ordered, WriterFits, Appending

LEMMA LogStays ==
  ASSUME OneWriter, LogInv, [LogNext]_logVars
  PROVE  LogInv'
<1>1. CASE UNCHANGED logVars
  BY <1>1 DEF logVars, Carried, LogInv, LogFits, Ordered, ReaderFits, WriterFits, Appending
<1>2. ASSUME NEW w \in Writer, WriterStep(w) PROVE LogInv'
  BY <1>2, WriterResumes, WriterRetries, WriterKeeps, WriterSaves, WriterCounts, WriterInserts, WriterCommits,
     WriterPublishes, WriterStops DEF WriterStep
<1> QED
  BY <1>1, <1>2, ClientReads, ClientCounts DEF LogNext, LogRest

\* A part of a list.
LEMMA PartOf ==
  ASSUME NEW s \in Seq(LogEvent), NEW m \in 1..(Len(s) + 1), NEW n \in Int, n <= Len(s), m <= n + 1
  PROVE  /\ SubSeq(s, m, n) \in Seq(LogEvent) /\ Len(SubSeq(s, m, n)) = n - m + 1
         /\ \A i \in 1..(n - m + 1) : SubSeq(s, m, n)[i] = s[m + i - 1]
<1>0. Len(s) \in Nat /\ m \in Int
  OBVIOUS
<1>1. \A i \in m..n : s[i] \in LogEvent
  BY <1>0
<1>2. PICK t : t = SubSeq(s, m, n)
  OBVIOUS
<1>3. t \in Seq(LogEvent)
  BY <1>0, <1>1, <1>2, SubSeqProperties
<1>4. Len(t) = IF m <= n THEN n - m + 1 ELSE 0
  BY <1>0, <1>1, <1>2, SubSeqProperties
<1>5. \A i \in 1..(n - m + 1) : t[i] = s[m + i - 1]
  BY <1>0, <1>1, <1>2, SubSeqProperties
<1>6. Len(t) = n - m + 1
  BY <1>0, <1>4
<1> QED
  BY <1>2, <1>3, <1>5, <1>6

LEMMA RecordsFit ==
  ASSUME LogInv
  PROVE  RecordsAgree
<1>0. /\ MaxSteps \in Nat /\ MaxSteps # 0 /\ checkpoint \in 0..MaxSteps /\ rows \in Seq(Row)
      /\ Len(rows) \in Nat /\ reader.after \in 0..Len(rows) /\ reader.got \in Seq(LogEvent)
      /\ Len(reader.got) = reader.after /\ live \in Seq(LogEvent)
  BY LogAssumption DEF LogInv, ReaderFits
<1>1. PICK log \in Seq(LogEvent) : /\ log = Logged /\ Len(log) = Len(rows)
                                   /\ \A j \in 1..Len(rows) : log[j] = rows[j].event
  <2>1. 0 \in 0..Len(rows)
    BY <1>0
  <2>2. PICK log : log = Logged
    OBVIOUS
  <2>3. /\ log \in Seq(LogEvent) /\ Len(log) = Len(rows) - 0
        /\ \A j \in 1..Len(log) : 0 + j \in 1..Len(rows) /\ log[j] = rows[0 + j].event
    BY <2>1, <2>2, ListedAre DEF Logged
  <2> QED
    BY <1>0, <2>2, <2>3
<1>2. DOMAIN log = 1..Len(rows) /\ DOMAIN live = 1..Len(live)
  BY <1>0, <1>1
<1>3. ToSet(live) \subseteq ToSet(log)
  <2>1. \A i \in 1..Len(live) : \E j \in 1..Len(rows) : live[i] = log[j]
    BY <1>1 DEF LogInv, Among
  <2> QED
    BY <1>2, <2>1 DEF ToSet
<1>4. ASSUME keeping = "stores"
      PROVE  \A i, j \in DOMAIN log : /\ log[i].step <= checkpoint
                                      /\ i < j => /\ log[i].step <= log[j].step
                                                  /\ log[i] # log[j]
  <2>1. Ordered
    BY <1>4 DEF LogInv, LogFits
  <2> QED
    BY <1>1, <1>2, <2>1 DEF Ordered
<1>5. ASSUME keeping # "stores"
      PROVE  /\ log = EventsUpTo(enclosed)[checkpoint]
             /\ (\A k \in 1..MaxSteps : Tells(k))  => Fold(log).step_index = checkpoint
             /\ (\A k \in 1..MaxSteps : ~Tells(k)) => Fold(log).step_index = 0
  <2>1. EventsIn(rows) = EventsUpTo(enclosed)[checkpoint]
    BY <1>5 DEF LogInv, LogFits
  <2>2. log = EventsIn(rows)
    <3>1. PICK s : s = EventsIn(rows)
      OBVIOUS
    <3>2. s \in Seq(LogEvent) /\ Len(s) = Len(rows) /\ \A j \in 1..Len(rows) : s[j] = rows[j].event
      BY <1>0, <3>1, EventsInRows
    <3> QED
      BY <1>1, <3>1, <3>2, SeqEqual
  <2>3. Carried
    BY DEF LogInv
  <2> QED
    BY <1>0, <2>1, <2>2, <2>3, FoldOfSteps
<1>6. LogAgrees
  BY <1>1, <1>3, <1>4, <1>5 DEF LogAgrees
<1>7. PICK have, after : have = reader.got /\ after = reader.after
  OBVIOUS
<1>8. /\ have \in Seq(LogEvent) /\ Len(have) = after /\ after \in 0..Len(rows)
      /\ \A j \in 1..after : have[j] = log[j]
  BY <1>0, <1>1, <1>7 DEF LogInv, ReaderFits
<1>9. IsPrefix(have, log)
  <2>0. /\ after \in Int /\ 1 <= after + 1
        /\ 1 \in 1..(Len(have) + 1) /\ after <= Len(have)
        /\ 1 \in 1..(Len(log) + 1) /\ after <= Len(log)
    BY <1>0, <1>1, <1>8
  <2>1. PICK s, t : s = SubSeq(have, 1, after) /\ t = SubSeq(log, 1, after)
    OBVIOUS
  <2>2. /\ s \in Seq(LogEvent) /\ Len(s) = after - 1 + 1
        /\ \A i \in 1..(after - 1 + 1) : s[i] = have[1 + i - 1]
    BY <1>8, <2>0, <2>1, PartOf
  <2>3. /\ t \in Seq(LogEvent) /\ Len(t) = after - 1 + 1
        /\ \A i \in 1..(after - 1 + 1) : t[i] = log[1 + i - 1]
    BY <2>0, <2>1, PartOf
  <2>4. ASSUME NEW i \in 1..Len(s) PROVE s[i] = t[i]
    <3>1. i \in 1..after /\ i \in 1..(after - 1 + 1) /\ 1 + i - 1 = i
      BY <2>0, <2>2
    <3>2. s[i] = have[i] /\ t[i] = log[i]
      BY <2>2, <2>3, <3>1
    <3> QED
      BY <1>8, <3>1, <3>2
  <2>5. s = t
    BY <2>2, <2>3, <2>4, SeqEqual
  <2> QED
    BY <1>0, <1>1, <1>8, <2>1, <2>5 DEF IsPrefix
<1>10. ListEvents(after) = Fork(log, after)
  <2>1. PICK s, t : s = ListEvents(after) /\ t = SubSeq(log, after + 1, Len(log))
    OBVIOUS
  <2>2. /\ s \in Seq(LogEvent) /\ Len(s) = Len(rows) - after
        /\ \A j \in 1..Len(s) : after + j \in 1..Len(rows) /\ s[j] = rows[after + j].event
    BY <1>8, <2>1, ListedAre
  <2>3. /\ t \in Seq(LogEvent) /\ Len(t) = Len(log) - (after + 1) + 1
        /\ \A i \in 1..(Len(log) - (after + 1) + 1) : t[i] = log[(after + 1) + i - 1]
    <3>1. after + 1 \in 1..(Len(log) + 1) /\ Len(log) \in Int /\ after + 1 <= Len(log) + 1
      BY <1>0, <1>1, <1>8
    <3> QED
      BY <2>1, <3>1, PartOf
  <2>4. Len(t) = Len(s)
    BY <1>0, <1>1, <1>8, <2>2, <2>3
  <2>5. ASSUME NEW i \in 1..Len(s) PROVE s[i] = t[i]
    <3>1. (after + 1) + i - 1 = after + i /\ i \in 1..(Len(log) - (after + 1) + 1)
      BY <1>0, <1>1, <1>8, <2>2, <2>3, <2>4
    <3>2. t[i] = log[after + i]
      BY <2>3, <3>1
    <3> QED
      BY <1>1, <2>2, <3>2
  <2>6. s = t
    BY <2>2, <2>3, <2>4, <2>5, SeqEqual
  <2> QED
    BY <2>1, <2>6 DEF Fork
<1> QED
  BY <1>1, <1>6, <1>7, <1>9, <1>10 DEF RecordsAgree, PagesWhole

\* A run that is executed by one writer at a time, however often it stops and
\* resumes, and whatever is handed over with its steps: the checkpoint, the log,
\* the sink and the client never disagree, as far as RecordsAgree says.
THEOREM RecordsAlwaysAgree == OneWriter => (LogSpec => []RecordsAgree)
<1> SUFFICES ASSUME OneWriter PROVE LogSpec => []RecordsAgree
  OBVIOUS
<1>1. LogInit => LogInv
  BY LogStart
<1>2. LogInv /\ [LogNext]_logVars => LogInv'
  BY LogStays
<1>3. LogInv => RecordsAgree
  BY RecordsFit
<1> QED
  BY <1>1, <1>2, <1>3, PTL DEF LogSpec
==============================================================================
