----------------------------- MODULE RunCommand -----------------------------
(***************************************************************************)
(* `miniautogen run' over and over in one project: start, stop by timeout  *)
(* or Ctrl+C with a last save, and --resume of what was stopped.           *)
(*                                                                         *)
(* A run over target code works on a context it may change in place; that  *)
(* context is what is saved when the run is stopped, if the project has a  *)
(* database, and what a resumed run starts from.  The runner gives every   *)
(* run a new identifier; the one the context carries goes before it, so    *)
(* that a resumed run is saved where it came from.  A flow that is         *)
(* configured (mode and participants) saves nothing and resumes nothing.   *)
(* Of the work the model keeps how far it has come.                        *)
(***************************************************************************)
EXTENDS Integers, FiniteSets

CONSTANTS RunId, NoRun,
          MaxWork      \* bound: how far the work of a flow goes

ASSUME RunIdAssumption == NoRun \notin RunId /\ MaxWork \in Nat

VARIABLES project,     \* has a database; its flow has target code; stores fail
          stage,       \* where the command is
          limited,     \* --timeout was given
          wanted,      \* --resume
          own,         \* the runner's identifier
          carried,     \* the identifier in the context
          progress, saved, \* progress of the context, and of each checkpoint (-1: none)
          used,        \* identifiers given so far
          exitCode,    \* of the last command
          kept         \* its last save was made

commandVars == <<project, stage, limited, wanted, own, carried, progress, saved, used,
                 exitCode, kept>>

CommandInit ==
  /\ project \in [database : BOOLEAN, target : BOOLEAN]
  /\ stage = "shell" /\ limited = FALSE /\ kept = FALSE
  /\ wanted = NoRun /\ own = NoRun /\ carried = NoRun
  /\ progress = 0 /\ saved = [r \in RunId |-> -1] /\ used = {} /\ exitCode = 0

CommandTypeOK ==
  /\ project \in [database : BOOLEAN, target : BOOLEAN]
  /\ stage \in {"shell", "opening", "resolving", "running", "timedOut", "interrupted"}
  /\ limited \in BOOLEAN /\ kept \in BOOLEAN
  /\ {wanted, own, carried} \subseteq RunId \cup {NoRun}
  /\ progress \in 0..MaxWork /\ saved \in [RunId -> -1..MaxWork] /\ used \subseteq RunId
  /\ exitCode \in {0, 1, 2, 124, 130}

ExitWith(c) == stage' = "shell" /\ exitCode' = c
Unmoved == UNCHANGED <<project, limited, wanted, own, used>>

\* Unknown flow, team mode without its variable, input outside the project.
Refuse ==
  /\ stage = "shell"
  /\ exitCode' \in {1, 2} /\ kept' = FALSE
  /\ UNCHANGED <<project, stage, limited, wanted, own, carried, progress, saved, used>>

\* Any identifier may be asked for, that of a run that was never saved too.
Launch(r, withTimeout) ==
  /\ stage = "shell"
  /\ stage' = IF project.database THEN "opening" ELSE "resolving"
  /\ limited' = withTimeout /\ wanted' = r
  /\ own' = NoRun /\ carried' = NoRun /\ progress' = 0 /\ kept' = FALSE
  /\ UNCHANGED <<project, saved, used, exitCode>>

\* init_db, before the try: a failure leaves the command as it is raised.
OpenStore ==
  /\ stage = "opening"
  /\ \/ stage' = "resolving" /\ UNCHANGED exitCode
     \/ ExitWith(1)
  /\ UNCHANGED <<carried, progress, saved, kept>> /\ Unmoved

\* The target, its factory, the engine it is built with.
TargetFails ==
  /\ stage = "resolving"
  /\ ExitWith(1)
  /\ UNCHANGED <<carried, progress, saved, kept>> /\ Unmoved

\* --resume without a store, or without a checkpoint.
ResumeFails ==
  /\ stage = "resolving" /\ project.target /\ wanted # NoRun
  /\ ~project.database \/ saved[wanted] = -1
  /\ ExitWith(1)
  /\ UNCHANGED <<carried, progress, saved, kept>> /\ Unmoved

\* The context takes over the checkpoint's state, its identifier included.
Begun(r) ==
  /\ stage = "resolving" /\ r \notin used
  /\ own' = r /\ used' = used \cup {r} /\ stage' = "running"
  /\ IF project.target /\ wanted # NoRun
     THEN /\ project.database /\ saved[wanted] # -1
          /\ carried' = wanted /\ progress' = saved[wanted]
     ELSE UNCHANGED <<carried, progress>>
  /\ UNCHANGED <<project, limited, wanted, saved, exitCode, kept>>

WorkOn ==
  /\ stage = "running" /\ project.target /\ progress < MaxWork
  /\ progress' = progress + 1
  /\ UNCHANGED <<stage, carried, saved, exitCode, kept>> /\ Unmoved

\* A configured flow is reported completed whatever its result says.
Succeed == stage = "running" /\ ExitWith(0) /\ UNCHANGED <<carried, progress, saved, kept>> /\ Unmoved
FlowRaises == stage = "running" /\ ExitWith(1) /\ UNCHANGED <<carried, progress, saved, kept>> /\ Unmoved

StopTarget(how) ==
  /\ stage = "running" /\ project.target
  /\ stage' = how
  /\ UNCHANGED <<carried, progress, saved, exitCode, kept>> /\ Unmoved

TimeLimit == limited /\ StopTarget("timedOut")

\* Ctrl+C: only a run over target code says a last word.
Interrupt ==
  \/ StopTarget("interrupted")
  \/ /\ \/ stage \in {"opening", "resolving"}
        \/ stage = "running" /\ ~project.target
     /\ ExitWith(130)
     /\ UNCHANGED <<carried, progress, saved, kept>> /\ Unmoved

\* Variant: the runner's own identifier goes before the context's.
SaveUnderOwn == own

\* {"run_id": own} updated with the context.
SaveUnder == IF carried # NoRun THEN carried ELSE own

\* _graceful_save: shielded, five seconds, failures are logged; then the
\* exception goes on to the command, unless Ctrl+C comes (again).
LastSave ==
  /\ stage \in {"timedOut", "interrupted"}
  /\ \/ /\ project.database
        /\ saved' = [saved EXCEPT ![SaveUnder] = progress] /\ kept' = TRUE
     \/ UNCHANGED <<saved, kept>>
  /\ \/ stage = "timedOut" /\ ExitWith(124)
     \/ ExitWith(130)
  /\ UNCHANGED <<carried, progress>> /\ Unmoved

CommandRuns ==
  \/ Refuse \/ OpenStore \/ TargetFails \/ ResumeFails \/ WorkOn \/ Succeed \/ FlowRaises
  \/ TimeLimit \/ Interrupt \/ LastSave
  \/ \E r \in RunId : Begun(r)
  \/ \E r \in RunId \cup {NoRun}, t \in BOOLEAN : Launch(r, t)

CommandSpec == CommandInit /\ [][CommandRuns]_commandVars

-----------------------------------------------------------------------------
(* Properties.                                                              *)

\* However often a run is stopped and resumed, what its last save holds is
\* found under the identifier it was resumed with, or under the runner's, if
\* it was not resumed; and no save ever takes back what another has kept.
\* (run_pipeline.py:152-166, 226-247; pipeline_runner.py:206-228)
WorkIsKept ==
  [][/\ kept' => saved'[IF wanted' # NoRun THEN wanted' ELSE own'] = progress'
     /\ \A r \in RunId : saved'[r] >= saved[r]]_commandVars
=============================================================================
