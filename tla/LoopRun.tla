------------------------------- MODULE LoopRun ------------------------------
(***************************************************************************)
(* AgenticLoopRuntime: a router picks the next agent, whose reply is       *)
(* supervised, until it terminates, stagnates, runs out of turns or of     *)
(* time.  Every way to stop is a FINISHED run; an exception is a FAILED    *)
(* one that the runtime does not announce.                                 *)
(***************************************************************************)
EXTENDS Flow

CONSTANTS MaxTurns, StagnationWindow
ASSUME TurnsAssumption == MaxTurns \in Nat \ {0} /\ StagnationWindow \in Nat \ {0}

VARIABLES turn,     \* state.turn_count
          routed    \* routing_history: agent and missing information

loopVars == <<turn, routed>>

Lacks == {"this", "that"}   \* what a router says is missing

LoopTypeOK ==
  /\ turn \in 0..MaxTurns
  /\ routed \in Seq(Step \X Lacks)

LoopInit == turn = 0 /\ routed = <<>>

StartLoop ==
  /\ Announce("loop", "AGENTIC_LOOP_STARTED", "route")
  /\ UNCHANGED <<superVars, loopVars>>

Stop == Conclude("AGENTIC_LOOP_STOPPED", "finished")

\* Returned without an event.
Crumble ==
  /\ phase' = "end" /\ result' = "failed"
  /\ UNCHANGED <<mode, onTimeout, log>>

Stagnates(history) ==
  /\ Len(history) >= StagnationWindow
  /\ \A i \in 0..(StagnationWindow - 1) : history[Len(history) - i] = history[Len(history)]

TurnsOver ==
  /\ phase = "route" /\ turn = MaxTurns
  /\ Stop
  /\ UNCHANGED <<superVars, loopVars>>

\* The router's choice; a choice that repeats the window stops the loop.
Route ==
  /\ phase = "route" /\ turn < MaxTurns
  /\ \E form \in Form, a \in Step, l \in Lacks :
        /\ Routes(form)
        /\ routed' = Append(routed, <<a, l>>)
        /\ IF Stagnates(routed') THEN Stop /\ UNCHANGED superVars
           ELSE Proceed("reply") /\ Begin(Main, <<"reply", a, turn>>)
  /\ UNCHANGED turn

\* An answer that is no decision raises, and routing is not supervised.
RouteMisread ==
  /\ phase = "route" /\ turn < MaxTurns
  /\ \E form \in Form : ~Routes(form) /\ Crumble
  /\ UNCHANGED <<superVars, loopVars>>

\* The router terminates, or returns nothing in time; it names an agent that
\* does not take part, or raises.
RouteEnds ==
  /\ phase = "route" /\ turn < MaxTurns
  /\ Stop \/ Crumble
  /\ UNCHANGED <<superVars, loopVars>>

Reply ==
  /\ phase = "reply"
  /\ call[Main].at = "calling"
  /\ Reset(Main)
  /\ Proceed("route")
  /\ turn' = turn + 1
  /\ UNCHANGED routed

\* A reply of None under "continue": no message can be made of it.
ReplyMissing ==
  /\ phase = "reply" /\ onTimeout = "continue"
  /\ call[Main].at = "calling"
  /\ Reset(Main)
  /\ Crumble
  /\ UNCHANGED loopVars

ReplyFails ==
  /\ phase = "reply"
  /\ \E e \in Error : (e = "timeout" => onTimeout = "abort") /\ Raise(Main, e)
  /\ UNCHANGED <<flowVars, loopVars>>

JudgeReply ==
  /\ phase = "reply"
  /\ Judge(Main, {"restart"})
  /\ UNCHANGED <<flowVars, loopVars>>

RetryReply ==
  /\ phase = "reply"
  /\ Retry(Main)
  /\ UNCHANGED <<flowVars, loopVars>>

\* A timeout of the loop or of the agent stops the loop, which is FINISHED.
TimeOut ==
  /\ phase' = "end" /\ result' = "finished"
  /\ log' = log \o <<"RUN_TIMED_OUT", "AGENTIC_LOOP_STOPPED">>
  /\ UNCHANGED <<mode, onTimeout>>

ReplyRefused ==
  /\ phase = "reply"
  /\ call[Main].at = "refused"
  /\ IF call[Main].error = "timeout" THEN TimeOut ELSE Crumble
  /\ UNCHANGED <<superVars, loopVars>>

\* policy.timeout_seconds is around router and replies; a router that is timed
\* out under "abort" is no different.
LoopTimesOut ==
  /\ phase \in {"route", "reply"}
  /\ TimeOut
  /\ IF phase = "route" THEN UNCHANGED superVars ELSE Cancel(Main)
  /\ UNCHANGED loopVars

LoopNext ==
  \/ StartLoop \/ TurnsOver \/ Route \/ RouteMisread \/ RouteEnds \/ LoopTimesOut
  \/ Reply \/ ReplyMissing \/ ReplyFails \/ JudgeReply \/ RetryReply \/ ReplyRefused
=============================================================================
