------------------------------ MODULE Dashboard ------------------------------
(***************************************************************************)
(* Flows run from the dashboard, and what it shows of them.                *)
(*                                                                         *)
(* A flow publishes its events into the stream of TuiEventSink, of bounded *)
(* size; a worker of the app, the bridge, is to take them out and post     *)
(* them to the sidebar.  The flow is a worker too.  Both are started       *)
(* `exclusive', whereby the toolkit first cancels all other workers of the *)
(* app: the bridge is over before the first flow begins, and nothing ever  *)
(* takes an event out.  What follows in the code - batches, cards, the     *)
(* record of events - is never reached and not modelled.                   *)
(*                                                                         *)
(* A cancelled worker that has not begun never begins.  A flow that has    *)
(* gets the cancellation where it waits, once: it may say a last word,     *)
(* closes its agents and leaves, while the next flow is under way.         *)
(***************************************************************************)
EXTENDS Sequences, Naturals, FiniteSets

CONSTANTS Press,      \* the times `run' is asked for
          FeedSize,   \* bound: events the stream holds (256 in the code)
          MaxEvents   \* bound: events of one flow, the last word aside

ASSUME FeedAssumption == FeedSize \in Nat \ {0} /\ MaxEvents \in Nat \ {0}

VARIABLES listening,  \* the bridge waits for events
          feed,       \* how many events are in the stream
          work,       \* each flow's worker
          sent,       \* how many events each flow has sent
          running,    \* the sidebar says that a flow runs
          stopKey,    \* RunStopped waits in the app's messages
          history     \* the flows the provider has recorded

dashVars == <<listening, feed, work, sent, running, stopKey, history>>

DashInit ==
  /\ listening = TRUE /\ running = FALSE /\ stopKey = FALSE
  /\ feed = 0 /\ history = {}
  /\ work = [p \in Press |-> "idle"] /\ sent = [p \in Press |-> 0]

DashTypeOK ==
  /\ listening \in BOOLEAN /\ running \in BOOLEAN /\ stopKey \in BOOLEAN
  /\ feed \in 0..FeedSize
  /\ work \in [Press -> {"idle", "scheduled", "working", "sending",
                         "stopping", "lastWord", "over"}]
  /\ sent \in [Press -> 0..(MaxEvents + 1)]
  /\ history \subseteq Press

Move(p, at) == work' = [work EXCEPT ![p] = at]

\* Without a receiver: into the buffer, or wait until there is room.
Send(p, n, after, blocked) ==
  /\ sent' = [sent EXCEPT ![p] = n]
  /\ IF feed < FeedSize THEN feed' = feed + 1 /\ Move(p, after)
                        ELSE feed' = feed /\ Move(p, blocked)

\* How a cancellation finds a worker.
AfterCancel(at) ==
  CASE at = "scheduled"                          -> "over"
    [] at \in {"working", "sending", "lastWord"} -> "stopping"
    [] OTHER                                     -> at

\* Variant: a flow is started beside those that run.
RunFlowBeside(p) ==
  /\ work[p] = "idle"
  /\ listening' = FALSE
  /\ Move(p, "scheduled")
  /\ UNCHANGED <<feed, sent, running, stopKey, history>>

\* run_worker(..., exclusive=True): all others are cancelled, the bridge too.
RunFlow(p) ==
  /\ work[p] = "idle"
  /\ listening' = FALSE
  /\ work' = [q \in Press |-> IF q = p THEN "scheduled" ELSE AfterCancel(work[q])]
  /\ UNCHANGED <<feed, sent, running, stopKey, history>>

BeginFlow(p) ==
  /\ work[p] = "scheduled"
  /\ Move(p, "working") /\ running' = TRUE
  /\ UNCHANGED <<listening, feed, sent, stopKey, history>>

PublishEvent(p) ==
  /\ work[p] = "working" /\ sent[p] < MaxEvents
  /\ Send(p, sent[p] + 1, "working", "sending")
  /\ UNCHANGED <<listening, running, stopKey, history>>

\* The provider records a flow that came to its end, whatever its result; an
\* exception becomes a failed result, which is not recorded.
EndFlow(p) ==
  /\ work[p] = "working"
  /\ Move(p, "over") /\ running' = FALSE
  /\ history' \in {history, history \cup {p}}
  /\ UNCHANGED <<listening, feed, sent, stopKey>>

\* A flow that runs over target code announces that it was cancelled.
SayCancelled(p) ==
  /\ work[p] = "stopping" /\ sent[p] <= MaxEvents
  /\ Send(p, MaxEvents + 1, "stopping", "lastWord")
  /\ UNCHANGED <<listening, running, stopKey, history>>

GiveUpFlow(p) ==
  /\ work[p] = "stopping"
  /\ Move(p, "over") /\ running' = FALSE
  /\ UNCHANGED <<listening, feed, sent, stopKey, history>>

\* The key `s' only posts RunStopped: the flow goes on.
PressStop ==
  /\ ~stopKey /\ stopKey' = TRUE
  /\ UNCHANGED <<listening, feed, work, sent, running, history>>

HandleStop ==
  /\ stopKey /\ stopKey' = FALSE
  /\ running' = FALSE
  /\ UNCHANGED <<listening, feed, work, sent, history>>

DashNext ==
  \/ PressStop \/ HandleStop
  \/ \E p \in Press : RunFlow(p) \/ BeginFlow(p) \/ PublishEvent(p) \/ EndFlow(p)
                      \/ SayCancelled(p) \/ GiveUpFlow(p)

DashSpec == DashInit /\ [][DashNext]_dashVars

-----------------------------------------------------------------------------
(* Properties.                                                              *)

UnderWay == {p \in Press : work[p] \notin {"idle", "scheduled", "over"}}

\* Whatever is pressed while flows start, block, are cancelled and close, at
\* most one flow has not been told to stop, the sidebar shows a run only if
\* there is one, and the history names none that goes on.
\* (app.py:396-423; data_provider.py:385-398)
NoGhostFlow ==
  /\ Cardinality({p \in Press : work[p] \in {"scheduled", "working", "sending"}}) <= 1
  /\ running => UnderWay # {}
  /\ history \cap UnderWay = {}

\* A flow that waits for room in the stream has a bridge to make it: it can go
\* on, and what it does is shown.  (workers.py:24, app.py:273-310)
FlowIsHeard == \A p \in Press : work[p] = "sending" => listening
=============================================================================
