------------------------------- MODULE CliTurn ------------------------------
(***************************************************************************)
(* One turn of CLIAgentDriver: send_turn starts a command-line agent,      *)
(* writes the request to its stdin and closes it, reads its stdout to the  *)
(* end, waits for its exit, and only then, if it failed, reads its stderr. *)
(* There is no timeout of its own; a turn may be cancelled from outside,   *)
(* which kills the child.  The child is any program that keeps its streams *)
(* open while it lives; between the two every stream is a pipe with its    *)
(* buffer in the event loop, of bounded size.                              *)
(***************************************************************************)
EXTENDS Naturals

CONSTANTS PipeSize,   \* what a pipe and its buffer hold
          MaxRequest, \* bound on the request
          MaxSaid     \* bound on what the child writes to each of its streams

ASSUME CliAssumption == {PipeSize, MaxRequest, MaxSaid} \subseteq Nat

VARIABLES request,  \* how much of the request is still to be sent
          pipe,     \* what is in each pipe
          shut,     \* the driver has closed stdin
          driver,   \* where send_turn is
          child,    \* what the child does next, or how it ended
          said,     \* how much the child has written to each stream
          read,     \* how much stdout the driver has read
          size      \* the size of the request

turnVars == <<request, pipe, shut, driver, child, said, read, size>>

Stream == {"stdout", "stderr"}
Exit == {"ok", "failed"}
Ended == Exit \cup {"killed"}
Over == {"completed", "raised", "cancelled"}

CliTypeOK ==
  /\ {request, read, size} \subseteq Nat
  /\ pipe \in [Stream \cup {"stdin"} -> 0 .. PipeSize]
  /\ shut \in BOOLEAN
  /\ driver \in {"send", "read", "wait", "errors", "completed", "raised", "cancelled"}
  /\ child \in Stream \cup {"stdin", "thinks"} \cup Ended
  /\ said \in [Stream -> 0 .. MaxSaid]

\* A prompt that goes on the command line leaves nothing to send.
CliInit ==
  /\ size \in 0 .. MaxRequest /\ request = size
  /\ pipe = [s \in Stream \cup {"stdin"} |-> 0]
  /\ shut = FALSE /\ driver = "send" /\ child = "thinks"
  /\ said = [s \in Stream |-> 0] /\ read = 0

-----------------------------------------------------------------------------
(* The child.                                                               *)

Decide ==
  /\ child = "thinks"
  /\ child' \in {"stdin"} \cup Exit \cup {s \in Stream : said[s] < MaxSaid}
  /\ UNCHANGED <<request, pipe, shut, driver, said, read, size>>

ReadInput ==
  /\ child = "stdin"
  /\ \/ pipe["stdin"] > 0 /\ pipe' = [pipe EXCEPT !["stdin"] = @ - 1]
     \/ pipe["stdin"] = 0 /\ shut /\ UNCHANGED pipe
  /\ child' = "thinks"
  /\ UNCHANGED <<request, shut, driver, said, read, size>>

Say(s) ==
  /\ child = s /\ pipe[s] < PipeSize
  /\ pipe' = [pipe EXCEPT ![s] = @ + 1]
  /\ said' = [said EXCEPT ![s] = @ + 1]
  /\ child' = "thinks"
  /\ UNCHANGED <<request, shut, driver, read, size>>

-----------------------------------------------------------------------------
(* send_turn.                                                               *)

SendInput ==
  /\ driver = "send" /\ request > 0 /\ pipe["stdin"] < PipeSize
  /\ request' = request - 1
  /\ pipe' = [pipe EXCEPT !["stdin"] = @ + 1]
  /\ UNCHANGED <<shut, driver, child, said, read, size>>

\* A child that is gone may break the pipe.
InputBreaks ==
  /\ driver = "send" /\ request > 0 /\ child \in Ended
  /\ driver' = "raised"
  /\ UNCHANGED <<request, pipe, shut, child, said, read, size>>

\* Variant: stdin is left open.
CloseInputLate ==
  /\ driver = "send" /\ request = 0
  /\ driver' = "read"
  /\ UNCHANGED <<request, pipe, shut, child, said, read, size>>

CloseInput ==
  /\ driver = "send" /\ request = 0
  /\ shut' = TRUE
  /\ driver' = "read"
  /\ UNCHANGED <<request, pipe, child, said, read, size>>

ReadOutput ==
  /\ driver = "read"
  /\ \/ /\ pipe["stdout"] > 0
        /\ pipe' = [pipe EXCEPT !["stdout"] = @ - 1]
        /\ read' = read + 1
        /\ UNCHANGED driver
     \/ /\ pipe["stdout"] = 0 /\ child \in Ended
        /\ driver' = "wait"
        /\ UNCHANGED <<pipe, read>>
  /\ UNCHANGED <<request, shut, child, said, size>>

AwaitExit ==
  /\ driver = "wait" /\ child \in Ended
  /\ driver' = IF child = "ok" THEN "completed" ELSE "errors"
  /\ UNCHANGED <<request, pipe, shut, child, said, read, size>>

ReadErrors ==
  /\ driver = "errors"
  /\ pipe' = [pipe EXCEPT !["stderr"] = 0]
  /\ driver' = "raised"
  /\ UNCHANGED <<request, shut, child, said, read, size>>

\* The end of the block that opened the process.
CancelCli ==
  /\ driver \notin Over
  /\ driver' = "cancelled"
  /\ child' = IF child \in Ended THEN child ELSE "killed"
  /\ UNCHANGED <<request, pipe, shut, said, read, size>>

CliNext ==
  \/ Decide \/ ReadInput \/ (\E s \in Stream : Say(s))
  \/ SendInput \/ InputBreaks \/ CloseInput \/ ReadOutput \/ AwaitExit \/ ReadErrors \/ CancelCli

CliSpec == CliInit /\ [][CliNext]_turnVars

-----------------------------------------------------------------------------
DriverWaits ==
  \/ driver = "send" /\ request > 0 /\ pipe["stdin"] = PipeSize
  \/ driver = "read" /\ pipe["stdout"] = 0
  \/ driver = "wait"

ChildWaits ==
  \/ child = "stdin" /\ pipe["stdin"] = 0 /\ ~shut
  \/ child \in Stream /\ pipe[child] = PipeSize

\* The driver and its child wait for each other, and so for ever, only if the
\* child has filled its stderr, which nobody reads while it runs, or has filled
\* its stdout before it took a request that its stdin cannot hold.  And a turn
\* that completes has the whole output of a child that succeeded; no child
\* outlives its turn.
PipesFlow ==
  /\ DriverWaits /\ ChildWaits =>
        said["stderr"] >= PipeSize \/ (size > PipeSize /\ said["stdout"] >= PipeSize)
  /\ driver = "completed" => child = "ok" /\ read = said["stdout"]
  /\ driver \in Over => child \in Ended
=============================================================================
