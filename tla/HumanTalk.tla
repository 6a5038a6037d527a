------------------------------ MODULE HumanTalk -----------------------------
(***************************************************************************)
(* A person in a flow: HumanAgent shows a prompt and awaits an answer, for *)
(* each of its calls (process, reply, route, contribute, review,           *)
(* consolidate, produce_final_document).  Through QueueInputChannel the    *)
(* answers come by a bounded queue and a call may time out; at the         *)
(* terminal a thread reads lines, and neither a timeout nor a cancellation *)
(* reaches it before the next line.  A flow may make two calls of one      *)
(* person at a time (the branches of a parallel workflow).                 *)
(***************************************************************************)
EXTENDS Naturals, Sequences, SequencesExt

CONSTANTS Question,  \* calls of the agent
          NoQuestion,
          QueueSize, \* answers the queue holds
          MaxExtra   \* bound on answers given when none was due

ASSUME HumanAssumption == NoQuestion \notin Question /\ {QueueSize, MaxExtra} \subseteq Nat

VARIABLES medium,    \* "queue" or "terminal"; never changes
          question,  \* where each call is
          reply,     \* the question its answer was written for
          shown,     \* the last prompt
          waiting,   \* the calls that wait, in their order
          given,     \* the answers that wait, each the question it was written for
          answered,  \* the questions somebody has answered
          strays     \* what may shift answers: a late, a double, a crossing one

humanVars == <<medium, question, reply, shown, waiting, given, answered, strays>>

HumanTypeOK ==
  /\ medium \in {"queue", "terminal"}
  /\ question \in [Question -> {"unasked", "open", "answered", "lost"}]
  /\ reply \in [Question -> Question \cup {NoQuestion}]
  /\ shown \in Question \cup {NoQuestion}
  /\ waiting \in Seq(Question)
  /\ given \in Seq(Question) /\ Len(given) <= QueueSize
  /\ answered \subseteq Question
  /\ strays \subseteq {"late", "double", "crossing"}

HumanInit ==
  /\ medium \in {"queue", "terminal"}
  /\ question = [c \in Question |-> "unasked"]
  /\ reply = [c \in Question |-> NoQuestion]
  /\ shown = NoQuestion /\ waiting = <<>> /\ given = <<>>
  /\ answered = {} /\ strays = {}

\* The prompt replaces the last one.
Ask(c) ==
  /\ question[c] = "unasked"
  /\ question' = [question EXCEPT ![c] = "open"]
  /\ shown' = c
  /\ waiting' = Append(waiting, c)
  /\ strays' = IF waiting = <<>> THEN strays ELSE strays \cup {"crossing"}
  /\ UNCHANGED <<medium, reply, given, answered>>

\* The person answers the prompt there is, in time or not, once or again.  An
\* answer too many for the queue is refused.
PushResponse ==
  /\ shown # NoQuestion /\ Len(given) < QueueSize
  /\ shown \in answered => Len(given) < MaxExtra
  /\ given' = Append(given, shown)
  /\ answered' = answered \cup {shown}
  /\ strays' = strays \cup (IF shown \in answered THEN {"double"} ELSE {})
                      \cup (IF question[shown] = "lost" THEN {"late"} ELSE {})
  /\ UNCHANGED <<medium, question, reply, shown, waiting>>

\* In a queue the call that waits longest comes first; at the terminal any
\* thread may get the line.
MayTake(c) ==
  /\ given # <<>> /\ Contains(waiting, c)
  /\ medium = "queue" => c = Head(waiting)

StopWaiting(c) ==
  \E i \in DOMAIN waiting : waiting[i] = c /\ waiting' = RemoveAt(waiting, i)

\* Variant: the answer stays in the queue.
PeekResponse(c) ==
  /\ MayTake(c)
  /\ reply' = [reply EXCEPT ![c] = Head(given)]
  /\ question' = [question EXCEPT ![c] = "answered"]
  /\ StopWaiting(c)
  /\ UNCHANGED <<medium, shown, given, answered, strays>>

\* The oldest answer is taken.
Receive(c) ==
  /\ MayTake(c)
  /\ reply' = [reply EXCEPT ![c] = Head(given)]
  /\ given' = Tail(given)
  /\ question' = [question EXCEPT ![c] = "answered"]
  /\ StopWaiting(c)
  /\ UNCHANGED <<medium, shown, answered, strays>>

\* fail_after, or a cancellation: an answer that is there stays for whoever asks
\* next, or is lost if it was already on its way to this call.
GiveUpWaiting(c) ==
  /\ medium = "queue" /\ question[c] = "open"
  /\ question' = [question EXCEPT ![c] = "lost"]
  /\ StopWaiting(c)
  /\ given' \in {given} \cup (IF MayTake(c) THEN {Tail(given)} ELSE {})
  /\ strays' = IF c \in ToSet(given') THEN strays \cup {"late"} ELSE strays
  /\ UNCHANGED <<medium, reply, shown, answered>>

HumanNext ==
  \/ PushResponse
  \/ \E c \in Question : Ask(c) \/ Receive(c) \/ GiveUpWaiting(c)

HumanSpec == HumanInit /\ [][HumanNext]_humanVars

-----------------------------------------------------------------------------
\* Nobody gives an answer late, twice, or with two questions open: then a call
\* takes the answer to its own question.
NothingShifted ==
  strays = {} => \A c \in Question : question[c] = "answered" => reply[c] = c

\* An answer is taken by one call at most, and is gone then, however late it
\* came and whatever questions it crossed; unless it was given twice.
TakenOnce ==
  "double" \notin strays =>
     \A c \in Question : question[c] = "answered" =>
        /\ reply[c] \notin ToSet(given)
        /\ \A d \in Question \ {c} : question[d] = "answered" => reply[d] # reply[c]

\* Answers reach the calls they were written for while nothing shifts them, and
\* no answer serves two calls when something does.
AnswersFit == NothingShifted /\ TakenOnce
=============================================================================
