------------------------------ MODULE TeamMail ------------------------------
(***************************************************************************)
(* A team with a mailbox: InMemoryMailboxStore, the drain loop of each     *)
(* teammate over its inbox and the board, IdleAggregator, and the agents'  *)
(* tools send_message and request_plan_approval, asked for by the agent or *)
(* by the gate in front of one of its team tools.  The lead's turn is over *)
(* and nobody reads its inbox while the teammates run.                     *)
(*                                                                         *)
(* An inbox is a bounded stream with a shadow buffer that is peeked at and *)
(* counted.  send appends to the buffer, then awaits the stream; receive   *)
(* takes from the stream, then pops the buffer if the message is its head. *)
(* Of the board only who may be at work is kept.  Reading the inbox        *)
(* changes nothing; inbox_pop is in effect a read of nothing.              *)
(***************************************************************************)
EXTENDS PlanApproval, Sequences, SequencesExt

CONSTANTS Teammate, Lead,
          Message, NoMessage,
          BufferSize,     \* mailbox.buffer_size
          Task, Initial,  \* tasks, and those on the board at the start
          NoRequest

ASSUME MailAssumption ==
  /\ Lead \notin Teammate
  /\ NoMessage \notin Message
  /\ NoRequest \notin Request
  /\ BufferSize \in Nat \ {0}
  /\ Initial \subseteq Task

Agent == Teammate \cup {Lead}

VARIABLES letter,    \* the messages written: addressee, kind, request
          stream,    \* per inbox: the memory object stream
          blocked,   \* per inbox: messages whose senders wait for room
          shadow,    \* per inbox: the buffer
          loop,      \* where each drain loop is
          held,      \* the message a loop has taken
          turn,      \* what the agent of a loop is doing
          draft,     \* the message an agent is sending
          asked,     \* the request an agent is making
          board,     \* the status of each task
          idle       \* IdleAggregator.agents

inboxVars == <<letter, stream, blocked, shadow>>
agentVars == <<turn, draft, asked>>
vars == <<inboxVars, loop, held, agentVars, board, idle, approvalVars>>

Verdict == [plan_approval_granted |-> "granted", plan_approval_denied |-> "denied"]
Kind == {"chat", "plan_approval_request"} \cup DOMAIN Verdict
Letter == [to : Agent, kind : Kind, about : Request \cup {NoRequest}]
Unwritten == [to |-> Lead, kind |-> "none", about |-> NoRequest]

MailTypeOK ==
  /\ letter \in [Message -> Letter \cup {Unwritten}]
  /\ stream \in [Agent -> Seq(Message)] /\ \A a \in Agent : Len(stream[a]) <= BufferSize
  /\ blocked \in [Agent -> Seq(Message)]
  /\ shadow \in [Agent -> Seq(Message)]
  /\ loop \in [Teammate -> {"receive", "took", "counted", "got", "tells", "claim", "claimed", "turn",
                            "look", "pending", "mail", "restless", "idle", "asks", "waits", "bye", "left"}]
  /\ held \in [Teammate -> Message \cup {NoMessage}]
  /\ turn \in [Teammate -> {"none", "thinks", "asks", "offers", "blocked", "waits"}]
  /\ draft \in [Teammate -> Message \cup {NoMessage}]
  /\ asked \in [Teammate -> Request \cup {NoRequest}]
  /\ board \in [Task -> {"absent", "pending", "taken", "over"}]
  /\ idle \subseteq Teammate
  /\ ApprovalTypeOK

Init ==
  /\ letter = [m \in Message |-> Unwritten]
  /\ stream = [a \in Agent |-> <<>>] /\ blocked = stream /\ shadow = stream
  /\ loop = [t \in Teammate |-> "receive"]
  /\ held = [t \in Teammate |-> NoMessage]
  /\ turn = [t \in Teammate |-> "none"]
  /\ draft = held
  /\ asked = [t \in Teammate |-> NoRequest]
  /\ board = [k \in Task |-> IF k \in Initial THEN "pending" ELSE "absent"]
  /\ idle = {}
  /\ ApprovalInit

Goto(t, from, to) == loop[t] = from /\ loop' = [loop EXCEPT ![t] = to]

-----------------------------------------------------------------------------
(* The agent's turn and its tools.                                          *)

AtTurn(t, l) == loop[t] = "turn" /\ turn[t] = l

\* The message is in the buffer before the stream has accepted it.
Write(t, m, a, kind, q) ==
  /\ letter[m] = Unwritten
  /\ letter' = [letter EXCEPT ![m] = [to |-> a, kind |-> kind, about |-> q]]
  /\ shadow' = [shadow EXCEPT ![a] = Append(@, m)]
  /\ draft' = [draft EXCEPT ![t] = m]
  /\ turn' = [turn EXCEPT ![t] = "offers"]
  /\ UNCHANGED <<stream, blocked, loop, held, board, idle>>

SendMessage(t, m) ==
  /\ AtTurn(t, "thinks")
  /\ \E a \in Agent : \/ Write(t, m, a, "chat", NoRequest)
                      \/ \E k \in DOMAIN Verdict, q \in Request :
                            slot[q] # "free" /\ Write(t, m, a, k, q)
  /\ UNCHANGED <<asked, approvalVars>>

RequestPlanApproval(t, q) ==
  /\ AtTurn(t, "thinks") /\ Register(q)
  /\ asked' = [asked EXCEPT ![t] = q]
  /\ turn' = [turn EXCEPT ![t] = "asks"]
  /\ UNCHANGED <<inboxVars, loop, held, draft, board, idle>>

SendRequest(t, m) ==
  /\ AtTurn(t, "asks")
  /\ Write(t, m, Lead, "plan_approval_request", asked[t])
  /\ UNCHANGED <<asked, approvalVars>>

\* After its message a requester waits for the decision.
Sent(t) ==
  /\ draft' = [draft EXCEPT ![t] = NoMessage]
  /\ turn' = [turn EXCEPT ![t] = IF asked[t] = NoRequest THEN "thinks" ELSE "waits"]
  /\ IF asked[t] = NoRequest THEN UNCHANGED approvalVars ELSE StartWait(asked[t])

Offer(t) ==
  /\ AtTurn(t, "offers")
  /\ LET m == draft[t]
         a == letter[m].to
     IN IF Len(stream[a]) < BufferSize
        THEN /\ stream' = [stream EXCEPT ![a] = Append(@, m)]
             /\ Sent(t)
             /\ UNCHANGED blocked
        ELSE /\ blocked' = [blocked EXCEPT ![a] = Append(@, m)]
             /\ turn' = [turn EXCEPT ![t] = "blocked"]
             /\ UNCHANGED <<stream, draft, approvalVars>>
  /\ UNCHANGED <<letter, shadow, loop, held, asked, board, idle>>

\* A receiver has made room, and moved the message.
Admitted(t) ==
  /\ AtTurn(t, "blocked")
  /\ ~Contains(blocked[letter[draft[t]].to], draft[t])
  /\ Sent(t)
  /\ UNCHANGED <<inboxVars, loop, held, asked, board, idle>>

Answered(t) ==
  /\ AtTurn(t, "waits") /\ wait[asked[t]] = "over"
  /\ PassGate(asked[t])
  /\ turn' = [turn EXCEPT ![t] = "thinks"]
  /\ asked' = [asked EXCEPT ![t] = NoRequest]
  /\ UNCHANGED <<inboxVars, loop, held, draft, board, idle>>

AddTask(t, k) ==
  /\ AtTurn(t, "thinks") /\ board[k] = "absent"
  /\ board' = [board EXCEPT ![k] = "pending"]
  /\ UNCHANGED <<inboxVars, loop, held, agentVars, idle, approvalVars>>

\* The task at hand is completed or failed by its loop.
TurnOver(t) ==
  /\ Goto(t, "turn", "receive")
  /\ turn' = [turn EXCEPT ![t] = "none"]
  /\ draft' = [draft EXCEPT ![t] = NoMessage]
  /\ asked' = [asked EXCEPT ![t] = NoRequest]
  /\ UNCHANGED <<letter, stream, shadow, held, idle>>

\* The loop that holds a task is the one that took it; which it was is not kept.
Finish(k) == board[k] = "taken" /\ board' = [board EXCEPT ![k] = "over"]

TurnReturns(t) ==
  /\ AtTurn(t, "thinks") /\ TurnOver(t)
  /\ \E k \in Task : Finish(k)
  /\ UNCHANGED <<blocked, approvalVars>>

\* A blocked sender leaves the queue, unless a receiver has taken its message.
Withdraw(a, m) ==
  IF Contains(blocked[a], m)
  THEN \E i \in DOMAIN blocked[a] : /\ blocked[a][i] = m
                                    /\ blocked' = [blocked EXCEPT ![a] = RemoveAt(@, i)]
  ELSE UNCHANGED blocked

\* The turn is cancelled wherever it is: a sender leaves the queue of its
\* addressee, a requester its wait.
TurnTimesOut(t) ==
  /\ loop[t] = "turn" /\ TurnOver(t)
  /\ \E k \in Task : Finish(k)
  /\ IF turn[t] = "blocked" THEN Withdraw(letter[draft[t]].to, draft[t]) ELSE UNCHANGED blocked
  /\ IF turn[t] = "waits" /\ wait[asked[t]] # "over"
     THEN Abandon(asked[t]) ELSE UNCHANGED approvalVars

-----------------------------------------------------------------------------
(* The drain loop.                                                          *)

\* The first blocked sender's message follows into the stream.
Take(t) ==
  /\ Goto(t, "receive", "took") /\ stream[t] # <<>>
  /\ held' = [held EXCEPT ![t] = Head(stream[t])]
  /\ stream' = [stream EXCEPT ![t] = Tail(@) \o (IF blocked[t] = <<>> THEN <<>> ELSE <<Head(blocked[t])>>)]
  /\ blocked' = [blocked EXCEPT ![t] = IF @ = <<>> THEN @ ELSE Tail(@)]
  /\ UNCHANGED <<letter, shadow, agentVars, board, idle, approvalVars>>

\* Variant: whatever is delivered, the oldest message is counted as read.
CountOff(t) ==
  /\ Goto(t, "took", "counted")
  /\ shadow' = [shadow EXCEPT ![t] = IF @ = <<>> THEN @ ELSE Tail(@)]
  /\ UNCHANGED <<letter, stream, blocked, held, agentVars, board, idle, approvalVars>>

Count(t) ==
  /\ Goto(t, "took", "counted")
  /\ shadow' = [shadow EXCEPT ![t] = IF @ # <<>> /\ Head(@) = held[t] THEN Tail(@) ELSE @]
  /\ UNCHANGED <<letter, stream, blocked, held, agentVars, board, idle, approvalVars>>

Delivered(t) ==
  /\ Goto(t, "counted", "got")
  /\ UNCHANGED <<inboxVars, held, agentVars, board, idle, approvalVars>>

\* move_on_after(idle_threshold) is around all of this: without a message it
\* leaves the loop nothing, with one it may lose it on its way.
NoMail(t) ==
  /\ \/ Goto(t, "receive", "claim") /\ stream[t] = <<>>
     \/ Goto(t, "took", "claim")
     \/ Goto(t, "counted", "claim")
  /\ held' = [held EXCEPT ![t] = NoMessage]
  /\ UNCHANGED <<inboxVars, agentVars, board, idle, approvalVars>>

\* The deadline may still cut off mark_busy, but not the message.  A decision is
\* passed on, and the loop waits while it is published; any other message is
\* dropped.
Process(t) ==
  /\ loop[t] = "got"
  /\ idle' \in {idle, idle \ {t}}
  /\ LET l == letter[held[t]]
     IN IF l.kind \in DOMAIN Verdict
        THEN /\ Resolve(l.about, Verdict[l.kind])
             /\ Goto(t, "got", IF slot[l.about] = "open" THEN "tells" ELSE "receive")
        ELSE Goto(t, "got", "receive") /\ UNCHANGED approvalVars
  /\ held' = IF loop'[t] = "tells" THEN held ELSE [held EXCEPT ![t] = NoMessage]
  /\ UNCHANGED <<inboxVars, agentVars, board>>

Told(t) ==
  /\ loop[t] = "tells" /\ letter[held[t]].about \notin ringing
  /\ Goto(t, "tells", "receive")
  /\ held' = [held EXCEPT ![t] = NoMessage]
  /\ UNCHANGED <<inboxVars, agentVars, board, idle, approvalVars>>

\* The claim is published before the loop marks itself busy.
Claim(t) ==
  /\ \E k \in Task : /\ board[k] = "pending"
                     /\ board' = [board EXCEPT ![k] = "taken"]
  /\ Goto(t, "claim", "claimed")
  /\ UNCHANGED <<inboxVars, held, agentVars, idle, approvalVars>>

StartTurn(t) ==
  /\ Goto(t, "claimed", "turn")
  /\ idle' = idle \ {t}
  /\ turn' = [turn EXCEPT ![t] = "thinks"]
  /\ UNCHANGED <<inboxVars, held, draft, asked, board, approvalVars>>

Has(status) == \E k \in Task : board[k] = status

\* Three looks, at three moments: entries in progress, pending ones, the inbox.
Look(t) ==
  /\ \/ ~Has("pending") /\ Goto(t, "claim", "look")
     \/ Goto(t, "look", IF Has("taken") THEN "restless" ELSE "pending")
     \/ Goto(t, "pending", IF Has("pending") THEN "restless" ELSE "mail")
     \/ Goto(t, "mail", IF shadow[t] # <<>> THEN "restless" ELSE "idle")
  /\ UNCHANGED <<inboxVars, held, agentVars, board, idle, approvalVars>>

MarkBusy(t) ==
  /\ Goto(t, "restless", "receive")
  /\ idle' = idle \ {t}
  /\ UNCHANGED <<inboxVars, held, agentVars, board, approvalVars>>

\* Variant: a teammate that goes idle counts as busy.
MarkIdleNever(t) ==
  /\ Goto(t, "idle", "asks")
  /\ UNCHANGED <<inboxVars, held, agentVars, board, idle, approvalVars>>

MarkIdle(t) ==
  /\ Goto(t, "idle", "asks")
  /\ idle' = idle \cup {t}
  /\ UNCHANGED <<inboxVars, held, agentVars, board, approvalVars>>

AllIdle(t) ==
  /\ Goto(t, "asks", IF idle = Teammate THEN "bye" ELSE "waits")
  /\ UNCHANGED <<inboxVars, held, agentVars, board, idle, approvalVars>>

\* TEAMMATE_IDLE is published, with all_idle or without; the loop ends, or goes
\* back to its inbox.
AnnounceIdle(t) ==
  /\ Goto(t, "bye", "left") \/ Goto(t, "waits", "receive")
  /\ UNCHANGED <<inboxVars, held, agentVars, board, idle, approvalVars>>

Waiting(q) ==
  /\ WaitStep(q)
  /\ UNCHANGED <<inboxVars, loop, held, agentVars, board, idle>>

LoopStep(t) ==
  \/ Take(t) \/ Count(t) \/ Delivered(t) \/ NoMail(t) \/ Process(t) \/ Told(t) \/ Claim(t) \/ StartTurn(t)
  \/ Look(t) \/ MarkBusy(t) \/ MarkIdle(t) \/ AllIdle(t) \/ AnnounceIdle(t)

AgentStep(t) ==
  \/ Offer(t) \/ Admitted(t) \/ Answered(t) \/ TurnReturns(t) \/ TurnTimesOut(t)
  \/ \E m \in Message : SendMessage(t, m) \/ SendRequest(t, m)
  \/ \E q \in Request : RequestPlanApproval(t, q)
  \/ \E k \in Task : AddTask(t, k)

Next == (\E q \in Request : Waiting(q)) \/ (\E t \in Teammate : LoopStep(t) \/ AgentStep(t))

Spec == Init /\ [][Next]_vars

\* The event loop runs every task on, every turn has a timeout, and so has
\* every wait for an approval.
FairSpec ==
  /\ Spec
  /\ \A t \in Teammate : WF_vars(LoopStep(t)) /\ WF_vars(TurnTimesOut(t))
  /\ \A q \in Request : WF_vars(Waiting(q))

-----------------------------------------------------------------------------
(* Properties.                                                              *)

Offering(a) == {t \in Teammate : turn[t] = "offers" /\ letter[draft[t]].to = a}

\* Messages on their way to an inbox's reader.
OnTheWay(a) ==
  Range(stream[a]) \cup Range(blocked[a])
  \cup {draft[t] : t \in Offering(a)}
  \cup (IF a \in Teammate /\ loop[a] = "took" THEN {held[a]} ELSE {})

\* Whatever is cancelled and whoever sends at the same time, a message on its
\* way is counted by pending_count: a teammate with mail to come does not pass
\* the look at its inbox.
MailCounted == \A a \in Agent : OnTheWay(a) \subseteq Range(shadow[a])

\* A message that is counted and will never be delivered.
Haunted == \E t \in Teammate : Range(shadow[t]) \ OnTheWay(t) # {}

\* What leaves one behind: a send cut off between the buffer and the stream, a
\* receive cut off before it has counted, and, with nothing cut off, senders
\* that overtook each other in between: the message delivered is not the head
\* of the buffer, and stays.
SendCut(t) == turn[t] \in {"offers", "blocked"} /\ turn'[t] = "none"
ReceiveCut(t) == loop[t] = "took" /\ loop'[t] = "claim"
Overtook(t) == loop[t] = "took" /\ loop'[t] = "counted" /\ Head(shadow[t]) # held[t]

OnlyMishapsHaunt ==
  [][/\ Haunted => Haunted'
     /\ Haunted' => Haunted \/ \E t \in Teammate : SendCut(t) \/ ReceiveCut(t) \/ Overtook(t)]_vars

AllLeft == \A t \in Teammate : loop[t] = "left"

\* The loops come to agree that everyone is idle, and leave, unless a message
\* is counted for ever; and nothing leaves one behind but a send or a receive
\* that was cancelled, and sends that overtake each other.
TeamConcludes == OnlyMishapsHaunt /\ <>(AllLeft \/ Haunted)
=============================================================================
