---------------------------- MODULE TeamMailProofs ---------------------------
(***************************************************************************)
(* What a team with a mailbox may rely on, for any teammates, messages,    *)
(* requests and sizes of the inboxes: the answers to requests for approval *)
(* agree, and no message on its way is overlooked by pending_count.        *)
(***************************************************************************)
EXTENDS TeamMail, TLAPS

-----------------------------------------------------------------------------
(* Requests.  AnswersAgree is not inductive: a decision is told to those    *)
(* who wait only after it was published, and a wait that resolved its own   *)
(* request goes on later.                                                   *)

ApprovalFits(q) ==
  /\ wait[q] # "no" => slot[q] # "free"
  /\ wait[q] = "yields" => slot[q] = "timeout"
  /\ q \in ringing \cup rung => slot[q] \in Resolved
  /\ answer[q] \in Decision => slot[q] = answer[q]
  /\ answer[q] = "timeout" => slot[q] \in Resolved
  /\ \A d : <<q, d>> \in published => slot[q] = d /\ d \in Resolved
  /\ tool[q] = "ran" => slot[q] = "granted"

ApprovalInv ==
  /\ slot \in [Request -> {"free", "open"} \cup Resolved]
  /\ DOMAIN wait = Request /\ DOMAIN answer = Request /\ DOMAIN tool = Request
  /\ \A q \in Request : ApprovalFits(q)

\* What is done about one request.
RequestStep(q) ==
  \/ Register(q) \/ StartWait(q) \/ WaitStep(q) \/ Abandon(q) \/ PassGate(q)
  \/ \E d \in Decision : Resolve(q, d)

LEMMA RequestKeeps ==
  ASSUME ApprovalInv, NEW q, RequestStep(q)
  PROVE  ApprovalInv'
<1> USE DEF Resolved, Decision
<1>0. /\ slot \in [Request -> {"free", "open"} \cup Resolved]
      /\ DOMAIN wait = Request /\ DOMAIN answer = Request /\ DOMAIN tool = Request
  BY DEF ApprovalInv
<1>1. ASSUME NEW r \in Request, r # q PROVE ApprovalFits(r)'
  <2>1. /\ slot'[r] = slot[r] /\ wait'[r] = wait[r] /\ answer'[r] = answer[r] /\ tool'[r] = tool[r]
        /\ (r \in ringing' <=> r \in ringing) /\ (r \in rung' <=> r \in rung)
        /\ \A d : <<r, d>> \in published' <=> <<r, d>> \in published
    BY <1>0, <1>1 DEF RequestStep, Register, StartWait, WaitStep, Wake, Expire, GiveUp, Ring,
       Abandon, PassGate, Resolve, Return
  <2> QED
    BY <2>1 DEF ApprovalInv, ApprovalFits
<1>2. ASSUME q \in Request PROVE ApprovalFits(q)'
  <2>0. ApprovalFits(q)
    BY <1>2 DEF ApprovalInv
  <2>1. CASE Register(q)
    BY <1>0, <1>2, <2>0, <2>1 DEF Register, ApprovalFits
  <2>2. CASE StartWait(q)
    BY <1>0, <1>2, <2>0, <2>2 DEF StartWait, ApprovalFits
  <2>3. CASE Wake(q)
    BY <1>0, <1>2, <2>0, <2>3 DEF Wake, Return, ApprovalFits
  <2>4. CASE Expire(q)
    BY <1>0, <1>2, <2>0, <2>4 DEF Expire, ApprovalFits
  <2>5. CASE GiveUp(q)
    BY <1>0, <1>2, <2>0, <2>5 DEF GiveUp, Return, ApprovalFits
  <2>6. CASE Ring(q)
    BY <1>0, <1>2, <2>0, <2>6 DEF Ring, Return, ApprovalFits
  <2>7. CASE Abandon(q)
    BY <1>0, <1>2, <2>0, <2>7 DEF Abandon, Return, ApprovalFits
  <2>8. CASE PassGate(q)
    BY <1>0, <1>2, <2>0, <2>8 DEF PassGate, ApprovalFits
  <2>9. ASSUME NEW d \in Decision, Resolve(q, d) PROVE ApprovalFits(q)'
    BY <1>0, <1>2, <2>0, <2>9 DEF Resolve, ApprovalFits
  <2> QED
    BY <2>1, <2>2, <2>3, <2>4, <2>5, <2>6, <2>7, <2>8, <2>9 DEF RequestStep, WaitStep
<1>3. /\ slot' \in [Request -> {"free", "open"} \cup Resolved]
      /\ DOMAIN wait' = Request /\ DOMAIN answer' = Request /\ DOMAIN tool' = Request
  BY <1>0 DEF RequestStep, Register, StartWait, WaitStep, Wake, Expire, GiveUp, Ring,
     Abandon, PassGate, Resolve, Return
<1> QED
  BY <1>1, <1>2, <1>3 DEF ApprovalInv

\* Every step of the team is a step about one request, or about none.
LEMMA RequestMoves ==
  Next => (\E q : RequestStep(q)) \/ UNCHANGED approvalVars
<1> SUFFICES ASSUME Next PROVE (\E q : RequestStep(q)) \/ UNCHANGED approvalVars
  OBVIOUS
<1>1. ASSUME NEW q \in Request, Waiting(q) PROVE RequestStep(q)
  BY <1>1 DEF Waiting, RequestStep
<1>2. ASSUME NEW t \in Teammate, AgentStep(t)
      PROVE  (\E q : RequestStep(q)) \/ UNCHANGED approvalVars
  <2>1. CASE \/ Offer(t) \/ Admitted(t) \/ Answered(t) \/ TurnTimesOut(t)
             \/ \E q \in Request : RequestPlanApproval(t, q)
    BY <2>1 DEF Offer, Admitted, Sent, Answered, TurnTimesOut, RequestPlanApproval, RequestStep
  <2>2. CASE \/ TurnReturns(t) \/ \E m \in Message : SendMessage(t, m) \/ SendRequest(t, m)
             \/ \E k \in Task : AddTask(t, k)
    BY <2>2 DEF TurnReturns, SendMessage, SendRequest, AddTask
  <2> QED
    BY <1>2, <2>1, <2>2 DEF AgentStep
<1>3. ASSUME NEW t \in Teammate, LoopStep(t)
      PROVE  (\E q : RequestStep(q)) \/ UNCHANGED approvalVars
  <2>1. CASE Process(t)
    <3>1. \A k \in DOMAIN Verdict : Verdict[k] \in Decision
      BY DEF Verdict, Decision
    <3> QED
      BY <2>1, <3>1 DEF Process, RequestStep
  <2>2. CASE ~Process(t)
    BY <1>3, <2>2 DEF LoopStep, Take, Count, Delivered, NoMail, Told, Claim, StartTurn, Look,
                      MarkBusy, MarkIdle, AllIdle, AnnounceIdle
  <2> QED
    BY <2>1, <2>2
<1> QED
  BY <1>1, <1>2, <1>3 DEF Next

\* A requester that is told a decision is told the one decision of its request,
\* no event says otherwise, and a gated tool has only run if the request is
\* granted, for any number of requests and whatever resolve, the timeouts of
\* wait and cancellations do at the same time.
THEOREM ApprovalsAgree == Spec => []AnswersAgree
<1>1. Init => ApprovalInv
  BY DEF Init, ApprovalInit, ApprovalInv, ApprovalFits, Resolved, Decision
<1>2. ApprovalInv /\ [Next]_vars => ApprovalInv'
  <2>1. ApprovalInv /\ UNCHANGED approvalVars => ApprovalInv'
    BY DEF ApprovalInv, ApprovalFits, approvalVars
  <2> QED
    BY <2>1, RequestMoves, RequestKeeps DEF vars
<1>3. ApprovalInv => AnswersAgree
  BY DEF ApprovalInv, ApprovalFits, AnswersAgree
<1> QED
  BY <1>1, <1>2, <1>3, PTL DEF Spec
-----------------------------------------------------------------------------
(* Mail.  A message is in one place: with the sender who offers it, in the  *)
(* stream or the queue of its addressee, or in the hand of the loop that    *)
(* took it.  So the message that is counted off is not on its way any more. *)

Queued(a) == Range(stream[a]) \cup Range(blocked[a])

\* An unwritten message has the kind "none".
Written(m) == letter[m].kind # "none"

InboxFits(a) ==
  /\ IsInjective(stream[a]) /\ IsInjective(blocked[a])
  /\ Range(stream[a]) \cap Range(blocked[a]) = {}
  /\ \A m \in Queued(a) : Written(m) /\ letter[m].to = a
  /\ OnTheWay(a) \subseteq Range(shadow[a])

HandFits(t) ==
  loop[t] = "took" => /\ held[t] \in Message /\ Written(held[t])
                      /\ letter[held[t]].to = t /\ held[t] \notin Queued(t)

DraftFits(t) ==
  turn[t] = "offers" =>
    /\ draft[t] \in Message /\ Written(draft[t])
    /\ draft[t] \notin Queued(letter[draft[t]].to)
    /\ \A u \in Teammate : /\ loop[u] = "took" => held[u] # draft[t]
                           /\ u # t /\ turn[u] = "offers" => draft[u] # draft[t]

MailTyped ==
  /\ DOMAIN letter = Message /\ \A m \in Message : letter[m].to \in Agent
  /\ stream \in [Agent -> Seq(Message)] /\ blocked \in [Agent -> Seq(Message)]
  /\ shadow \in [Agent -> Seq(Message)]
  /\ DOMAIN loop = Teammate /\ DOMAIN held = Teammate
  /\ DOMAIN turn = Teammate /\ DOMAIN draft = Teammate

MailInv ==
  /\ MailTyped
  /\ \A a \in Agent : InboxFits(a)
  /\ \A t \in Teammate : HandFits(t) /\ DraftFits(t)

\* What it takes to be on the way to a reader.
OnWay(n, a) ==
  \/ n \in Queued(a)
  \/ \E t \in Teammate : turn[t] = "offers" /\ n = draft[t] /\ letter[n].to = a
  \/ a \in Teammate /\ loop[a] = "took" /\ n = held[a]

LEMMA WayTo ==
  ASSUME NEW n, NEW a
  PROVE  (n \in OnTheWay(a) <=> OnWay(n, a)) /\ ((n \in OnTheWay(a))' <=> OnWay(n, a)')
<1>1. n \in OnTheWay(a) <=> OnWay(n, a)
  BY DEF OnTheWay, OnWay, Offering, Queued
<1>2. (n \in OnTheWay(a))' <=> OnWay(n, a)'
  BY DEF OnTheWay, OnWay, Offering, Queued
<1> QED
  BY <1>1, <1>2

(* Sequences of messages.                                                   *)

LEMMA Appended ==
  ASSUME NEW q \in Seq(Message), NEW m \in Message
  PROVE  /\ Append(q, m) \in Seq(Message)
         /\ Range(Append(q, m)) = Range(q) \cup {m}
         /\ IsInjective(q) /\ m \notin Range(q) => IsInjective(Append(q, m))
<1>1. /\ Len(Append(q, m)) = Len(q) + 1 /\ Append(q, m)[Len(q) + 1] = m
      /\ \A i \in 1..Len(q) : Append(q, m)[i] = q[i]
      /\ DOMAIN q = 1..Len(q) /\ DOMAIN Append(q, m) = 1..(Len(q) + 1) /\ Len(q) \in Nat
  OBVIOUS
<1>2. 1..(Len(q) + 1) = 1..Len(q) \cup {Len(q) + 1}
  BY <1>1
<1>3. Range(Append(q, m)) = Range(q) \cup {m}
  BY <1>1, <1>2 DEF Range
<1>4. IsInjective(q) /\ m \notin Range(q) => IsInjective(Append(q, m))
  BY <1>1, <1>2 DEF Range, IsInjective
<1> QED
  BY <1>3, <1>4

LEMMA Behead ==
  ASSUME NEW q \in Seq(Message), q # <<>>
  PROVE  /\ Tail(q) \in Seq(Message) /\ Head(q) \in Message
         /\ Range(q) = Range(Tail(q)) \cup {Head(q)}
         /\ IsInjective(q) => IsInjective(Tail(q)) /\ Head(q) \notin Range(Tail(q))
<1>1. /\ Len(q) \in Nat \ {0} /\ Len(Tail(q)) = Len(q) - 1 /\ Head(q) = q[1]
      /\ \A i \in 1..(Len(q) - 1) : Tail(q)[i] = q[i + 1]
      /\ DOMAIN q = 1..Len(q) /\ DOMAIN Tail(q) = 1..(Len(q) - 1)
  OBVIOUS
<1>2. \A i \in 1..Len(q) : i = 1 \/ (i - 1 \in 1..(Len(q) - 1) /\ q[i] = Tail(q)[i - 1])
  BY <1>1
<1>3. Range(q) = Range(Tail(q)) \cup {Head(q)}
  <2>1. ASSUME NEW i \in 1..Len(q) PROVE q[i] \in Range(Tail(q)) \cup {Head(q)}
    <3>1. CASE i = 1
      BY <1>1, <3>1
    <3>2. CASE i # 1
      BY <1>1, <1>2, <3>2 DEF Range
    <3> QED
      BY <3>1, <3>2
  <2>2. ASSUME NEW i \in 1..(Len(q) - 1) PROVE Tail(q)[i] \in Range(q)
    <3>1. i + 1 \in 1..Len(q) /\ Tail(q)[i] = q[i + 1]
      BY <1>1
    <3> QED
      BY <1>1, <3>1 DEF Range
  <2>3. Head(q) \in Range(q)
    BY <1>1 DEF Range
  <2> QED
    BY <1>1, <2>1, <2>2, <2>3 DEF Range
<1>4. IsInjective(q) => IsInjective(Tail(q)) /\ Head(q) \notin Range(Tail(q))
  BY <1>1 DEF Range, IsInjective
<1> QED
  BY <1>1, <1>3, <1>4

LEMMA Extracted ==
  ASSUME NEW q \in Seq(Message), NEW i \in DOMAIN q
  PROVE  /\ RemoveAt(q, i) \in Seq(Message)
         /\ Range(RemoveAt(q, i)) \subseteq Range(q)
         /\ IsInjective(q) => IsInjective(RemoveAt(q, i))
<1> DEFINE r == RemoveAt(q, i)
<1>1. /\ Len(q) \in Nat \ {0} /\ i \in 1..Len(q) /\ DOMAIN q = 1..Len(q)
  OBVIOUS
<1>2. /\ r \in Seq(Message) /\ Len(r) = Len(q) - 1
      /\ \A j \in 1..(Len(q) - 1) : r[j] = IF j < i THEN q[j] ELSE q[j + 1]
  <2> DEFINE u == SubSeq(q, 1, i - 1)
             v == SubSeq(q, i + 1, Len(q))
  <2>1. /\ u \in Seq(Message) /\ Len(u) = i - 1 /\ \A j \in 1..(i - 1) : u[j] = q[j]
    BY <1>1
  <2>2. /\ v \in Seq(Message) /\ Len(v) = Len(q) - i
        /\ \A j \in 1..(Len(q) - i) : v[j] = q[i + j]
    BY <1>1
  <2>3. r = u \o v
    BY DEF RemoveAt
  <2> HIDE DEF u, v, r
  <2>4. /\ u \o v \in Seq(Message) /\ Len(u \o v) = Len(q) - 1
        /\ \A j \in 1..(Len(q) - 1) : (u \o v)[j] = IF j < i THEN u[j] ELSE v[j - i + 1]
    <3>1. /\ u \o v \in Seq(Message) /\ Len(u \o v) = Len(u) + Len(v)
          /\ \A j \in 1..(Len(u) + Len(v)) : (u \o v)[j] = IF j <= Len(u) THEN u[j] ELSE v[j - Len(u)]
      BY <2>1, <2>2
    <3>2. Len(u) + Len(v) = Len(q) - 1
      BY <1>1, <2>1, <2>2
    <3>3. ASSUME NEW j \in 1..(Len(q) - 1)
          PROVE  (j <= Len(u) <=> j < i) /\ j - Len(u) = j - i + 1
      BY <1>1, <2>1
    <3> QED
      BY <3>1, <3>2, <3>3
  <2>5. ASSUME NEW j \in 1..(Len(q) - 1) PROVE r[j] = IF j < i THEN q[j] ELSE q[j + 1]
    <3>1. CASE j < i
      BY <1>1, <2>1, <2>3, <2>4, <3>1
    <3>2. CASE ~(j < i)
      <4>1. j - i + 1 \in 1..(Len(q) - i) /\ i + (j - i + 1) = j + 1
        BY <1>1, <3>2
      <4> QED
        BY <1>1, <2>2, <2>3, <2>4, <3>2, <4>1
    <3> QED
      BY <3>1, <3>2
  <2> QED
    BY <2>3, <2>4, <2>5
<1>3. DOMAIN r = 1..(Len(q) - 1)
  BY <1>1, <1>2
<1> HIDE DEF r
<1>4. Range(r) \subseteq Range(q)
  BY <1>1, <1>2, <1>3 DEF Range
<1>5. IsInjective(q) => IsInjective(r)
  <2>1. SUFFICES ASSUME IsInjective(q), NEW j \in 1..(Len(q) - 1), NEW k \in 1..(Len(q) - 1),
                        r[j] = r[k]
                 PROVE  j = k
    BY <1>3 DEF IsInjective
  <2>2. \E x, y \in 1..Len(q) : /\ r[j] = q[x] /\ r[k] = q[y]
                                /\ x = IF j < i THEN j ELSE j + 1
                                /\ y = IF k < i THEN k ELSE k + 1
    <3>1. (IF j < i THEN j ELSE j + 1) \in 1..Len(q) /\ (IF k < i THEN k ELSE k + 1) \in 1..Len(q)
      BY <1>1
    <3> QED
      BY <1>2, <3>1
  <2>3. \A x, y \in 1..Len(q) : q[x] = q[y] => x = y
    BY <1>1, <2>1 DEF IsInjective
  <2>4. PICK x \in 1..Len(q), y \in 1..Len(q) : /\ r[j] = q[x] /\ r[k] = q[y]
                                                /\ x = IF j < i THEN j ELSE j + 1
                                                /\ y = IF k < i THEN k ELSE k + 1
    BY <2>2
  <2>5. x = y
    BY <2>1, <2>3, <2>4
  <2> QED
    BY <1>1, <2>4, <2>5
<1> QED
  BY <1>2, <1>4, <1>5 DEF r

(* Steps.                                                                   *)

\* Nobody begins to offer a message or to take one.
LEMMA MailAsItIs ==
  ASSUME MailInv, MailTyped', UNCHANGED inboxVars,
         \A t \in Teammate : turn'[t] = "offers" => turn[t] = "offers" /\ draft'[t] = draft[t],
         \A t \in Teammate : loop'[t] = "took" => loop[t] = "took" /\ held'[t] = held[t]
  PROVE  MailInv'
<1>1. /\ letter' = letter /\ stream' = stream /\ blocked' = blocked /\ shadow' = shadow
  BY DEF inboxVars
<1>2. ASSUME NEW a \in Agent PROVE InboxFits(a)'
  <2>1. \A n : OnWay(n, a)' => OnWay(n, a)
    BY <1>1 DEF OnWay, Queued
  <2>2. OnTheWay(a)' \subseteq OnTheWay(a)
    BY <2>1, WayTo
  <2> QED
    BY <1>1, <1>2, <2>2 DEF MailInv, InboxFits, Queued, Written
<1>3. ASSUME NEW t \in Teammate PROVE HandFits(t)' /\ DraftFits(t)'
  BY <1>1, <1>3 DEF MailInv, HandFits, DraftFits, Queued, Written
<1> QED
  BY <1>2, <1>3 DEF MailInv

LEMMA QuietMail ==
  ASSUME MailInv, NEW t \in Teammate,
         \/ Admitted(t) \/ Answered(t) \/ TurnReturns(t) \/ Delivered(t) \/ NoMail(t) \/ Process(t)
         \/ Told(t) \/ Claim(t) \/ StartTurn(t) \/ Look(t) \/ MarkBusy(t) \/ MarkIdle(t)
         \/ AllIdle(t) \/ AnnounceIdle(t)
         \/ \E q \in Request : RequestPlanApproval(t, q)
         \/ \E k \in Task : AddTask(t, k)
  PROVE  MailInv'
<1>0. MailTyped
  BY DEF MailInv
<1>1. UNCHANGED inboxVars
  BY DEF Admitted, Answered, TurnReturns, TurnOver, Delivered, NoMail, Process, Told, Claim,
     StartTurn, Look, MarkBusy, MarkIdle, AllIdle, AnnounceIdle, RequestPlanApproval, AddTask,
     inboxVars
<1>2. /\ DOMAIN turn' = Teammate /\ DOMAIN draft' = Teammate
      /\ \A u \in Teammate : turn'[u] = "offers" => turn[u] = "offers" /\ draft'[u] = draft[u]
  BY <1>0 DEF MailTyped, Admitted, Sent, Answered, TurnReturns, TurnOver, Delivered, NoMail,
     Process, Told, Claim, StartTurn, Look, MarkBusy, MarkIdle, AllIdle, AnnounceIdle,
     RequestPlanApproval, AddTask, agentVars, AtTurn
<1>3. /\ DOMAIN loop' = Teammate /\ DOMAIN held' = Teammate
      /\ \A u \in Teammate : loop'[u] = "took" => loop[u] = "took" /\ held'[u] = held[u]
  <2>1. CASE Process(t)
    <3>1. \E l \in {"tells", "receive"} : loop' = [loop EXCEPT ![t] = l]
      BY <2>1 DEF Process, Goto
    <3>2. held' = held \/ held' = [held EXCEPT ![t] = NoMessage]
      BY <2>1 DEF Process
    <3> QED
      BY <1>0, <3>1, <3>2 DEF MailTyped
  <2>2. CASE Look(t)
    BY <1>0, <2>2 DEF MailTyped, Look, Goto
  <2>3. CASE ~Process(t) /\ ~Look(t)
    BY <1>0, <2>3 DEF MailTyped, Admitted, Sent, Answered, TurnReturns, TurnOver, Delivered, NoMail,
       Told, Claim, StartTurn, MarkBusy, MarkIdle, AllIdle, AnnounceIdle, RequestPlanApproval,
       AddTask, Goto
  <2> QED
    BY <2>1, <2>2, <2>3
<1>4. MailTyped'
  BY <1>0, <1>1, <1>2, <1>3 DEF MailTyped, inboxVars
<1> QED
  BY <1>1, <1>2, <1>3, <1>4, MailAsItIs

\* A message is written: it is nowhere yet, and counted at once.
LEMMA WriteKeeps ==
  ASSUME MailInv, NEW t \in Teammate, NEW m \in Message, NEW a \in Agent, NEW kind, NEW q,
         kind # "none", turn[t] # "offers", Write(t, m, a, kind, q)
  PROVE  MailInv'
<1>0. /\ MailTyped /\ ~Written(m)
      /\ \A b \in Agent : InboxFits(b)
      /\ \A u \in Teammate : HandFits(u) /\ DraftFits(u)
  BY DEF MailInv, Write, Written, Unwritten
<1>1. /\ letter' = [letter EXCEPT ![m] = [to |-> a, kind |-> kind, about |-> q]]
      /\ shadow' = [shadow EXCEPT ![a] = Append(shadow[a], m)]
      /\ draft' = [draft EXCEPT ![t] = m] /\ turn' = [turn EXCEPT ![t] = "offers"]
      /\ UNCHANGED <<stream, blocked, loop, held>>
  BY DEF Write
<1>2. /\ letter'[m].to = a /\ Written(m)' /\ letter'[m].kind = kind
      /\ \A n \in Message : n # m => letter'[n] = letter[n]
  BY <1>0, <1>1 DEF MailTyped, Written
<1>3. /\ shadow[a] \in Seq(Message) /\ Range(Append(shadow[a], m)) = Range(shadow[a]) \cup {m}
      /\ Append(shadow[a], m) \in Seq(Message)
  BY <1>0, Appended DEF MailTyped
<1>4. /\ shadow' \in [Agent -> Seq(Message)]
      /\ \A b \in Agent : Range(shadow'[b]) = Range(shadow[b]) \cup (IF b = a THEN {m} ELSE {})
  BY <1>0, <1>1, <1>3 DEF MailTyped
<1>5. MailTyped'
  BY <1>0, <1>1, <1>2, <1>4 DEF MailTyped
<1>6. /\ \A b \in Agent : m \notin Queued(b) /\ Queued(b) \subseteq Message /\ Queued(b)' = Queued(b)
      /\ \A u \in Teammate : /\ loop[u] = "took" => held[u] # m
                             /\ turn[u] = "offers" => draft[u] # m
  <2>1. \A b \in Agent : Queued(b) \subseteq Message
    BY <1>0 DEF MailTyped, Queued, Range
  <2> QED
    BY <1>0, <1>1, <2>1 DEF InboxFits, HandFits, DraftFits, Queued
<1>7. /\ draft'[t] = m /\ turn'[t] = "offers"
      /\ \A u \in Teammate : u # t => draft'[u] = draft[u] /\ turn'[u] = turn[u]
  BY <1>0, <1>1 DEF MailTyped
<1>8. ASSUME NEW b \in Agent PROVE InboxFits(b)'
  <2>1. OnTheWay(b)' \subseteq OnTheWay(b) \cup (IF b = a THEN {m} ELSE {})
    <3>1. ASSUME NEW u \in Teammate, NEW n, turn'[u] = "offers", n = draft'[u], letter'[n].to = b
          PROVE  OnWay(n, b) \/ (b = a /\ n = m)
      <4>1. CASE u = t
        BY <1>2, <1>7, <3>1, <4>1
      <4>2. CASE u # t
        <5>1. n = draft[u] /\ turn[u] = "offers" /\ n \in Message /\ n # m
          BY <1>0, <1>6, <1>7, <3>1, <4>2 DEF DraftFits
        <5> QED
          BY <1>2, <3>1, <5>1 DEF OnWay
      <4> QED
        BY <4>1, <4>2
    <3>2. ASSUME NEW n, OnWay(n, b)' PROVE OnWay(n, b) \/ (b = a /\ n = m)
      BY <1>1, <1>6, <3>1, <3>2 DEF OnWay
    <3> QED
      BY <3>2, WayTo
  <2>2. \A n \in Queued(b) : Written(n)' /\ letter'[n].to = b
    BY <1>0, <1>2, <1>6 DEF InboxFits, Written
  <2>3. OnTheWay(b)' \subseteq Range(shadow'[b])
    BY <1>0, <1>4, <2>1 DEF InboxFits
  <2>4. /\ IsInjective(stream'[b]) /\ IsInjective(blocked'[b])
        /\ Range(stream'[b]) \cap Range(blocked'[b]) = {}
    BY <1>0, <1>1 DEF InboxFits
  <2> QED
    BY <1>6, <2>2, <2>3, <2>4 DEF InboxFits
<1>9. ASSUME NEW u \in Teammate PROVE HandFits(u)'
  BY <1>0, <1>1, <1>2, <1>6 DEF HandFits, Written, Agent
<1>10. ASSUME NEW u \in Teammate PROVE DraftFits(u)'
  <2>1. CASE u = t
    BY <1>1, <1>2, <1>6, <1>7, <2>1 DEF DraftFits
  <2>2. CASE u # t
    BY <1>0, <1>1, <1>2, <1>6, <1>7, <2>2 DEF DraftFits, Written, MailTyped
  <2> QED
    BY <2>1, <2>2
<1> QED
  BY <1>5, <1>8, <1>9, <1>10 DEF MailInv

\* The message offered goes into the stream of its addressee, or its queue.
LEMMA OfferKeeps ==
  ASSUME MailInv, NEW t \in Teammate, Offer(t)
  PROVE  MailInv'
<1>0. /\ MailTyped /\ turn[t] = "offers"
      /\ \A b \in Agent : InboxFits(b)
      /\ \A u \in Teammate : HandFits(u) /\ DraftFits(u)
  BY DEF MailInv, Offer, AtTurn
<1>10. PICK m \in Message : m = draft[t]
  BY <1>0 DEF DraftFits
<1>11. PICK a \in Agent : a = letter[m].to
  BY <1>0 DEF MailTyped
<1>1. /\ m \notin Queued(a) /\ Written(m)
      /\ UNCHANGED <<letter, shadow, loop, held>>
  BY <1>0, <1>10, <1>11 DEF DraftFits, Offer
<1>2. /\ DOMAIN turn' = Teammate /\ DOMAIN draft' = Teammate /\ turn'[t] # "offers"
      /\ \A u \in Teammate : u # t => turn'[u] = turn[u] /\ draft'[u] = draft[u]
  BY <1>0 DEF Offer, Sent, MailTyped
<1>3. \/ stream' = [stream EXCEPT ![a] = Append(stream[a], m)] /\ blocked' = blocked
      \/ blocked' = [blocked EXCEPT ![a] = Append(blocked[a], m)] /\ stream' = stream
  BY <1>10, <1>11 DEF Offer
<1>4. /\ stream[a] \in Seq(Message) /\ blocked[a] \in Seq(Message)
      /\ Append(stream[a], m) \in Seq(Message) /\ Append(blocked[a], m) \in Seq(Message)
      /\ Range(Append(stream[a], m)) = Range(stream[a]) \cup {m}
      /\ Range(Append(blocked[a], m)) = Range(blocked[a]) \cup {m}
      /\ IsInjective(Append(stream[a], m)) /\ IsInjective(Append(blocked[a], m))
  <2>1. /\ stream[a] \in Seq(Message) /\ blocked[a] \in Seq(Message)
        /\ IsInjective(stream[a]) /\ IsInjective(blocked[a])
        /\ m \notin Range(stream[a]) /\ m \notin Range(blocked[a])
    BY <1>0, <1>1 DEF MailTyped, InboxFits, Queued
  <2> QED
    BY <1>1, <2>1, Appended
<1>5. /\ stream' \in [Agent -> Seq(Message)] /\ blocked' \in [Agent -> Seq(Message)]
      /\ \A b \in Agent : b # a => stream'[b] = stream[b] /\ blocked'[b] = blocked[b]
      /\ Queued(a)' = Queued(a) \cup {m}
      /\ IsInjective(stream'[a]) /\ IsInjective(blocked'[a])
      /\ Range(stream'[a]) \cap Range(blocked'[a]) = {}
  <2>1. /\ stream \in [Agent -> Seq(Message)] /\ blocked \in [Agent -> Seq(Message)]
        /\ IsInjective(stream[a]) /\ IsInjective(blocked[a])
        /\ Range(stream[a]) \cap Range(blocked[a]) = {}
        /\ m \notin Range(stream[a]) /\ m \notin Range(blocked[a])
    BY <1>0, <1>1 DEF MailTyped, InboxFits, Queued
  <2>2. CASE stream' = [stream EXCEPT ![a] = Append(stream[a], m)] /\ blocked' = blocked
    BY <1>1, <1>4, <2>1, <2>2 DEF Queued
  <2>3. CASE blocked' = [blocked EXCEPT ![a] = Append(blocked[a], m)] /\ stream' = stream
    BY <1>1, <1>4, <2>1, <2>3 DEF Queued
  <2> QED
    BY <1>3, <2>2, <2>3
<1>6. MailTyped'
  BY <1>0, <1>1, <1>2, <1>5 DEF MailTyped
<1>7. ASSUME NEW b \in Agent PROVE InboxFits(b)'
  <2>1. Queued(b)' = Queued(b) \cup (IF b = a THEN {m} ELSE {})
    BY <1>5 DEF Queued
  <2>2. OnTheWay(b)' \subseteq OnTheWay(b)
    <3>1. b = a => OnWay(m, b)
      BY <1>0, <1>10, <1>11 DEF OnWay
    <3>2. \A u \in Teammate : turn'[u] = "offers" => turn[u] = "offers" /\ draft'[u] = draft[u]
      BY <1>2
    <3>3. ASSUME NEW n, OnWay(n, b)' PROVE OnWay(n, b)
      BY <1>1, <2>1, <3>1, <3>2, <3>3 DEF OnWay
    <3> QED
      BY <3>3, WayTo
  <2>3. \A n \in Queued(b)' : Written(n)' /\ letter'[n].to = b
    BY <1>0, <1>1, <1>11, <2>1 DEF InboxFits, Written
  <2>4. /\ IsInjective(stream'[b]) /\ IsInjective(blocked'[b])
        /\ Range(stream'[b]) \cap Range(blocked'[b]) = {}
    BY <1>0, <1>5 DEF InboxFits
  <2> QED
    BY <1>0, <1>1, <2>2, <2>3, <2>4 DEF InboxFits
<1>8. ASSUME NEW u \in Teammate PROVE HandFits(u)'
  <2>1. loop[u] = "took" => held[u] # m
    BY <1>0, <1>10 DEF DraftFits
  <2>2. u \in Agent
    BY DEF Agent
  <2>3. Queued(u)' \subseteq Queued(u) \cup {m}
    BY <1>5, <2>2 DEF Queued
  <2> QED
    BY <1>0, <1>1, <2>1, <2>3 DEF HandFits, Written
<1>9. ASSUME NEW u \in Teammate PROVE DraftFits(u)'
  <2>1. SUFFICES ASSUME turn'[u] = "offers" PROVE DraftFits(u)'
    BY DEF DraftFits
  <2>2. u # t /\ turn[u] = "offers" /\ draft'[u] = draft[u] /\ draft[u] # m
    BY <1>0, <1>2, <1>10, <2>1 DEF DraftFits
  <2>3. draft[u] \in Message /\ letter[draft[u]].to \in Agent
    BY <1>0, <2>2 DEF DraftFits, MailTyped
  <2>4. Queued(letter[draft[u]].to)' \subseteq Queued(letter[draft[u]].to) \cup {m}
    <3>1. PICK b \in Agent : b = letter[draft[u]].to /\ b = letter'[draft'[u]].to
      BY <1>1, <2>2, <2>3
    <3>2. Queued(b)' \subseteq Queued(b) \cup {m}
      BY <1>5 DEF Queued
    <3> QED
      BY <3>1, <3>2 DEF Queued
  <2>5. \A v \in Teammate : turn'[v] = "offers" => turn[v] = "offers" /\ draft'[v] = draft[v]
    BY <1>2
  <2> QED
    BY <1>0, <1>1, <2>2, <2>3, <2>4, <2>5 DEF DraftFits, Written
<1> QED
  BY <1>6, <1>7, <1>8, <1>9 DEF MailInv

\* The reader takes the first message of its stream into its hand; a message
\* that waited for room follows into the stream.
LEMMA TakeKeeps ==
  ASSUME MailInv, NEW t \in Teammate, Take(t)
  PROVE  MailInv'
<1>0. /\ MailTyped /\ t \in Agent /\ InboxFits(t) /\ stream[t] # <<>>
      /\ \A b \in Agent : InboxFits(b)
      /\ \A u \in Teammate : HandFits(u) /\ DraftFits(u)
  BY DEF MailInv, Take, Agent
<1>1. PICK s \in Seq(Message) : s = stream[t]
  BY <1>0 DEF MailTyped
<1>2. PICK w \in Seq(Message) : w = blocked[t]
  BY <1>0 DEF MailTyped
<1>3. PICK m \in Message : m = Head(s)
  BY <1>0, <1>1, Behead
<1>4. /\ s # <<>> /\ IsInjective(s) /\ IsInjective(w) /\ Range(s) \cap Range(w) = {}
      /\ Range(s) = Range(Tail(s)) \cup {m} /\ m \notin Range(Tail(s))
      /\ Tail(s) \in Seq(Message) /\ IsInjective(Tail(s))
  BY <1>0, <1>1, <1>2, <1>3, Behead DEF InboxFits
<1>5. PICK s2 \in Seq(Message), w2 \in Seq(Message) :
        /\ stream' = [stream EXCEPT ![t] = s2] /\ blocked' = [blocked EXCEPT ![t] = w2]
        /\ IsInjective(s2) /\ IsInjective(w2) /\ Range(s2) \cap Range(w2) = {}
        /\ Range(s2) \cup Range(w2) = Range(Tail(s)) \cup Range(w)
  <2>1. CASE w = <<>>
    <3>1. Tail(s) \o <<>> = Tail(s)
      BY <1>4
    <3>2. stream' = [stream EXCEPT ![t] = Tail(s)] /\ blocked' = [blocked EXCEPT ![t] = w]
      BY <1>1, <1>2, <2>1, <3>1 DEF Take
    <3> QED
      BY <1>4, <3>2
  <2>2. CASE w # <<>>
    <3>1. /\ Tail(w) \in Seq(Message) /\ IsInjective(Tail(w)) /\ Head(w) \in Message
          /\ Range(w) = Range(Tail(w)) \cup {Head(w)} /\ Head(w) \notin Range(Tail(w))
      BY <1>4, <2>2, Behead
    <3>2. Tail(s) \o <<Head(w)>> = Append(Tail(s), Head(w))
      BY <1>4, <3>1
    <3>3. /\ stream' = [stream EXCEPT ![t] = Append(Tail(s), Head(w))]
          /\ blocked' = [blocked EXCEPT ![t] = Tail(w)]
      BY <1>1, <1>2, <2>2, <3>2 DEF Take
    <3>4. Head(w) \notin Range(Tail(s))
      BY <1>4, <3>1
    <3>5. /\ Append(Tail(s), Head(w)) \in Seq(Message)
          /\ Range(Append(Tail(s), Head(w))) = Range(Tail(s)) \cup {Head(w)}
          /\ IsInjective(Append(Tail(s), Head(w)))
      BY <1>4, <3>1, <3>4, Appended
    <3>6. Range(Append(Tail(s), Head(w))) \cap Range(Tail(w)) = {}
      BY <1>4, <3>1, <3>5
    <3>7. /\ Range(Append(Tail(s), Head(w))) \cup Range(Tail(w)) = Range(Tail(s)) \cup Range(w)
          /\ IsInjective(Tail(w)) /\ Tail(w) \in Seq(Message)
      BY <3>1, <3>5
    <3> QED
      BY <3>3, <3>5, <3>6, <3>7
  <2> QED
    BY <2>1, <2>2
<1>6. /\ loop' = [loop EXCEPT ![t] = "took"] /\ held' = [held EXCEPT ![t] = m]
      /\ loop[t] = "receive"
      /\ letter' = letter /\ shadow' = shadow /\ turn' = turn /\ draft' = draft
  BY <1>1, <1>3 DEF Take, Goto, agentVars
<1>7. /\ MailTyped' /\ loop'[t] = "took" /\ held'[t] = m
      /\ \A u \in Teammate : u # t => loop'[u] = loop[u] /\ held'[u] = held[u]
  BY <1>0, <1>5, <1>6 DEF MailTyped
<1>8. /\ Queued(t)' = Queued(t) \ {m} /\ m \in Queued(t)
      /\ \A b \in Agent : b # t => Queued(b)' = Queued(b)
  <2>1. Queued(t)' = Range(s2) \cup Range(w2)
    BY <1>0, <1>5 DEF Queued, MailTyped
  <2>2. Queued(t) = Range(Tail(s)) \cup {m} \cup Range(w) /\ m \notin Range(w)
    BY <1>1, <1>2, <1>4 DEF Queued
  <2>3. \A b \in Agent : b # t => Queued(b)' = Queued(b)
    BY <1>0, <1>5 DEF Queued, MailTyped
  <2> QED
    BY <1>4, <1>5, <2>1, <2>2, <2>3
<1>9. Written(m) /\ letter[m].to = t
  BY <1>0, <1>8 DEF InboxFits
<1>10. ASSUME NEW b \in Agent PROVE InboxFits(b)'
  <2>1. Queued(b)' \subseteq Queued(b)
    BY <1>8
  <2>2. ASSUME NEW n, OnWay(n, b)' PROVE OnWay(n, b)
    BY <1>6, <1>7, <1>8, <2>1, <2>2 DEF OnWay
  <2>3. OnTheWay(b)' \subseteq Range(shadow'[b])
    BY <1>0, <1>6, <2>2, WayTo DEF InboxFits
  <2>4. /\ IsInjective(stream'[b]) /\ IsInjective(blocked'[b])
        /\ Range(stream'[b]) \cap Range(blocked'[b]) = {}
    BY <1>0, <1>5 DEF InboxFits, MailTyped
  <2>5. \A n \in Queued(b)' : Written(n)' /\ letter'[n].to = b
    BY <1>0, <1>6, <2>1 DEF InboxFits, Written
  <2> QED
    BY <2>3, <2>4, <2>5 DEF InboxFits
<1>11. ASSUME NEW u \in Teammate PROVE HandFits(u)'
  <2>1. u \in Agent
    BY DEF Agent
  <2> QED
    BY <1>0, <1>6, <1>7, <1>8, <1>9, <2>1 DEF HandFits, Written
<1>12. ASSUME NEW u \in Teammate PROVE DraftFits(u)'
  <2>1. SUFFICES ASSUME turn[u] = "offers" PROVE DraftFits(u)'
    BY <1>6 DEF DraftFits
  <2>2. draft[u] \in Message /\ letter[draft[u]].to \in Agent
    BY <1>0, <2>1 DEF DraftFits, MailTyped
  <2>3. Queued(letter[draft[u]].to)' \subseteq Queued(letter[draft[u]].to)
    <3>1. PICK b \in Agent : b = letter[draft[u]].to
      BY <2>2
    <3>2. Queued(b)' \subseteq Queued(b)
      BY <1>8
    <3> QED
      BY <1>6, <3>1, <3>2 DEF Queued
  <2>4. draft[u] # m
    BY <1>0, <1>8, <1>9, <2>1 DEF DraftFits
  <2> QED
    BY <1>0, <1>6, <1>7, <2>1, <2>2, <2>3, <2>4 DEF DraftFits, Written
<1> QED
  BY <1>7, <1>10, <1>11, <1>12 DEF MailInv

\* The message in hand is on no other way, so it can be counted off.
LEMMA CountKeeps ==
  ASSUME MailInv, NEW t \in Teammate, Count(t)
  PROVE  MailInv'
<1>0. /\ MailTyped /\ t \in Agent /\ loop[t] = "took"
      /\ \A b \in Agent : InboxFits(b)
      /\ \A u \in Teammate : HandFits(u) /\ DraftFits(u)
  BY DEF MailInv, Count, Goto, Agent
<1>1. PICK s \in Seq(Message) : s = shadow[t]
  BY <1>0 DEF MailTyped
<1>2. /\ UNCHANGED <<letter, stream, blocked, held, turn, draft>>
      /\ loop' = [loop EXCEPT ![t] = "counted"]
  BY DEF Count, Goto, agentVars
<1>3. PICK s2 \in Seq(Message) : /\ shadow' = [shadow EXCEPT ![t] = s2]
                                 /\ Range(s) \subseteq Range(s2) \cup {held[t]}
  <2>1. CASE s # <<>> /\ Head(s) = held[t]
    <3>1. shadow' = [shadow EXCEPT ![t] = Tail(s)]
      BY <1>1, <2>1 DEF Count
    <3> QED
      BY <2>1, <3>1, Behead
  <2>2. CASE ~(s # <<>> /\ Head(s) = held[t])
    BY <1>1, <2>2 DEF Count
  <2> QED
    BY <2>1, <2>2
<1>4. /\ MailTyped' /\ loop'[t] = "counted" /\ shadow'[t] = s2
      /\ \A b \in Agent : b # t => shadow'[b] = shadow[b]
      /\ \A u \in Teammate : u # t => loop'[u] = loop[u]
  BY <1>0, <1>2, <1>3 DEF MailTyped
<1>5. ASSUME NEW b \in Agent PROVE InboxFits(b)'
  <2>1. ASSUME NEW n, OnWay(n, b)' PROVE OnWay(n, b) /\ (b = t => n # held[t])
    <3>1. OnWay(n, b)
      BY <1>2, <1>4, <2>1 DEF OnWay, Queued
    <3>2. b = t /\ n \in Queued(b)' => n # held[t]
      BY <1>0, <1>2 DEF HandFits, Queued
    <3>3. \A u \in Teammate : turn[u] = "offers" /\ n = draft[u] => n # held[t]
      BY <1>0 DEF DraftFits
    <3> QED
      BY <1>2, <1>4, <2>1, <3>1, <3>2, <3>3 DEF OnWay
  <2>2. OnTheWay(b)' \subseteq Range(shadow'[b])
    BY <1>0, <1>1, <1>3, <1>4, <2>1, WayTo DEF InboxFits
  <2> QED
    BY <1>0, <1>2, <2>2 DEF InboxFits, Queued, Written
<1>6. ASSUME NEW u \in Teammate PROVE HandFits(u)'
  BY <1>0, <1>2, <1>4 DEF HandFits, Queued, Written
<1>7. ASSUME NEW u \in Teammate PROVE DraftFits(u)'
  BY <1>0, <1>2, <1>4 DEF DraftFits, Queued, Written
<1> QED
  BY <1>4, <1>5, <1>6, <1>7 DEF MailInv

\* A sender that is cancelled while it waits takes its message with it.
LEMMA TimeOutKeeps ==
  ASSUME MailInv, NEW t \in Teammate, TurnTimesOut(t)
  PROVE  MailInv'
<1>0. /\ MailTyped /\ \A b \in Agent : InboxFits(b)
      /\ \A u \in Teammate : HandFits(u) /\ DraftFits(u)
  BY DEF MailInv
<1>1. /\ UNCHANGED <<letter, stream, shadow, held>>
      /\ loop' = [loop EXCEPT ![t] = "receive"] /\ turn' = [turn EXCEPT ![t] = "none"]
      /\ draft' = [draft EXCEPT ![t] = NoMessage]
  BY DEF TurnTimesOut, TurnOver, Goto
<1>2. /\ blocked' \in [Agent -> Seq(Message)]
      /\ \A b \in Agent : /\ Range(blocked'[b]) \subseteq Range(blocked[b])
                          /\ IsInjective(blocked'[b])
  <2>1. CASE UNCHANGED blocked
    BY <1>0, <2>1 DEF InboxFits, MailTyped
  <2>2. ASSUME NEW a, NEW m, Withdraw(a, m), blocked' # blocked
        PROVE  /\ blocked' \in [Agent -> Seq(Message)]
               /\ \A b \in Agent : /\ Range(blocked'[b]) \subseteq Range(blocked[b])
                                   /\ IsInjective(blocked'[b])
    <3>1. PICK i \in DOMAIN blocked[a] : blocked' = [blocked EXCEPT ![a] = RemoveAt(blocked[a], i)]
      BY <2>2 DEF Withdraw
    <3>2. a \in Agent
      BY <1>0, <2>2, <3>1 DEF MailTyped
    <3>3. PICK s \in Seq(Message) : s = blocked[a] /\ IsInjective(s)
      BY <1>0, <3>2 DEF MailTyped, InboxFits
    <3>4. PICK s2 : s2 = RemoveAt(s, i)
      OBVIOUS
    <3>5. s2 \in Seq(Message) /\ Range(s2) \subseteq Range(s) /\ IsInjective(s2)
      BY <3>1, <3>3, <3>4, Extracted
    <3>6. blocked' = [blocked EXCEPT ![a] = s2]
      BY <3>1, <3>3, <3>4
    <3> QED
      BY <1>0, <3>2, <3>3, <3>5, <3>6 DEF MailTyped, InboxFits
  <2> QED
    BY <2>1, <2>2 DEF TurnTimesOut
<1>3. /\ MailTyped' /\ turn'[t] = "none" /\ loop'[t] = "receive"
      /\ \A u \in Teammate : u # t => /\ loop'[u] = loop[u] /\ turn'[u] = turn[u]
                                      /\ draft'[u] = draft[u]
  BY <1>0, <1>1, <1>2 DEF MailTyped
<1>4. /\ \A u \in Teammate : turn'[u] = "offers" => turn[u] = "offers" /\ draft'[u] = draft[u]
      /\ \A u \in Teammate : loop'[u] = "took" => loop[u] = "took"
  BY <1>3
<1>5. \A b \in Agent : Queued(b)' \subseteq Queued(b)
  BY <1>1, <1>2 DEF Queued
<1>6. ASSUME NEW b \in Agent PROVE InboxFits(b)'
  <2>1. \A n : OnWay(n, b)' => OnWay(n, b)
    BY <1>1, <1>4, <1>5 DEF OnWay
  <2>2. OnTheWay(b)' \subseteq Range(shadow'[b])
    BY <1>0, <1>1, <2>1, WayTo DEF InboxFits
  <2>3. Range(stream'[b]) \cap Range(blocked'[b]) = {}
    BY <1>0, <1>1, <1>2 DEF InboxFits
  <2>4. \A n \in Queued(b)' : Written(n)' /\ letter'[n].to = b
    BY <1>0, <1>1, <1>5 DEF InboxFits, Written
  <2> QED
    BY <1>0, <1>1, <1>2, <2>2, <2>3, <2>4 DEF InboxFits
<1>7. ASSUME NEW u \in Teammate PROVE HandFits(u)'
  <2>1. u \in Agent
    BY DEF Agent
  <2> QED
    BY <1>0, <1>1, <1>4, <1>5, <2>1 DEF HandFits, Written
<1>8. ASSUME NEW u \in Teammate PROVE DraftFits(u)'
  <2>1. SUFFICES ASSUME turn'[u] = "offers" PROVE DraftFits(u)'
    BY DEF DraftFits
  <2>2. PICK b \in Agent : b = letter[draft[u]].to
    BY <1>0, <1>4, <2>1 DEF DraftFits, MailTyped
  <2>3. letter'[draft'[u]].to = b /\ draft'[u] = draft[u] /\ draft[u] \notin Queued(b)'
    BY <1>0, <1>1, <1>4, <1>5, <2>1, <2>2 DEF DraftFits
  <2>4. (draft[u] \notin Queued(letter[draft[u]].to))'
    BY <2>3 DEF Queued
  <2> QED
    BY <1>0, <1>1, <1>4, <2>1, <2>4 DEF DraftFits, Written
<1> QED
  BY <1>3, <1>6, <1>7, <1>8 DEF MailInv

LEMMA MailStart == Init => MailInv
<1> SUFFICES ASSUME Init PROVE MailInv
  OBVIOUS
<1>0. <<>> \in Seq(Message) /\ Range(<<>>) = {} /\ IsInjective(<<>>)
  BY DEF Range, IsInjective
<1>1. MailTyped
  BY <1>0 DEF Init, MailTyped, Unwritten, Agent
<1>2. ASSUME NEW a \in Agent PROVE InboxFits(a)
  <2>1. stream[a] = <<>> /\ blocked[a] = <<>>
    BY <1>2 DEF Init
  <2>2. Queued(a) = {} /\ IsInjective(stream[a]) /\ IsInjective(blocked[a])
    BY <1>0, <2>1 DEF Queued
  <2>3. \A n : ~OnWay(n, a)
    BY <2>2 DEF OnWay, Init
  <2> QED
    BY <1>0, <2>1, <2>2, <2>3, WayTo DEF InboxFits
<1>3. \A t \in Teammate : HandFits(t) /\ DraftFits(t)
  BY DEF Init, HandFits, DraftFits
<1> QED
  BY <1>1, <1>2, <1>3 DEF MailInv

LEMMA MailStep == MailInv /\ [Next]_vars => MailInv'
<1> SUFFICES ASSUME MailInv, [Next]_vars PROVE MailInv'
  OBVIOUS
<1>0. MailTyped
  BY DEF MailInv
<1>1. CASE UNCHANGED <<inboxVars, loop, held, agentVars>>
  <2>1. MailTyped'
    BY <1>0, <1>1 DEF MailTyped, inboxVars, agentVars
  <2> QED
    BY <1>1, <2>1, MailAsItIs DEF agentVars
<1>2. ASSUME NEW t \in Teammate, LoopStep(t) PROVE MailInv'
  BY <1>2, QuietMail, TakeKeeps, CountKeeps DEF LoopStep
<1>3. ASSUME NEW t \in Teammate, NEW m \in Message, SendMessage(t, m) PROVE MailInv'
  <2>1. PICK a \in Agent, kind \in {"chat"} \cup DOMAIN Verdict,
             q \in Request \cup {NoRequest} : Write(t, m, a, kind, q)
    BY <1>3 DEF SendMessage
  <2>2. kind # "none"
    BY DEF Verdict
  <2> QED
    BY <1>3, <2>1, <2>2, WriteKeeps DEF SendMessage, AtTurn
<1>4. ASSUME NEW t \in Teammate, NEW m \in Message, SendRequest(t, m) PROVE MailInv'
  BY <1>4, WriteKeeps DEF SendRequest, AtTurn, Agent
<1>5. ASSUME NEW t \in Teammate, AgentStep(t) PROVE MailInv'
  BY <1>3, <1>4, <1>5, QuietMail, OfferKeeps, TimeOutKeeps DEF AgentStep
<1>6. \A q \in Request : Waiting(q) => UNCHANGED <<inboxVars, loop, held, agentVars>>
  BY DEF Waiting
<1> HIDE DEF LoopStep, AgentStep, Waiting
<1> QED
  BY <1>1, <1>2, <1>5, <1>6 DEF Next, vars

\* Whatever is cancelled, and whoever sends at the same time, a message on its
\* way is counted by pending_count, for any number of agents and messages and
\* any size of the inboxes: a teammate with mail to come is not taken for idle.
THEOREM MailIsCounted == Spec => []MailCounted
<1>1. MailInv => MailCounted
  BY DEF MailInv, InboxFits, MailCounted
<1> QED
  BY <1>1, MailStart, MailStep, PTL DEF Spec

(* Ghosts: messages that are counted and on no way to their reader.         *)

Ghost(n, t) == n \in Range(shadow[t]) /\ ~OnWay(n, t)

\* A message is counted once, and not before it was written.
CountedOnce ==
  \A a \in Agent : IsInjective(shadow[a]) /\ \A m \in Range(shadow[a]) : Written(m)

LEMMA CountedKeeps == MailInv /\ CountedOnce /\ [Next]_vars => CountedOnce'
<1> SUFFICES ASSUME MailInv, CountedOnce, [Next]_vars PROVE CountedOnce'
  OBVIOUS
<1>0. MailTyped
  BY DEF MailInv
<1>1. ASSUME UNCHANGED <<letter, shadow>> PROVE CountedOnce'
  BY <1>1 DEF CountedOnce, Written
<1>2. ASSUME NEW t \in Teammate, NEW m \in Message, NEW a \in Agent, NEW kind, NEW q,
             kind # "none", Write(t, m, a, kind, q)
      PROVE  CountedOnce'
  <2>1. /\ letter' = [letter EXCEPT ![m] = [to |-> a, kind |-> kind, about |-> q]]
        /\ shadow' = [shadow EXCEPT ![a] = Append(shadow[a], m)] /\ ~Written(m)
    BY <1>2 DEF Write, Written, Unwritten
  <2>2. Written(m)' /\ \A n \in Message : Written(n) => Written(n)'
    BY <1>0, <1>2, <2>1 DEF MailTyped, Written
  <2>3. /\ shadow[a] \in Seq(Message) /\ m \notin Range(shadow[a]) /\ IsInjective(shadow[a])
        /\ Range(Append(shadow[a], m)) = Range(shadow[a]) \cup {m}
        /\ IsInjective(Append(shadow[a], m))
    <3>1. shadow[a] \in Seq(Message) /\ m \notin Range(shadow[a]) /\ IsInjective(shadow[a])
      BY <1>0, <2>1 DEF MailTyped, CountedOnce
    <3> QED
      BY <3>1, Appended
  <2>4. \A b \in Agent : Range(shadow[b]) \subseteq Message
    BY <1>0 DEF MailTyped, Range
  <2>5. ASSUME NEW b \in Agent
        PROVE  IsInjective(shadow'[b]) /\ Range(shadow'[b]) \subseteq Range(shadow[b]) \cup {m}
    BY <1>0, <2>1, <2>3 DEF MailTyped, CountedOnce
  <2> QED
    BY <2>2, <2>4, <2>5 DEF CountedOnce
<1>3. ASSUME NEW t \in Teammate, Count(t) PROVE CountedOnce'
  <2>1. PICK s \in Seq(Message) : s = shadow[t] /\ IsInjective(s)
    BY <1>0 DEF MailTyped, CountedOnce, Agent
  <2>2. PICK s2 \in Seq(Message) : /\ shadow' = [shadow EXCEPT ![t] = s2]
                                   /\ Range(s2) \subseteq Range(s) /\ IsInjective(s2)
    <3>1. CASE s # <<>> /\ Head(s) = held[t]
      BY <1>3, <2>1, <3>1, Behead DEF Count
    <3>2. CASE ~(s # <<>> /\ Head(s) = held[t])
      BY <1>3, <2>1, <3>2 DEF Count
    <3> QED
      BY <3>1, <3>2
  <2>3. \A b \in Agent : IsInjective(shadow'[b]) /\ Range(shadow'[b]) \subseteq Range(shadow[b])
    BY <1>0, <2>1, <2>2 DEF MailTyped, CountedOnce
  <2>4. letter' = letter
    BY <1>3 DEF Count
  <2> QED
    BY <2>3, <2>4 DEF CountedOnce, Written
<1>4. ASSUME NEW t \in Teammate, LoopStep(t), ~Count(t) PROVE UNCHANGED <<letter, shadow>>
  BY <1>4 DEF LoopStep, Take, Delivered, NoMail, Process, Told, Claim, StartTurn, Look, MarkBusy,
     MarkIdle, AllIdle, AnnounceIdle, inboxVars
<1>5. ASSUME NEW t \in Teammate, AgentStep(t) PROVE CountedOnce'
  <2>1. ASSUME NEW m \in Message, SendMessage(t, m) PROVE CountedOnce'
    <3>1. PICK a \in Agent, kind \in {"chat"} \cup DOMAIN Verdict,
               q \in Request \cup {NoRequest} : Write(t, m, a, kind, q)
      BY <2>1 DEF SendMessage
    <3>2. kind # "none"
      BY DEF Verdict
    <3> QED
      BY <1>2, <3>1, <3>2
  <2>2. ASSUME NEW m \in Message, SendRequest(t, m) PROVE CountedOnce'
    BY <1>2, <2>2 DEF SendRequest, Agent
  <2>3. ASSUME \/ Offer(t) \/ Admitted(t) \/ Answered(t) \/ TurnReturns(t) \/ TurnTimesOut(t)
               \/ \E q \in Request : RequestPlanApproval(t, q)
               \/ \E k \in Task : AddTask(t, k)
        PROVE  UNCHANGED <<letter, shadow>>
    BY <2>3 DEF Offer, Admitted, Answered, TurnReturns, TurnTimesOut, TurnOver,
       RequestPlanApproval, AddTask, inboxVars
  <2> QED
    BY <1>1, <1>5, <2>1, <2>2, <2>3 DEF AgentStep
<1>6. \A q \in Request : Waiting(q) => UNCHANGED <<letter, shadow>>
  BY DEF Waiting, inboxVars
<1>7. ASSUME UNCHANGED vars PROVE UNCHANGED <<letter, shadow>>
  BY <1>7 DEF vars, inboxVars
<1> HIDE DEF LoopStep, AgentStep, Waiting
<1> QED
  BY <1>1, <1>3, <1>4, <1>5, <1>6, <1>7 DEF Next

\* An agent does something in its turn only.
TurnsFit == \A t \in Teammate : loop[t] # "turn" => turn[t] = "none"

LEMMA TurnsKeep == MailInv /\ TurnsFit /\ [Next]_vars => TurnsFit'
<1> SUFFICES ASSUME MailInv, TurnsFit, [Next]_vars PROVE TurnsFit'
  OBVIOUS
<1>0. MailTyped
  BY DEF MailInv
<1>1. ASSUME UNCHANGED <<loop, turn>> PROVE TurnsFit'
  BY <1>1 DEF TurnsFit
<1>2. ASSUME NEW t \in Teammate, LoopStep(t) PROVE TurnsFit'
  <2>1. CASE StartTurn(t)
    BY <1>0, <2>1 DEF MailTyped, TurnsFit, StartTurn, Goto
  <2>2. CASE ~StartTurn(t)
    <3>1. /\ turn' = turn /\ loop[t] # "turn"
          /\ \A u \in Teammate : u # t => loop'[u] = loop[u]
      <4>1. CASE Process(t)
        BY <1>0, <4>1 DEF MailTyped, Process, Goto, agentVars
      <4>2. CASE ~Process(t)
        BY <1>0, <1>2, <2>2, <4>2 DEF MailTyped, LoopStep, Take, Count, Delivered, NoMail, Told,
           Claim, Look, MarkBusy, MarkIdle, AllIdle, AnnounceIdle, Goto, agentVars
      <4> QED
        BY <4>1, <4>2
    <3> QED
      BY <3>1 DEF TurnsFit
  <2> QED
    BY <2>1, <2>2
<1>3. ASSUME NEW t \in Teammate, AgentStep(t) PROVE TurnsFit'
  <2>1. CASE TurnReturns(t) \/ TurnTimesOut(t)
    BY <1>0, <2>1 DEF MailTyped, TurnsFit, TurnReturns, TurnTimesOut, TurnOver, Goto
  <2>2. CASE ~(TurnReturns(t) \/ TurnTimesOut(t))
    <3>1. /\ loop' = loop /\ loop[t] = "turn"
          /\ turn' = turn \/ \E l : turn' = [turn EXCEPT ![t] = l]
      BY <1>3, <2>2 DEF AgentStep, Offer, Admitted, Sent, Answered, SendMessage, SendRequest,
         RequestPlanApproval, AddTask, Write, AtTurn, agentVars
    <3> QED
      BY <1>0, <3>1 DEF MailTyped, TurnsFit
  <2> QED
    BY <2>1, <2>2
<1>4. \A q \in Request : Waiting(q) => UNCHANGED <<loop, turn>>
  BY DEF Waiting, agentVars
<1>5. ASSUME UNCHANGED vars PROVE UNCHANGED <<loop, turn>>
  BY <1>5 DEF vars, agentVars
<1> HIDE DEF LoopStep, AgentStep, Waiting
<1> QED
  BY <1>1, <1>2, <1>3, <1>4, <1>5 DEF Next

LEMMA HauntedByGhosts ==
  /\ Haunted <=> \E t \in Teammate : \E n : Ghost(n, t)
  /\ Haunted' <=> \E t \in Teammate : \E n : Ghost(n, t)'
<1>1. /\ Haunted <=> \E t \in Teammate : \E n : n \in Range(shadow[t]) /\ n \notin OnTheWay(t)
      /\ Haunted' <=> \E t \in Teammate : \E n : n \in Range(shadow'[t]) /\ n \notin OnTheWay(t)'
  BY DEF Haunted
<1> QED
  BY <1>1, WayTo DEF Ghost

\* No ghost is laid, and none appears but by a mishap.
HauntRule ==
  /\ Haunted => Haunted'
  /\ Haunted' => Haunted \/ \E t \in Teammate : SendCut(t) \/ ReceiveCut(t) \/ Overtook(t)

LEMMA SameGhosts ==
  ASSUME \A t \in Teammate : \A n : Ghost(n, t)' <=> Ghost(n, t)
  PROVE  HauntRule
BY HauntedByGhosts DEF HauntRule

LEMMA MishapGhosts ==
  ASSUME \A t \in Teammate : \A n : Ghost(n, t) => Ghost(n, t)',
         \E t \in Teammate : SendCut(t) \/ ReceiveCut(t) \/ Overtook(t)
  PROVE  HauntRule
BY HauntedByGhosts DEF HauntRule

\* Nothing is offered or taken, counted off or cut off.
LEMMA QuietGhosts ==
  ASSUME MailInv, UNCHANGED inboxVars,
         \A t \in Teammate : /\ turn'[t] = "offers" <=> turn[t] = "offers"
                             /\ turn[t] = "offers" => draft'[t] = draft[t]
                             /\ loop'[t] = "took" <=> loop[t] = "took"
                             /\ loop[t] = "took" => held'[t] = held[t]
  PROVE  HauntRule
<1>1. /\ letter' = letter /\ stream' = stream /\ blocked' = blocked /\ shadow' = shadow
  BY DEF inboxVars
<1>2. ASSUME NEW t \in Teammate, NEW n PROVE OnWay(n, t)' <=> OnWay(n, t)
  BY <1>1 DEF OnWay, Queued
<1> QED
  BY <1>1, <1>2, SameGhosts DEF Ghost

LEMMA QuietSteps ==
  ASSUME MailInv, TurnsFit, NEW t \in Teammate,
         \/ Admitted(t) \/ Answered(t) \/ TurnReturns(t) \/ Delivered(t) \/ Process(t)
         \/ Told(t) \/ Claim(t) \/ StartTurn(t) \/ Look(t) \/ MarkBusy(t) \/ MarkIdle(t)
         \/ AllIdle(t) \/ AnnounceIdle(t)
         \/ (NoMail(t) /\ loop[t] # "took")
         \/ \E q \in Request : RequestPlanApproval(t, q)
         \/ \E k \in Task : AddTask(t, k)
  PROVE  HauntRule
<1>0. MailTyped
  BY DEF MailInv
<1>1. UNCHANGED inboxVars
  BY DEF Admitted, Answered, TurnReturns, TurnOver, Delivered, NoMail, Process, Told, Claim,
     StartTurn, Look, MarkBusy, MarkIdle, AllIdle, AnnounceIdle, RequestPlanApproval, AddTask,
     inboxVars
<1>2. \A u \in Teammate : /\ turn'[u] = "offers" <=> turn[u] = "offers"
                          /\ turn[u] = "offers" => draft'[u] = draft[u]
  <2>1. CASE StartTurn(t)
    <3>1. turn' = [turn EXCEPT ![t] = "thinks"] /\ draft' = draft /\ turn[t] = "none"
      BY <2>1 DEF StartTurn, Goto, TurnsFit
    <3> QED
      BY <1>0, <3>1 DEF MailTyped
  <2>2. CASE ~StartTurn(t)
    BY <1>0, <2>2 DEF MailTyped, Admitted, Sent, Answered, TurnReturns, TurnOver, Delivered, NoMail,
       Process, Told, Claim, Look, MarkBusy, MarkIdle, AllIdle, AnnounceIdle,
       RequestPlanApproval, AddTask, agentVars, AtTurn
  <2> QED
    BY <2>1, <2>2
<1>3. \A u \in Teammate : /\ loop'[u] = "took" <=> loop[u] = "took"
                          /\ loop[u] = "took" => held'[u] = held[u]
  <2>1. CASE Process(t)
    <3>1. loop[t] = "got" /\ \E l \in {"tells", "receive"} : loop' = [loop EXCEPT ![t] = l]
      BY <2>1 DEF Process, Goto
    <3>2. held' = held \/ held' = [held EXCEPT ![t] = NoMessage]
      BY <2>1 DEF Process
    <3> QED
      BY <1>0, <3>1, <3>2 DEF MailTyped
  <2>2. CASE Look(t)
    BY <1>0, <2>2 DEF MailTyped, Look, Goto
  <2>3. CASE NoMail(t) /\ loop[t] # "took"
    BY <1>0, <2>3 DEF MailTyped, NoMail, Goto
  <2>4. CASE ~Process(t) /\ ~Look(t) /\ ~(NoMail(t) /\ loop[t] # "took")
    BY <1>0, <2>4 DEF MailTyped, Admitted, Sent, Answered, TurnReturns, TurnOver, Delivered,
       Told, Claim, StartTurn, MarkBusy, MarkIdle, AllIdle, AnnounceIdle, RequestPlanApproval,
       AddTask, Goto
  <2> QED
    BY <2>1, <2>2, <2>3, <2>4
<1> QED
  BY <1>1, <1>2, <1>3, QuietGhosts

\* The loop's time is up between delivery and count.
LEMMA ReceiveCutHaunts ==
  ASSUME MailInv, NEW t \in Teammate, NoMail(t), loop[t] = "took"
  PROVE  HauntRule
<1>0. MailTyped
  BY DEF MailInv
<1>1. /\ letter' = letter /\ stream' = stream /\ blocked' = blocked /\ shadow' = shadow
      /\ turn' = turn /\ draft' = draft
      /\ loop' = [loop EXCEPT ![t] = "claim"] /\ held' = [held EXCEPT ![t] = NoMessage]
  BY DEF NoMail, Goto, inboxVars, agentVars
<1>2. ReceiveCut(t)
  BY <1>0, <1>1 DEF ReceiveCut, MailTyped
<1>3. \A u \in Teammate : loop'[u] = "took" => loop[u] = "took" /\ held'[u] = held[u]
  BY <1>0, <1>1 DEF MailTyped
<1>4. ASSUME NEW u \in Teammate, NEW n, OnWay(n, u)' PROVE OnWay(n, u)
  BY <1>1, <1>3, <1>4 DEF OnWay, Queued
<1> QED
  BY <1>1, <1>2, <1>4, MishapGhosts DEF Ghost

\* A turn that is cut off leaves a ghost only if it was sending.
LEMMA SendCutHaunts ==
  ASSUME MailInv, NEW t \in Teammate, TurnTimesOut(t)
  PROVE  HauntRule
<1>0. MailTyped /\ \A b \in Agent : InboxFits(b)
  BY DEF MailInv
<1>1. /\ letter' = letter /\ stream' = stream /\ shadow' = shadow /\ held' = held
      /\ loop' = [loop EXCEPT ![t] = "receive"] /\ loop[t] = "turn"
      /\ turn' = [turn EXCEPT ![t] = "none"] /\ draft' = [draft EXCEPT ![t] = NoMessage]
  BY DEF TurnTimesOut, TurnOver, Goto
<1>2. /\ \A u \in Teammate : u # t => turn'[u] = turn[u] /\ draft'[u] = draft[u]
      /\ turn'[t] = "none"
      /\ \A u \in Teammate : loop'[u] = "took" <=> loop[u] = "took"
  BY <1>0, <1>1 DEF MailTyped
<1>3. CASE turn[t] \notin {"offers", "blocked"}
  <2>1. blocked' = blocked
    BY <1>3 DEF TurnTimesOut
  <2> QED
    BY <1>1, <1>2, <1>3, <2>1, QuietGhosts DEF inboxVars
<1>4. CASE turn[t] \in {"offers", "blocked"}
  <2>1. SendCut(t)
    BY <1>2, <1>4 DEF SendCut
  <2>2. ASSUME NEW b \in Agent PROVE Range(blocked'[b]) \subseteq Range(blocked[b])
    <3>1. CASE UNCHANGED blocked
      BY <3>1
    <3>2. ASSUME NEW a, NEW m, Withdraw(a, m), blocked' # blocked
          PROVE  Range(blocked'[b]) \subseteq Range(blocked[b])
      <4>1. PICK i \in DOMAIN blocked[a] : blocked' = [blocked EXCEPT ![a] = RemoveAt(blocked[a], i)]
        BY <3>2 DEF Withdraw
      <4>2. a \in Agent
        BY <1>0, <3>2, <4>1 DEF MailTyped
      <4>3. PICK s \in Seq(Message) : s = blocked[a]
        BY <1>0, <4>2 DEF MailTyped
      <4>4. PICK s2 : s2 = RemoveAt(s, i)
        OBVIOUS
      <4>5. Range(s2) \subseteq Range(s)
        BY <4>1, <4>3, <4>4, Extracted
      <4>6. blocked' = [blocked EXCEPT ![a] = s2]
        BY <4>1, <4>3, <4>4
      <4> QED
        BY <1>0, <4>2, <4>3, <4>5, <4>6 DEF MailTyped
    <3> QED
      BY <3>1, <3>2 DEF TurnTimesOut
  <2>3. \A u \in Teammate : turn'[u] = "offers" => turn[u] = "offers" /\ draft'[u] = draft[u]
    BY <1>2
  <2>4. ASSUME NEW u \in Teammate PROVE Queued(u)' \subseteq Queued(u)
    BY <1>1, <2>2 DEF Queued, Agent
  <2>5. ASSUME NEW u \in Teammate, NEW n, OnWay(n, u)' PROVE OnWay(n, u)
    BY <1>1, <1>2, <2>3, <2>4, <2>5 DEF OnWay
  <2> QED
    BY <1>1, <2>1, <2>5, MishapGhosts DEF Ghost
<1> QED
  BY <1>3, <1>4

\* A message that is written is on its way at once.
LEMMA WriteHauntsNot ==
  ASSUME MailInv, CountedOnce, NEW t \in Teammate, NEW m \in Message, NEW a \in Agent,
         NEW kind, NEW q, turn[t] # "offers", Write(t, m, a, kind, q)
  PROVE  HauntRule
<1>0. /\ MailTyped /\ ~Written(m)
      /\ \A u \in Teammate : DraftFits(u)
  BY DEF MailInv, Write, Written, Unwritten
<1>1. /\ letter' = [letter EXCEPT ![m] = [to |-> a, kind |-> kind, about |-> q]]
      /\ shadow' = [shadow EXCEPT ![a] = Append(shadow[a], m)]
      /\ draft' = [draft EXCEPT ![t] = m] /\ turn' = [turn EXCEPT ![t] = "offers"]
      /\ UNCHANGED <<stream, blocked, loop, held>>
  BY DEF Write
<1>2. /\ letter'[m].to = a /\ draft'[t] = m /\ turn'[t] = "offers"
      /\ \A n : n # m => letter'[n] = letter[n]
      /\ \A u \in Teammate : u # t => turn'[u] = turn[u] /\ draft'[u] = draft[u]
  BY <1>0, <1>1 DEF MailTyped
<1>3. \A u \in Teammate : Range(shadow'[u]) = Range(shadow[u]) \cup (IF u = a THEN {m} ELSE {})
  <2>1. shadow[a] \in Seq(Message) /\ Range(Append(shadow[a], m)) = Range(shadow[a]) \cup {m}
    BY <1>0, Appended DEF MailTyped
  <2> QED
    BY <1>0, <1>1, <2>1 DEF MailTyped, Agent
<1>4. \A u \in Teammate : m \notin Range(shadow[u])
  BY <1>0 DEF CountedOnce, Agent
<1>5. a \in Teammate => OnWay(m, a)'
  BY <1>2 DEF OnWay
<1>6. ASSUME NEW u \in Teammate, NEW n, n # m PROVE OnWay(n, u)' <=> OnWay(n, u)
  <2>1. Queued(u)' = Queued(u)
    BY <1>1 DEF Queued
  <2>2. \A v \in Teammate : /\ turn'[v] = "offers" /\ n = draft'[v] /\ letter'[n].to = u
                            <=> /\ turn[v] = "offers" /\ n = draft[v] /\ letter[n].to = u
    BY <1>2, <1>6
  <2> QED
    BY <1>1, <2>1, <2>2 DEF OnWay
<1>7. ASSUME NEW u \in Teammate, NEW n PROVE Ghost(n, u)' <=> Ghost(n, u)
  <2>1. CASE n = m
    BY <1>3, <1>4, <1>5, <2>1 DEF Ghost
  <2>2. CASE n # m
    BY <1>3, <1>6, <2>2 DEF Ghost
  <2> QED
    BY <2>1, <2>2
<1> QED
  BY <1>7, SameGhosts

\* A message offered goes from its sender into the stream or the queue.
LEMMA OfferHauntsNot ==
  ASSUME MailInv, NEW t \in Teammate, Offer(t)
  PROVE  HauntRule
<1>0. /\ MailTyped /\ turn[t] = "offers"
      /\ \A u \in Teammate : DraftFits(u)
  BY DEF MailInv, Offer, AtTurn
<1>1. PICK m \in Message : m = draft[t]
  BY <1>0 DEF DraftFits
<1>2. PICK a \in Agent : a = letter[m].to
  BY <1>0 DEF MailTyped
<1>3. /\ letter' = letter /\ shadow' = shadow /\ loop' = loop /\ held' = held
      /\ turn'[t] # "offers"
      /\ \A u \in Teammate : u # t => turn'[u] = turn[u] /\ draft'[u] = draft[u]
  BY <1>0 DEF Offer, Sent, MailTyped
<1>4. \A u \in Teammate : Queued(u)' = Queued(u) \cup (IF u = a THEN {m} ELSE {})
  <2>1. \/ stream' = [stream EXCEPT ![a] = Append(stream[a], m)] /\ blocked' = blocked
        \/ blocked' = [blocked EXCEPT ![a] = Append(blocked[a], m)] /\ stream' = stream
    BY <1>1, <1>2 DEF Offer
  <2>2. /\ stream[a] \in Seq(Message) /\ blocked[a] \in Seq(Message)
        /\ Range(Append(stream[a], m)) = Range(stream[a]) \cup {m}
        /\ Range(Append(blocked[a], m)) = Range(blocked[a]) \cup {m}
    BY <1>0, Appended DEF MailTyped
  <2>3. CASE stream' = [stream EXCEPT ![a] = Append(stream[a], m)] /\ blocked' = blocked
    BY <1>0, <2>2, <2>3 DEF Queued, MailTyped, Agent
  <2>4. CASE blocked' = [blocked EXCEPT ![a] = Append(blocked[a], m)] /\ stream' = stream
    BY <1>0, <2>2, <2>4 DEF Queued, MailTyped, Agent
  <2> QED
    BY <2>1, <2>3, <2>4
<1>5. ASSUME NEW u \in Teammate, NEW n PROVE OnWay(n, u)' <=> OnWay(n, u)
  <2>1. CASE u = a /\ n = m
    <3>1. n \in Queued(u)' /\ turn[t] = "offers" /\ n = draft[t] /\ letter[n].to = u
      BY <1>0, <1>1, <1>2, <1>4, <2>1
    <3> QED
      BY <3>1 DEF OnWay
  <2>2. CASE ~(u = a /\ n = m)
    <3>1. n \in Queued(u)' <=> n \in Queued(u)
      BY <1>4, <2>2
    <3>2. \A v \in Teammate : /\ turn'[v] = "offers" /\ n = draft'[v] /\ letter'[n].to = u
                              <=> /\ turn[v] = "offers" /\ n = draft[v] /\ letter[n].to = u
      BY <1>1, <1>2, <1>3, <2>2
    <3> QED
      BY <1>3, <3>1, <3>2 DEF OnWay
  <2> QED
    BY <2>1, <2>2
<1> QED
  BY <1>3, <1>5, SameGhosts DEF Ghost

\* A message taken goes from the stream into the reader's hand.
LEMMA TakeHauntsNot ==
  ASSUME MailInv, NEW t \in Teammate, Take(t)
  PROVE  HauntRule
<1>0. /\ MailTyped /\ t \in Agent /\ stream[t] # <<>> /\ loop[t] = "receive"
  BY DEF MailInv, Take, Goto, Agent
<1>1. PICK s \in Seq(Message), w \in Seq(Message) : s = stream[t] /\ w = blocked[t]
  BY <1>0 DEF MailTyped
<1>2. /\ Head(s) \in Message /\ Tail(s) \in Seq(Message)
      /\ Range(s) = Range(Tail(s)) \cup {Head(s)}
  BY <1>0, <1>1, Behead
<1>3. PICK s2 \in Seq(Message), w2 \in Seq(Message) :
        /\ stream' = [stream EXCEPT ![t] = s2] /\ blocked' = [blocked EXCEPT ![t] = w2]
        /\ Range(s2) \cup Range(w2) = Range(Tail(s)) \cup Range(w)
  <2>1. CASE w = <<>>
    <3>1. Tail(s) \o <<>> = Tail(s)
      BY <1>2
    <3>2. stream' = [stream EXCEPT ![t] = Tail(s)] /\ blocked' = [blocked EXCEPT ![t] = w]
      BY <1>1, <2>1, <3>1 DEF Take
    <3> QED
      BY <1>2, <3>2
  <2>2. CASE w # <<>>
    <3>1. /\ Tail(w) \in Seq(Message) /\ Head(w) \in Message
          /\ Range(w) = Range(Tail(w)) \cup {Head(w)}
      BY <2>2, Behead
    <3>2. Tail(s) \o <<Head(w)>> = Append(Tail(s), Head(w))
      BY <1>2, <3>1
    <3>3. /\ stream' = [stream EXCEPT ![t] = Append(Tail(s), Head(w))]
          /\ blocked' = [blocked EXCEPT ![t] = Tail(w)]
      BY <1>1, <2>2, <3>2 DEF Take
    <3>4. /\ Append(Tail(s), Head(w)) \in Seq(Message)
          /\ Range(Append(Tail(s), Head(w))) = Range(Tail(s)) \cup {Head(w)}
      BY <1>2, <3>1, Appended
    <3> QED
      BY <3>1, <3>3, <3>4
  <2> QED
    BY <2>1, <2>2
<1>4. PICK m \in Message : m = Head(s)
  BY <1>2
<1>5. /\ loop'[t] = "took" /\ held'[t] = m
      /\ \A u \in Teammate : u # t => loop'[u] = loop[u] /\ held'[u] = held[u]
      /\ letter' = letter /\ shadow' = shadow /\ turn' = turn /\ draft' = draft
  BY <1>0, <1>1, <1>4 DEF Take, Goto, agentVars, MailTyped
<1>6. /\ m \in Queued(t) /\ Queued(t) = Queued(t)' \cup {m}
      /\ \A u \in Teammate : u # t => Queued(u)' = Queued(u)
  <2>1. Queued(t)' = Range(s2) \cup Range(w2)
    BY <1>0, <1>3 DEF Queued, MailTyped
  <2>2. Queued(t) = Range(Tail(s)) \cup {m} \cup Range(w)
    BY <1>1, <1>2, <1>4 DEF Queued
  <2>3. \A u \in Teammate : u # t => Queued(u)' = Queued(u)
    BY <1>0, <1>3 DEF Queued, MailTyped, Agent
  <2> QED
    BY <1>3, <2>1, <2>2, <2>3
<1>7. ASSUME NEW u \in Teammate, NEW n PROVE OnWay(n, u)' <=> OnWay(n, u)
  <2>1. CASE u = t
    BY <1>0, <1>5, <1>6, <2>1 DEF OnWay
  <2>2. CASE u # t
    BY <1>5, <1>6, <2>2 DEF OnWay
  <2> QED
    BY <2>1, <2>2
<1> QED
  BY <1>5, <1>7, SameGhosts DEF Ghost

\* The message in hand is counted off, or haunts the inbox if another one stands
\* before it.
LEMMA OvertakingHaunts ==
  ASSUME MailInv, CountedOnce, NEW t \in Teammate, Count(t)
  PROVE  HauntRule
<1>0. /\ MailTyped /\ t \in Agent /\ loop[t] = "took"
      /\ InboxFits(t) /\ \A u \in Teammate : HandFits(u) /\ DraftFits(u)
  BY DEF MailInv, Count, Goto, Agent
<1>1. /\ UNCHANGED <<letter, stream, blocked, held, turn, draft>>
      /\ loop' = [loop EXCEPT ![t] = "counted"]
  BY DEF Count, Goto, agentVars
<1>2. loop'[t] = "counted" /\ \A u \in Teammate : u # t => loop'[u] = loop[u]
  BY <1>0, <1>1 DEF MailTyped
<1>3. PICK s \in Seq(Message) : s = shadow[t] /\ IsInjective(s)
  BY <1>0 DEF MailTyped, CountedOnce
<1>4. held[t] \in Range(s) /\ s # <<>>
  <2>1. OnWay(held[t], t)
    BY <1>0 DEF OnWay
  <2>2. held[t] \in Range(s)
    BY <1>0, <1>3, <2>1, WayTo DEF InboxFits
  <2> QED
    BY <2>2 DEF Range
<1>5. ASSUME NEW u \in Teammate, NEW n
      PROVE  OnWay(n, u)' <=> OnWay(n, u) /\ ~(u = t /\ n = held[t])
  <2>1. Queued(u)' = Queued(u)
    BY <1>1 DEF Queued
  <2>2. CASE u # t
    BY <1>1, <1>2, <2>1, <2>2 DEF OnWay
  <2>3. CASE u = t
    <3>1. held[t] \notin Queued(t) /\ \A v \in Teammate : turn[v] = "offers" => draft[v] # held[t]
      BY <1>0 DEF HandFits, DraftFits
    <3> QED
      BY <1>0, <1>1, <1>2, <2>1, <2>3, <3>1 DEF OnWay
  <2> QED
    BY <2>2, <2>3
<1>6. OnWay(held[t], t)
  BY <1>0 DEF OnWay
<1>7. CASE Head(s) # held[t]
  <2>1. Overtook(t)
    BY <1>0, <1>2, <1>3, <1>7 DEF Overtook
  <2>2. shadow' = shadow
    BY <1>0, <1>3, <1>7 DEF Count, MailTyped
  <2> QED
    BY <1>5, <2>1, <2>2, MishapGhosts DEF Ghost
<1>8. CASE Head(s) = held[t]
  <2>1. /\ Tail(s) \in Seq(Message) /\ Range(s) = Range(Tail(s)) \cup {held[t]}
        /\ held[t] \notin Range(Tail(s))
    BY <1>3, <1>4, <1>8, Behead
  <2>2. shadow' = [shadow EXCEPT ![t] = Tail(s)]
    BY <1>3, <1>4, <1>8 DEF Count
  <2>3. \A u \in Teammate : Range(shadow'[u]) = Range(shadow[u]) \ (IF u = t THEN {held[t]} ELSE {})
    BY <1>0, <1>3, <2>1, <2>2 DEF MailTyped, Agent
  <2>4. ASSUME NEW u \in Teammate, NEW n PROVE Ghost(n, u)' <=> Ghost(n, u)
    BY <1>5, <1>6, <2>3 DEF Ghost
  <2> QED
    BY <2>4, SameGhosts
<1> QED
  BY <1>7, <1>8

\* A message is counted for ever, and keeps its teammate from going idle, only
\* after a send was cut off between buffer and stream, a receive before it had
\* counted, or sends overtook each other: for any agents, messages and inboxes,
\* no other step of the store, the loops or the agents leaves one behind
\* (team_mailbox.py:61).
THEOREM GhostsComeOfMishaps == Spec => OnlyMishapsHaunt
<1>1. Init => CountedOnce /\ TurnsFit
  <2>1. Range(<<>>) = {} /\ IsInjective(<<>>)
    BY DEF Range, IsInjective
  <2> QED
    BY <2>1 DEF Init, CountedOnce, TurnsFit
<1>2. ASSUME MailInv, CountedOnce, TurnsFit, [Next]_vars PROVE HauntRule
  <2>1. CASE UNCHANGED <<inboxVars, loop, held, agentVars>>
    BY <1>2, <2>1, QuietGhosts DEF agentVars
  <2>2. ASSUME NEW t \in Teammate, LoopStep(t) PROVE HauntRule
    <3>1. CASE NoMail(t)
      BY <1>2, <3>1, QuietSteps, ReceiveCutHaunts
    <3>2. CASE Take(t) \/ Count(t)
      BY <1>2, <3>2, TakeHauntsNot, OvertakingHaunts
    <3>3. CASE ~(NoMail(t) \/ Take(t) \/ Count(t))
      <4>1. \/ Delivered(t) \/ Process(t) \/ Told(t) \/ Claim(t) \/ StartTurn(t) \/ Look(t)
            \/ MarkBusy(t) \/ MarkIdle(t) \/ AllIdle(t) \/ AnnounceIdle(t)
        BY <2>2, <3>3 DEF LoopStep
      <4> QED
        BY <1>2, <4>1, QuietSteps
    <3> QED
      BY <3>1, <3>2, <3>3
  <2>3. ASSUME NEW t \in Teammate, NEW m \in Message, SendMessage(t, m) PROVE HauntRule
    <3>1. PICK a \in Agent, kind \in {"chat"} \cup DOMAIN Verdict,
               q \in Request \cup {NoRequest} : Write(t, m, a, kind, q)
      BY <2>3 DEF SendMessage
    <3> QED
      BY <1>2, <2>3, <3>1, WriteHauntsNot DEF SendMessage, AtTurn
  <2>4. ASSUME NEW t \in Teammate, NEW m \in Message, SendRequest(t, m) PROVE HauntRule
    BY <1>2, <2>4, WriteHauntsNot DEF SendRequest, AtTurn, Agent
  <2>5. ASSUME NEW t \in Teammate, AgentStep(t) PROVE HauntRule
    BY <1>2, <2>3, <2>4, <2>5, QuietSteps, OfferHauntsNot, SendCutHaunts DEF AgentStep
  <2>6. \A q \in Request : Waiting(q) => UNCHANGED <<inboxVars, loop, held, agentVars>>
    BY DEF Waiting
  <2> HIDE DEF LoopStep, AgentStep, Waiting
  <2> QED
    BY <1>2, <2>1, <2>2, <2>5, <2>6 DEF Next, vars
<1>3. MailInv /\ CountedOnce /\ TurnsFit /\ [Next]_vars =>
        [/\ Haunted => Haunted'
         /\ Haunted' => Haunted \/ \E t \in Teammate : SendCut(t) \/ ReceiveCut(t) \/ Overtook(t)]_vars
  BY <1>2 DEF HauntRule
<1> QED
  BY <1>1, <1>3, MailStart, MailStep, CountedKeeps, TurnsKeep, PTL DEF Spec, OnlyMishapsHaunt
==============================================================================
