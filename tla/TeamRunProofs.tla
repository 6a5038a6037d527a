--------------------------- MODULE TeamRunProofs ---------------------------
(***************************************************************************)
(* What holds in every team run: each loop owns the task in its hand, and  *)
(* the run as a whole is a client of the board, so that the theorems of    *)
(* TeamTaskListProofs hold in it.                                          *)
(***************************************************************************)
EXTENDS TeamRun, TeamTaskListProofs

InHand == Holding \cup {"claiming", "fail", "failing", "releasing"}

(* The strengthening of HandOwned: each loop owns its hand, a publication   *)
(* is in flight only where the loop made the call, the lock is only held to *)
(* publish, and the initial tasks still to be added are not on the board.   *)
OwnHand(w) == pc[w] \in InHand =>
                /\ cur[w] \in Task
                /\ claimed_by[cur[w]] = w
                /\ status[cur[w]] \in {"in_progress", "completed", "failed"}

CallPlace(w) == emit[w] # NoEvent =>
                  pc[w] \in {"blocked", "claiming", "work", "completing", "released", "failing"}

ToAdd == phase = "populate" =>
            \A i \in DOMAIN InitialSpec : i > made => InitialSpec[i].task \notin Known

Hands == \A w \in Teammate : OwnHand(w) /\ CallPlace(w)

RunInv == TypeOK /\ TeamTypeOK /\ Hands /\ LockHeldToPublish /\ ToAdd

(* A call of a client, or its end.                                          *)
AddCall(a) == \E t \in Task \ (Known \cup BogusId), e \in NewEntry : Add(a, t, e)
ClaimCall(a) == \E t \in Task, ls \in SUBSET Label, byId \in BOOLEAN :
                  Claim(a, t, ls, byId) \/ ClaimBlocked(a, t, ls, byId)
EndCall(a) == \E t \in Task, s \in Finish : UpdateStatus(a, t, s)
ReleaseCall(a) == \E t \in Task : claimed_by[t] = a /\ Release(a, t)

(* The calls an agent makes, those that make no entry, and all of them.     *)
AgentCall(a) == AddCall(a) \/ ClaimCall(a) \/ EndCall(a) \/ LetGo(a) \/ UNCHANGED vars
QuietCall(a) == ClaimCall(a) \/ EndCall(a) \/ ReleaseCall(a) \/ LetGo(a) \/ UNCHANGED vars
ClientCall(a) == AddCall(a) \/ QuietCall(a)

-----------------------------------------------------------------------------
(* Lemmas on the calls of the board.                                        *)

(* A call is a step of the board's specification.                           *)
LEMMA CallIsClient ==
  ASSUME TypeOK, LockHeldToPublish, NEW a \in Actor, ClientCall(a)
  PROVE  [Next]_vars
<1>1. CASE LetGo(a)
  <2>1. CASE emit[a] # NoEvent
    BY <1>1, <2>1 DEF Next, Publish
  <2>2. CASE emit[a] = NoEvent
    <3>1. boardLock # a
      BY <2>2, ActorAssumption DEF LockHeldToPublish
    <3> QED
      BY <1>1, <2>2, <3>1 DEF LetGo, vars, TypeOK
  <2> QED
    BY <2>1, <2>2
<1>2. CASE ~LetGo(a)
  BY <1>2 DEF Next, ClientCall, QuietCall, AddCall, ClaimCall, EndCall, ReleaseCall
<1> QED
  BY <1>1, <1>2

(* A task that somebody other than the caller has claimed, and that is      *)
(* running or finished, stays as it is.                                     *)
LEMMA OthersKept ==
  ASSUME TypeOK, NEW a \in Actor, NEW u \in Task, claimed_by[u] # a,
         status[u] \in {"in_progress", "completed", "failed"}, ClientCall(a)
  PROVE  status'[u] = status[u] /\ claimed_by'[u] = claimed_by[u]
<1> USE DEF TypeOK
<1>1. ASSUME AddCall(a) PROVE status'[u] = status[u] /\ claimed_by'[u] = claimed_by[u]
  BY <1>1 DEF AddCall, Add, Put, Known
<1>2. ASSUME ClaimCall(a) PROVE status'[u] = status[u] /\ claimed_by'[u] = claimed_by[u]
  BY <1>2 DEF ClaimCall, Claim, ClaimBlocked, Pick, OldestClaimable, Claimable, board
<1>3. ASSUME EndCall(a) PROVE status'[u] = status[u] /\ claimed_by'[u] = claimed_by[u]
  BY <1>3 DEF EndCall, UpdateStatus
<1>4. ASSUME ReleaseCall(a) PROVE status'[u] = status[u] /\ claimed_by'[u] = claimed_by[u]
  BY <1>4 DEF ReleaseCall, Release
<1>5. CASE LetGo(a) \/ UNCHANGED vars
  BY <1>5 DEF LetGo, board, vars
<1> QED
  BY <1>1, <1>2, <1>3, <1>4, <1>5 DEF ClientCall, QuietCall

(* No tool takes a task out of the hand of the loop whose agent calls it.   *)
LEMMA OwnKept ==
  ASSUME TypeOK, NEW a \in Actor, NEW u \in Task, claimed_by[u] = a,
         status[u] \in {"in_progress", "completed", "failed"}, AgentCall(a)
  PROVE  /\ status'[u] \in {"in_progress", "completed", "failed"}
         /\ claimed_by'[u] = a
<1> DEFINE Kept == /\ status'[u] \in {"in_progress", "completed", "failed"}
                   /\ claimed_by'[u] = a
<1> USE DEF TypeOK
<1>1. ASSUME AddCall(a) PROVE Kept
  BY <1>1 DEF AddCall, Add, Put, Known
<1>2. ASSUME ClaimCall(a) PROVE Kept
  BY <1>2 DEF ClaimCall, Claim, ClaimBlocked, Pick, OldestClaimable, Claimable, board
<1>3. ASSUME EndCall(a) PROVE Kept
  BY <1>3 DEF EndCall, UpdateStatus, Finish
<1>4. CASE LetGo(a) \/ UNCHANGED vars
  BY <1>4 DEF LetGo, board, vars
<1> QED
  BY <1>1, <1>2, <1>3, <1>4 DEF AgentCall

(* A call touches nobody else's publication.                                *)
LEMMA OthersEmit ==
  ASSUME TypeOK, NEW a \in Actor, ClientCall(a), NEW b \in Actor, b # a
  PROVE  emit'[b] = emit[b]
BY DEF TypeOK, ClientCall, QuietCall, AddCall, ClaimCall, EndCall, ReleaseCall, Add, Claim,
   ClaimBlocked, UpdateStatus, Release, LetGo, Announce, vars

(* Only add makes an entry.                                                 *)
LEMMA QuietKnown ==
  ASSUME TypeOK, NEW a \in Actor, QuietCall(a)
  PROVE  Known' \subseteq Known
<1> USE DEF TypeOK, Known
<1>1. ASSUME ClaimCall(a) PROVE Known' \subseteq Known
  BY <1>1 DEF ClaimCall, Claim, ClaimBlocked, Pick, OldestClaimable, Claimable, board
<1>2. ASSUME EndCall(a) PROVE Known' \subseteq Known
  BY <1>2 DEF EndCall, UpdateStatus
<1>3. ASSUME ReleaseCall(a) PROVE Known' \subseteq Known
  BY <1>3 DEF ReleaseCall, Release
<1>4. CASE LetGo(a) \/ UNCHANGED vars
  BY <1>4 DEF LetGo, board, vars
<1> QED
  BY <1>1, <1>2, <1>3, <1>4 DEF QuietCall

-----------------------------------------------------------------------------
(* One round of a loop.                                                     *)

(* What a step of w keeps: the other loops and the progress of the run; and *)
(* what it establishes for w itself.                                        *)
LoopEffect(w) ==
  /\ \A v \in Teammate \ {w} : pc'[v] = pc[v] /\ cur'[v] = cur[v]
  /\ phase' = phase /\ made' = made
  /\ OwnHand(w)' /\ CallPlace(w)'
  /\ TeamTypeOK'

LEMMA LoopStepEffect ==
  ASSUME RunInv, NEW w \in Teammate, LoopStep(w)
  PROVE  LoopEffect(w) /\ QuietCall(w)
<1> w \in Actor
  BY TeamAssumption
<1> TypeOK /\ TeamTypeOK /\ OwnHand(w) /\ CallPlace(w)
  BY DEF RunInv, Hands
<1> USE LimitAssumption DEF Goto, InHand, Holding, Ended
<1>1. ASSUME PollClaims(w) PROVE LoopEffect(w) /\ QuietCall(w)
  <2>1. QuietCall(w)
    BY <1>1 DEF PollClaims, ClaimCall, QuietCall, OwnHand
  <2>2. /\ \A v \in Teammate \ {w} : pc'[v] = pc[v] /\ cur'[v] = cur[v]
        /\ phase' = phase /\ made' = made /\ TeamTypeOK'
    BY <1>1 DEF PollClaims, runVars, TeamTypeOK, CallPlace, Over
  <2>3. OwnHand(w)'
    BY <1>1 DEF PollClaims, Claim, OwnHand, CallPlace, TypeOK, TeamTypeOK
  <2>4. CallPlace(w)'
    BY <1>1 DEF PollClaims, Claim, Announce, CallPlace, TypeOK, TeamTypeOK, Free
  <2> QED
    BY <2>1, <2>2, <2>3, <2>4 DEF LoopEffect
<1>2. ASSUME PollBlocked(w) PROVE LoopEffect(w) /\ QuietCall(w)
  <2>1. QuietCall(w)
    BY <1>2 DEF PollBlocked, ClaimCall, QuietCall, OwnHand
  <2>2. /\ \A v \in Teammate \ {w} : pc'[v] = pc[v] /\ cur'[v] = cur[v]
        /\ phase' = phase /\ made' = made /\ TeamTypeOK'
    BY <1>2 DEF PollBlocked, runVars, TeamTypeOK, CallPlace, Over
  <2>3. OwnHand(w)'
    BY <1>2 DEF PollBlocked, OwnHand, CallPlace, TypeOK, TeamTypeOK
  <2>4. CallPlace(w)'
    BY <1>2 DEF PollBlocked, CallPlace, TypeOK, TeamTypeOK, Free
  <2> QED
    BY <2>1, <2>2, <2>3, <2>4 DEF LoopEffect
<1>3. ASSUME PollEmpty(w) PROVE LoopEffect(w) /\ QuietCall(w)
  <2>1. QuietCall(w)
    BY <1>3 DEF PollEmpty, QuietCall, OwnHand
  <2>2. /\ \A v \in Teammate \ {w} : pc'[v] = pc[v] /\ cur'[v] = cur[v]
        /\ phase' = phase /\ made' = made /\ TeamTypeOK'
    BY <1>3 DEF PollEmpty, runVars, TeamTypeOK, CallPlace, Over
  <2>3. OwnHand(w)'
    BY <1>3 DEF PollEmpty, OwnHand, CallPlace, TypeOK, TeamTypeOK
  <2>4. CallPlace(w)'
    BY <1>3 DEF PollEmpty, vars, CallPlace, TypeOK, TeamTypeOK, Free
  <2> QED
    BY <2>1, <2>2, <2>3, <2>4 DEF LoopEffect
<1>4. ASSUME LookInProgress(w) PROVE LoopEffect(w) /\ QuietCall(w)
  <2>1. QuietCall(w)
    BY <1>4 DEF LookInProgress, QuietCall, OwnHand
  <2>2. /\ \A v \in Teammate \ {w} : pc'[v] = pc[v] /\ cur'[v] = cur[v]
        /\ phase' = phase /\ made' = made /\ TeamTypeOK'
    BY <1>4 DEF LookInProgress, runVars, TeamTypeOK, CallPlace, Over
  <2>3. OwnHand(w)'
    BY <1>4 DEF LookInProgress, OwnHand, CallPlace, TypeOK, TeamTypeOK
  <2>4. CallPlace(w)'
    BY <1>4 DEF LookInProgress, vars, CallPlace, TypeOK, TeamTypeOK, Free
  <2> QED
    BY <2>1, <2>2, <2>3, <2>4 DEF LoopEffect
<1>5. ASSUME LookPending(w) PROVE LoopEffect(w) /\ QuietCall(w)
  <2>1. QuietCall(w)
    BY <1>5 DEF LookPending, QuietCall, OwnHand
  <2>2. /\ \A v \in Teammate \ {w} : pc'[v] = pc[v] /\ cur'[v] = cur[v]
        /\ phase' = phase /\ made' = made /\ TeamTypeOK'
    <3> DEFINE Calm == {"poll", "drained"}
    <3>1. \E l \in Calm : pc' = [pc EXCEPT ![w] = l]
      BY <1>5 DEF LookPending
    <3>2. idle' \in [Teammate -> 0..IdlePolls]
      <4>1. idle \in [Teammate -> 0..IdlePolls]
        BY DEF TeamTypeOK
      <4>2. CASE idle' = [idle EXCEPT ![w] = 0]
        BY <4>1, <4>2
      <4>3. CASE idle[w] < IdlePolls /\ idle' = [idle EXCEPT ![w] = @ + 1]
        BY <4>1, <4>3
      <4>4. CASE idle' = idle
        BY <4>1, <4>4
      <4> QED
        BY <1>5, <4>2, <4>3, <4>4 DEF LookPending
    <3>3. UNCHANGED <<cur, busy, phase, made, stop, why>>
      BY <1>5 DEF LookPending, runVars
    <3>4. \A v \in Teammate \ {w} : pc'[v] = pc[v] /\ cur'[v] = cur[v]
      BY <3>1, <3>3 DEF TeamTypeOK
    <3>5. TeamTypeOK'
      BY <3>1, <3>2, <3>3 DEF TeamTypeOK, Over
    <3> QED
      BY <3>3, <3>4, <3>5
  <2>3. OwnHand(w)'
    BY <1>5 DEF LookPending, OwnHand, CallPlace, TypeOK, TeamTypeOK
  <2>4. CallPlace(w)'
    BY <1>5 DEF LookPending, vars, CallPlace, TypeOK, TeamTypeOK, Free
  <2> QED
    BY <2>1, <2>2, <2>3, <2>4 DEF LoopEffect
<1>6. ASSUME Acquire(w) PROVE LoopEffect(w) /\ QuietCall(w)
  <2>1. QuietCall(w)
    BY <1>6 DEF Acquire, QuietCall, OwnHand
  <2>2. /\ \A v \in Teammate \ {w} : pc'[v] = pc[v] /\ cur'[v] = cur[v]
        /\ phase' = phase /\ made' = made /\ TeamTypeOK'
    BY <1>6 DEF Acquire, runVars, TeamTypeOK, CallPlace, Over
  <2>3. OwnHand(w)'
    BY <1>6 DEF Acquire, vars, board, OwnHand, CallPlace, TypeOK, TeamTypeOK
  <2>4. CallPlace(w)'
    BY <1>6 DEF Acquire, vars, CallPlace, TypeOK, TeamTypeOK, Free
  <2> QED
    BY <2>1, <2>2, <2>3, <2>4 DEF LoopEffect
<1>7. ASSUME AgentEnds(w) PROVE LoopEffect(w) /\ QuietCall(w)
  <2>1. QuietCall(w)
    BY <1>7 DEF AgentEnds, QuietCall, OwnHand
  <2>2. /\ \A v \in Teammate \ {w} : pc'[v] = pc[v] /\ cur'[v] = cur[v]
        /\ phase' = phase /\ made' = made /\ TeamTypeOK'
    BY <1>7 DEF AgentEnds, runVars, TeamTypeOK, CallPlace, Over
  <2>3. OwnHand(w)'
    BY <1>7 DEF AgentEnds, LetGo, board, OwnHand, CallPlace, TypeOK, TeamTypeOK
  <2>4. CallPlace(w)'
    BY <1>7 DEF AgentEnds, LetGo, CallPlace, TypeOK, TeamTypeOK, Free
  <2> QED
    BY <2>1, <2>2, <2>3, <2>4 DEF LoopEffect
<1>8. ASSUME Complete(w) PROVE LoopEffect(w) /\ QuietCall(w)
  <2>1. QuietCall(w)
    BY <1>8 DEF Complete, EndCall, Finish, QuietCall, OwnHand
  <2>2. /\ \A v \in Teammate \ {w} : pc'[v] = pc[v] /\ cur'[v] = cur[v]
        /\ phase' = phase /\ made' = made /\ TeamTypeOK'
    BY <1>8 DEF Complete, runVars, TeamTypeOK, CallPlace, Over
  <2>3. OwnHand(w)'
    BY <1>8 DEF Complete, UpdateStatus, vars, board, OwnHand, CallPlace, TypeOK, TeamTypeOK
  <2>4. CallPlace(w)'
    BY <1>8 DEF Complete, UpdateStatus, Free, vars, CallPlace, TypeOK, TeamTypeOK
  <2> QED
    BY <2>1, <2>2, <2>3, <2>4 DEF LoopEffect
<1>9. ASSUME Fail(w) PROVE LoopEffect(w) /\ QuietCall(w)
  <2>1. QuietCall(w)
    BY <1>9 DEF Fail, EndCall, Finish, QuietCall, OwnHand
  <2>2. /\ \A v \in Teammate \ {w} : pc'[v] = pc[v] /\ cur'[v] = cur[v]
        /\ phase' = phase /\ made' = made /\ TeamTypeOK'
    BY <1>9 DEF Fail, TeamTypeOK, CallPlace, Over
  <2>3. OwnHand(w)'
    BY <1>9 DEF Fail, UpdateStatus, vars, board, OwnHand, CallPlace, TypeOK, TeamTypeOK
  <2>4. CallPlace(w)'
    BY <1>9 DEF Fail, UpdateStatus, Free, vars, CallPlace, TypeOK, TeamTypeOK
  <2> QED
    BY <2>1, <2>2, <2>3, <2>4 DEF LoopEffect
<1>10. ASSUME Emitted(w) PROVE LoopEffect(w) /\ QuietCall(w)
  <2>1. QuietCall(w)
    BY <1>10 DEF Emitted, Publish, QuietCall, OwnHand
  <2>2. /\ \A v \in Teammate \ {w} : pc'[v] = pc[v] /\ cur'[v] = cur[v]
        /\ phase' = phase /\ made' = made /\ TeamTypeOK'
    BY <1>10 DEF Emitted, TeamTypeOK, CallPlace, Over, Publish
  <2>3. OwnHand(w)'
    BY <1>10 DEF Emitted, Publish, LetGo, board, OwnHand, CallPlace, TypeOK, TeamTypeOK
  <2>4. CallPlace(w)'
    BY <1>10 DEF Emitted, Publish, LetGo, CallPlace, TypeOK, TeamTypeOK, Free
  <2> QED
    BY <2>1, <2>2, <2>3, <2>4 DEF LoopEffect
<1>11. ASSUME Cancelled(w) PROVE LoopEffect(w) /\ QuietCall(w)
  <2>1. QuietCall(w)
    BY <1>11 DEF Cancelled, QuietCall, OwnHand
  <2>2. /\ \A v \in Teammate \ {w} : pc'[v] = pc[v] /\ cur'[v] = cur[v]
        /\ phase' = phase /\ made' = made /\ TeamTypeOK'
    BY <1>11 DEF Cancelled, runVars, TeamTypeOK, CallPlace, Over
  <2>3. OwnHand(w)'
    BY <1>11 DEF Cancelled, LetGo, board, OwnHand, CallPlace, TypeOK, TeamTypeOK
  <2>4. CallPlace(w)'
    BY <1>11 DEF Cancelled, LetGo, CallPlace, TypeOK, TeamTypeOK, Free
  <2> QED
    BY <2>1, <2>2, <2>3, <2>4 DEF LoopEffect
<1>12. ASSUME ReleaseOwn(w) PROVE LoopEffect(w) /\ QuietCall(w)
  <2>1. QuietCall(w)
    BY <1>12 DEF ReleaseOwn, ReleaseCall, QuietCall, OwnHand
  <2>2. /\ \A v \in Teammate \ {w} : pc'[v] = pc[v] /\ cur'[v] = cur[v]
        /\ phase' = phase /\ made' = made /\ TeamTypeOK'
    BY <1>12 DEF ReleaseOwn, runVars, TeamTypeOK, CallPlace, Over
  <2>3. OwnHand(w)'
    BY <1>12 DEF ReleaseOwn, OwnHand, CallPlace, TypeOK, TeamTypeOK
  <2>4. CallPlace(w)'
    BY <1>12 DEF ReleaseOwn, Free, vars, CallPlace, TypeOK, TeamTypeOK
  <2> QED
    BY <2>1, <2>2, <2>3, <2>4 DEF LoopEffect
<1> QED
  BY <1>1, <1>2, <1>3, <1>4, <1>5, <1>6, <1>7, <1>8, <1>9, <1>10, <1>11, <1>12 DEF LoopStep

(* A loop that makes no step keeps its hand through the call of another.    *)
LEMMA OtherHand ==
  ASSUME RunInv, NEW a \in Actor, ClientCall(a), NEW v \in Teammate, v # a,
         pc'[v] = pc[v], cur'[v] = cur[v]
  PROVE  OwnHand(v)' /\ CallPlace(v)'
<1> TypeOK /\ OwnHand(v) /\ CallPlace(v)
  BY DEF RunInv, Hands
<1>1. CallPlace(v)'
  BY OthersEmit, TeamAssumption DEF CallPlace
<1>2. OwnHand(v)'
  <2>1. CASE pc[v] \in InHand
    <3>1. /\ cur[v] \in Task /\ claimed_by[cur[v]] = v
          /\ status[cur[v]] \in {"in_progress", "completed", "failed"}
      BY <2>1 DEF OwnHand
    <3>2. status'[cur[v]] = status[cur[v]] /\ claimed_by'[cur[v]] = claimed_by[cur[v]]
      BY <3>1, OthersKept
    <3> QED
      BY <3>1, <3>2 DEF OwnHand
  <2>2. CASE pc[v] \notin InHand
    BY <2>2 DEF OwnHand, InHand, Holding
  <2> QED
    BY <2>1, <2>2
<1> QED
  BY <1>1, <1>2

(* The board's part of the invariant, after any call.                       *)
LEMMA BoardPart ==
  ASSUME RunInv, NEW a \in Actor, ClientCall(a)
  PROVE  TypeOK' /\ LockHeldToPublish' /\ [Next]_vars
BY CallIsClient, TypeStep, LockStep DEF RunInv

(* The same for a step that leaves the loops alone.                         *)
LEMMA AloneStep ==
  ASSUME RunInv, ClientCall(Lead), UNCHANGED loopVars
  PROVE  Hands' /\ TypeOK' /\ LockHeldToPublish' /\ [Next]_vars
<1> Lead \in Actor \ Teammate
  BY TeamAssumption
<1>1. ASSUME NEW v \in Teammate PROVE OwnHand(v)' /\ CallPlace(v)'
  <2> v # Lead /\ pc' = pc /\ cur' = cur
    BY DEF loopVars
  <2> QED
    BY OtherHand
<1> QED
  BY <1>1, BoardPart DEF Hands

LEMMA RunStep == RunInv /\ [TeamNext]_teamVars => RunInv' /\ [Next]_vars
<1> SUFFICES ASSUME RunInv, [TeamNext]_teamVars PROVE RunInv' /\ [Next]_vars
  OBVIOUS
<1> TypeOK /\ TeamTypeOK /\ Hands /\ LockHeldToPublish /\ ToAdd
  BY DEF RunInv
<1> Lead \in Actor \ Teammate /\ Teammate \subseteq Actor
  BY TeamAssumption
<1>1. ASSUME Populate PROVE RunInv' /\ [Next]_vars
  <2> DEFINE spec == InitialSpec[made + 1]
             entry == [status |-> "pending", claimed_by |-> NoOne, labels |-> {},
                       assigned_to |-> spec.assigned_to, depends_on |-> spec.depends_on]
  <2> Len(InitialSpec) \in Nat /\ DOMAIN InitialSpec = 1..Len(InitialSpec) /\ made \in Nat
    BY InitialAssumption DEF TeamTypeOK
  <2>1. UNCHANGED <<loopVars, stop, why>>
    BY <1>1 DEF Populate
  <2>2. CASE made < Len(InitialSpec) /\ Add(Lead, spec.task, entry)
             /\ made' = made + 1 /\ UNCHANGED phase
    <3>1. spec.task \in Task \ (Known \cup BogusId)
      BY <1>1, <2>2, InitialAssumption DEF ToAdd, Populate
    <3>2. entry \in NewEntry
      BY <2>2, InitialAssumption, BogusAssumption DEF NewEntry, Entry, Status
    <3>3. ClientCall(Lead)
      BY <2>2, <3>1, <3>2 DEF ClientCall, AddCall
    <3>4. Known' \subseteq Known \cup {spec.task}
      BY <2>2 DEF Add, Put, Known, TypeOK
    <3>5. ToAdd'
      BY <1>1, <2>2, <3>4, InitialAssumption DEF ToAdd, Populate
    <3>6. TeamTypeOK'
      BY <2>1, <2>2 DEF TeamTypeOK, loopVars
    <3> QED
      BY <2>1, <3>3, <3>5, <3>6, AloneStep DEF RunInv
  <2>3. CASE \/ Publish(Lead) /\ UNCHANGED <<phase, made>>
             \/ phase' = "lead" /\ UNCHANGED <<vars, made>>
    <3>1. QuietCall(Lead)
      BY <2>3 DEF QuietCall, Publish
    <3>2. ToAdd'
      BY <2>3, <3>1, QuietKnown DEF ToAdd
    <3>3. TeamTypeOK'
      BY <2>1, <2>3 DEF TeamTypeOK, loopVars
    <3> QED
      BY <2>1, <3>1, <3>2, <3>3, AloneStep DEF RunInv, ClientCall
  <2> QED
    BY <1>1, <2>2, <2>3 DEF Populate
<1>2. ASSUME LeadTool PROVE RunInv' /\ [Next]_vars
  <2>1. ClientCall(Lead)
    BY <1>2 DEF LeadTool, ToolCall, Publish, ClientCall, QuietCall, AddCall, ClaimCall,
       EndCall, Finish
  <2>2. ToAdd' /\ TeamTypeOK'
    BY <1>2 DEF LeadTool, ToAdd, TeamTypeOK, loopVars, runVars
  <2> QED
    BY <1>2, <2>1, <2>2, AloneStep DEF LeadTool, RunInv
<1>3. ASSUME LeadReturns PROVE RunInv' /\ [Next]_vars
  <2>1. ClientCall(Lead)
    BY <1>3 DEF LeadReturns, ClientCall, QuietCall
  <2>2. ToAdd' /\ TeamTypeOK'
    BY <1>3 DEF LeadReturns, ToAdd, TeamTypeOK, loopVars
  <2> QED
    BY <1>3, <2>1, <2>2, AloneStep DEF LeadReturns, RunInv
<1>4. ASSUME TeamOver PROVE RunInv' /\ [Next]_vars
  <2>1. ClientCall(Lead)
    BY <1>4 DEF TeamOver, ClientCall, QuietCall
  <2>2. phase' \in Over
    BY <1>4 DEF TeamOver, Over
  <2>3. ToAdd' /\ TeamTypeOK'
    BY <1>4, <2>2 DEF TeamOver, ToAdd, TeamTypeOK, loopVars, Over
  <2> QED
    BY <1>4, <2>1, <2>3, AloneStep DEF TeamOver, RunInv
<1>5. ASSUME CancelRun PROVE RunInv' /\ [Next]_vars
  <2>1. ClientCall(Lead)
    BY <1>5 DEF CancelRun, ClientCall, QuietCall
  <2>2. ToAdd' /\ TeamTypeOK'
    BY <1>5 DEF CancelRun, ToAdd, TeamTypeOK, loopVars, Over
  <2> QED
    BY <1>5, <2>1, <2>2, AloneStep DEF CancelRun, RunInv
<1>6. ASSUME NEW w \in Teammate, AgentTool(w) PROVE RunInv' /\ [Next]_vars
  <2>1. AgentCall(w) /\ ClientCall(w)
    BY <1>6 DEF AgentTool, ToolCall, AgentCall, ClientCall, QuietCall, AddCall, ClaimCall,
       EndCall, Finish
  <2>2. ToAdd' /\ TeamTypeOK'
    BY <1>6 DEF AgentTool, Live, ToAdd, TeamTypeOK, loopVars, runVars
  <2>3. pc' = pc /\ cur' = cur /\ pc[w] = "work"
    BY <1>6 DEF AgentTool, loopVars
  <2>4. OwnHand(w)'
    BY <2>1, <2>3, OwnKept DEF Hands, OwnHand, InHand, Holding
  <2>5. ASSUME NEW v \in Teammate PROVE OwnHand(v)' /\ CallPlace(v)'
    BY <2>1, <2>3, <2>4, OtherHand DEF CallPlace
  <2> QED
    BY <2>1, <2>2, <2>5, BoardPart DEF RunInv, Hands
<1>7. ASSUME NEW w \in Teammate, LoopStep(w) PROVE RunInv' /\ [Next]_vars
  <2>1. LoopEffect(w) /\ QuietCall(w) /\ ClientCall(w)
    BY <1>7, LoopStepEffect DEF ClientCall
  <2>2. ASSUME NEW v \in Teammate PROVE OwnHand(v)' /\ CallPlace(v)'
    BY <2>1, OtherHand DEF LoopEffect
  <2>3. ToAdd'
    BY <2>1, QuietKnown DEF LoopEffect, ToAdd
  <2> QED
    BY <2>1, <2>2, <2>3, BoardPart DEF RunInv, Hands, LoopEffect
<1>8. CASE RunOver \/ UNCHANGED teamVars
  <2>1. UNCHANGED <<vars, loopVars, runVars>>
    BY <1>8 DEF RunOver, teamVars
  <2>2. ToAdd' /\ TeamTypeOK'
    BY <2>1 DEF vars, board, loopVars, runVars, ToAdd, TeamTypeOK, Known
  <2>3. ClientCall(Lead)
    BY <2>1 DEF ClientCall, QuietCall
  <2> QED
    BY <2>1, <2>2, <2>3, AloneStep DEF RunInv
<1> QED
  BY <1>1, <1>2, <1>3, <1>4, <1>5, <1>6, <1>7, <1>8 DEF TeamNext

(* The invariant holds from the start.                                      *)
LEMMA RunStart == TeamInit => RunInv
<1> SUFFICES ASSUME TeamInit PROVE RunInv
  OBVIOUS
<1>1. TypeOK /\ LockHeldToPublish
  BY DEF TeamInit, Init, TypeOK, LockHeldToPublish, Status
<1>2. TeamTypeOK
  <2>1. Len(InitialSpec) \in Nat
    BY InitialAssumption
  <2>2. 0 \in 0..Len(InitialSpec) /\ 0 \in 0..IdlePolls
    BY <2>1, LimitAssumption
  <2>3. idle \in [Teammate -> 0..IdlePolls]
    BY <2>2 DEF TeamInit
  <2> QED
    BY <2>2, <2>3 DEF TeamInit, TeamTypeOK
<1>3. Hands
  BY TeamAssumption DEF TeamInit, Init, Hands, OwnHand, CallPlace, InHand, Holding
<1>4. ToAdd
  BY InitialAssumption DEF TeamInit, Init, ToAdd, Known
<1> QED
  BY <1>1, <1>2, <1>3, <1>4 DEF RunInv

LEMMA RunInvHolds == TeamSpec => []RunInv
BY RunStart, RunStep, PTL DEF TeamSpec

(* The state of a team run always has its declared type.                    *)
THEOREM TeamTypeCorrect == TeamSpec => []TeamTypeOK
<1>1. RunInv => TeamTypeOK
  BY DEF RunInv
<1> QED
  BY <1>1, RunInvHolds, PTL

(* From the claim to the report a loop works on its own task, and on a task *)
(* no other loop has in hand.                                               *)
THEOREM HandsAreOwned == TeamSpec => []HandOwned
<1>1. RunInv => HandOwned
  <2> SUFFICES ASSUME RunInv PROVE HandOwned
    OBVIOUS
  <2>1. \A w \in Teammate : OwnHand(w)
    BY DEF RunInv, Hands
  <2> QED
    BY <2>1 DEF HandOwned, OwnHand, InHand, Holding
<1> QED
  BY <1>1, RunInvHolds, PTL

(* A team run implements the board's specification.                         *)
THEOREM TeamImplementsBoard == TeamSpec => TeamIsBoardClient
<1>1. TeamInit => Init
  BY DEF TeamInit
<1>2. RunInv /\ [TeamNext]_teamVars => [Next]_vars
  BY RunStep
<1> QED
  BY <1>1, <1>2, RunInvHolds, PTL DEF TeamSpec, TeamIsBoardClient, Spec

(* In every team run no task starts before the entries it depends on are    *)
(* completed, and its end is final.                                         *)
THEOREM TeamWorkFollowsDependencies == TeamSpec => []DepsHonoured /\ TerminalForever
BY TeamImplementsBoard, WorkFollowsDependencies, EndsAreFinal, PTL DEF TeamIsBoardClient

-----------------------------------------------------------------------------
(* The end of the polls.  A loop that has seen no entry in progress knows   *)
(* only that none is its own, or of somebody who runs no loop; together the *)
(* loops know that of all entries.  A pending entry can appear only while   *)
(* some loop has not drained.                                               *)

Calm(w) == pc[w] = "drained" \/ (pc[w] = "decide" /\ ~busy[w])

OthersWork(w) == Calm(w) => \A t \in Task : status[t] = "in_progress" =>
                                             claimed_by[t] \in Teammate \ {w}

SomebodyLooks == (\E t \in Task : status[t] = "pending") => \E w \in Teammate : pc[w] # "drained"

NotYet == phase \in {"populate", "lead"} => ~stop /\ \A w \in Teammate : pc[w] = "poll"

PollsInv == SomebodyLooks /\ NotYet /\ \A w \in Teammate : OthersWork(w)

(* Only a claim starts a task, and for the one who claims it.               *)
LEMMA ClaimsStart ==
  ASSUME TypeOK, NEW a \in Actor, ClientCall(a), NEW t \in Task, status'[t] = "in_progress"
  PROVE  \/ status[t] = "in_progress" /\ claimed_by'[t] = claimed_by[t]
         \/ claimed_by'[t] = a
<1> USE DEF TypeOK
<1>1. CASE AddCall(a)
  BY <1>1 DEF AddCall, Add, Put, NewEntry
<1>2. CASE ClaimCall(a)
  BY <1>2 DEF ClaimCall, Claim, ClaimBlocked, board
<1>3. CASE EndCall(a)
  BY <1>3 DEF EndCall, UpdateStatus, Finish
<1>4. CASE ReleaseCall(a)
  BY <1>4 DEF ReleaseCall, Release
<1>5. CASE LetGo(a) \/ UNCHANGED vars
  BY <1>5 DEF LetGo, vars, board
<1> QED
  BY <1>1, <1>2, <1>3, <1>4, <1>5 DEF ClientCall, QuietCall

(* What a loop has seen when it calms down.                                 *)
LEMMA CalmStep ==
  ASSUME RunInv, NEW w \in Teammate, LoopStep(w)
  PROVE  /\ \A v \in Teammate \ {w} : busy'[v] = busy[v]
         /\ Calm(w)' => /\ UNCHANGED vars
                        /\ Calm(w) \/ \A t \in Task : status[t] # "in_progress"
                        /\ pc'[w] = "drained" => \A t \in Task : status[t] # "pending"
<1> TypeOK /\ TeamTypeOK /\ CallPlace(w)
  BY DEF RunInv, Hands
<1> DEFINE Seen == /\ \A v \in Teammate \ {w} : busy'[v] = busy[v]
                   /\ Calm(w)' => /\ UNCHANGED vars
                                  /\ Calm(w) \/ \A t \in Task : status[t] # "in_progress"
                                  /\ pc'[w] = "drained" => \A t \in Task : status[t] # "pending"
<1>1. CASE LookInProgress(w)
  BY <1>1 DEF LookInProgress, Goto, Calm, TeamTypeOK
<1>2. CASE LookPending(w)
  <2>1. UNCHANGED <<vars, busy>>
    BY <1>2 DEF LookPending
  <2>2. \/ pc' = [pc EXCEPT ![w] = "poll"]
        \/ pc' = [pc EXCEPT ![w] = "drained"] /\ ~busy[w] /\ pc[w] = "decide"
           /\ ~\E t \in Task : status[t] = "pending"
    BY <1>2 DEF LookPending, Goto
  <2> QED
    BY <2>1, <2>2 DEF Calm, TeamTypeOK
<1>3. CASE Emitted(w)
  <2>1. /\ busy' = busy
        /\ pc[w] \in {"blocked", "claiming", "work", "completing", "released", "failing"}
    BY <1>3 DEF Emitted, Publish, CallPlace
  <2>2. pc'[w] \in {"look", "limit", "work", "cancelled", "aborted", "poll"}
    BY <1>3, <2>1 DEF Emitted, Goto, TeamTypeOK
  <2> QED
    BY <2>1, <2>2 DEF Calm
<1>4. CASE PollClaims(w) \/ PollBlocked(w) \/ PollEmpty(w) \/ Acquire(w) \/ AgentEnds(w)
           \/ Complete(w) \/ Fail(w) \/ Cancelled(w) \/ ReleaseOwn(w)
  <2>1. busy' = busy
    BY <1>4 DEF PollClaims, PollBlocked, PollEmpty, Acquire, AgentEnds, Complete, Fail, Cancelled,
                ReleaseOwn
  <2>2. pc'[w] \notin {"drained", "decide"}
    BY <1>4 DEF PollClaims, PollBlocked, PollEmpty, Acquire, AgentEnds, Complete, Fail, Cancelled,
                ReleaseOwn, Goto, TeamTypeOK
  <2> QED
    BY <2>1, <2>2 DEF Calm
<1> QED
  BY <1>1, <1>2, <1>3, <1>4 DEF LoopStep

(* A step of one actor, whose loop is not calm afterwards, disturbs none.   *)
LEMMA OthersKeepWorking ==
  ASSUME RunInv, PollsInv, NEW a \in Actor, ClientCall(a), NEW w \in Teammate, w # a,
         a \in Teammate \/ ~Calm(w), pc'[w] = pc[w], busy'[w] = busy[w]
  PROVE  OthersWork(w)'
<1>1. Calm(w)' <=> Calm(w)
  BY DEF Calm
<1>2. ASSUME NEW t \in Task, status'[t] = "in_progress", Calm(w)
      PROVE  claimed_by'[t] \in Teammate \ {w}
  BY <1>2, ClaimsStart DEF RunInv, PollsInv, OthersWork
<1> QED
  BY <1>1, <1>2 DEF OthersWork

LEMMA PollsStep == RunInv /\ PollsInv /\ [TeamNext]_teamVars => PollsInv'
<1> SUFFICES ASSUME RunInv, PollsInv, [TeamNext]_teamVars PROVE PollsInv'
  OBVIOUS
<1> Lead \in Actor \ Teammate /\ Teammate \subseteq Actor /\ Teammate # {}
  BY TeamAssumption
<1>1. ASSUME ClientCall(Lead), UNCHANGED <<loopVars, stop>>, phase \in {"populate", "lead"}
      PROVE  PollsInv'
  <2>1. \A w \in Teammate : pc[w] = "poll" /\ pc'[w] = "poll" /\ ~Calm(w) /\ busy'[w] = busy[w]
    BY <1>1 DEF PollsInv, NotYet, loopVars, Calm
  <2>2. \A w \in Teammate : OthersWork(w)'
    BY <1>1, <2>1, OthersKeepWorking
  <2>3. ~stop'
    BY <1>1 DEF PollsInv, NotYet
  <2>4. SomebodyLooks' /\ NotYet'
    BY <2>1, <2>3 DEF SomebodyLooks, NotYet
  <2> QED
    BY <2>2, <2>4 DEF PollsInv
<1>2. CASE Populate \/ LeadTool \/ LeadReturns
  <2>1. UNCHANGED <<loopVars, stop>> /\ phase \in {"populate", "lead"}
    BY <1>2 DEF Populate, LeadTool, LeadReturns, runVars
  <2>2. ClientCall(Lead)
    <3>1. CASE Populate
      <4> DEFINE spec == InitialSpec[made + 1]
                 entry == [status |-> "pending", claimed_by |-> NoOne, labels |-> {},
                           assigned_to |-> spec.assigned_to, depends_on |-> spec.depends_on]
      <4>1. CASE made < Len(InitialSpec) /\ Add(Lead, spec.task, entry)
        <5>1. made \in Nat /\ Len(InitialSpec) \in Nat
              /\ DOMAIN InitialSpec = 1..Len(InitialSpec) /\ phase = "populate" /\ ToAdd
          BY <3>1, InitialAssumption DEF RunInv, TeamTypeOK, Populate
        <5>2. spec.task \in Task \ (Known \cup BogusId)
          BY <4>1, <5>1, InitialAssumption DEF ToAdd
        <5>3. entry \in NewEntry
          BY <4>1, <5>1, InitialAssumption, BogusAssumption DEF NewEntry, Entry, Status
        <5> QED
          BY <4>1, <5>2, <5>3 DEF ClientCall, AddCall
      <4>2. CASE Publish(Lead) \/ UNCHANGED vars
        BY <4>2 DEF ClientCall, QuietCall, Publish
      <4> QED
        BY <3>1, <4>1, <4>2 DEF Populate
    <3>2. CASE LeadTool
      BY <3>2 DEF LeadTool, ToolCall, Publish, ClientCall, QuietCall, AddCall, ClaimCall,
                  EndCall, Finish
    <3>3. CASE LeadReturns
      BY <3>3 DEF LeadReturns, ClientCall, QuietCall
    <3> QED
      BY <1>2, <3>1, <3>2, <3>3
  <2> QED
    BY <1>1, <2>1, <2>2
<1>3. CASE TeamOver \/ CancelRun \/ RunOver \/ UNCHANGED teamVars
  <2>1. UNCHANGED <<loopVars, status, claimed_by>>
    BY <1>3 DEF TeamOver, CancelRun, RunOver, LetGo, teamVars, vars, board
  <2>2. phase' \in {"populate", "lead"} => phase' = phase /\ stop' = stop
    BY <1>3 DEF TeamOver, CancelRun, RunOver, teamVars, runVars
  <2> QED
    BY <2>1, <2>2 DEF PollsInv, SomebodyLooks, NotYet, OthersWork, Calm, loopVars
<1>4. ASSUME NEW w \in Teammate, AgentTool(w) PROVE PollsInv'
  <2>1. /\ pc' = pc /\ busy' = busy /\ pc[w] = "work" /\ UNCHANGED <<phase, stop>>
    BY <1>4 DEF AgentTool, loopVars, runVars
  <2>2. ClientCall(w)
    BY <1>4 DEF AgentTool, ToolCall, ClientCall, QuietCall, AddCall, ClaimCall, EndCall, Finish
  <2>3. \A v \in Teammate : OthersWork(v)'
    <3>1. OthersWork(w)'
      BY <2>1 DEF OthersWork, Calm
    <3> QED
      BY <2>1, <2>2, <3>1, OthersKeepWorking
  <2> QED
    BY <2>1, <2>3 DEF PollsInv, SomebodyLooks, NotYet
<1>5. ASSUME NEW w \in Teammate, LoopStep(w) PROVE PollsInv'
  <2>1. LoopEffect(w) /\ ClientCall(w)
    BY <1>5, LoopStepEffect DEF ClientCall
  <2>2. /\ \A v \in Teammate \ {w} : pc'[v] = pc[v] /\ busy'[v] = busy[v]
        /\ phase' = phase
    BY <1>5, <2>1, CalmStep DEF LoopEffect
  <2>3. OthersWork(w)'
    <3>1. SUFFICES ASSUME Calm(w)' PROVE OthersWork(w)'
      BY DEF OthersWork
    <3>2. UNCHANGED vars /\ (Calm(w) \/ \A t \in Task : status[t] # "in_progress")
      BY <1>5, <3>1, CalmStep
    <3> QED
      BY <3>2 DEF PollsInv, OthersWork, vars, board
  <2>4. \A v \in Teammate : OthersWork(v)'
    BY <2>1, <2>2, <2>3, OthersKeepWorking
  <2>5. SomebodyLooks'
    <3>1. CASE pc'[w] # "drained"
      BY <3>1 DEF SomebodyLooks
    <3>2. CASE pc'[w] = "drained"
      <4>1. UNCHANGED vars /\ \A t \in Task : status[t] # "pending"
        BY <1>5, <3>2, CalmStep DEF Calm
      <4> QED
        BY <4>1 DEF SomebodyLooks, vars, board
    <3> QED
      BY <3>1, <3>2
  <2>6. phase \notin {"populate", "lead"}
    <3>1. CASE Emitted(w)
      BY <3>1 DEF RunInv, Hands, CallPlace, Emitted, Publish, PollsInv, NotYet
    <3>2. CASE ~Emitted(w)
      BY <1>5, <3>2 DEF PollsInv, NotYet, LoopStep, PollClaims, PollBlocked, PollEmpty,
         LookInProgress, LookPending, Acquire, AgentEnds, Complete, Fail, Cancelled,
         ReleaseOwn, Live
    <3> QED
      BY <3>1, <3>2
  <2> QED
    BY <2>2, <2>4, <2>5, <2>6 DEF PollsInv, NotYet
<1> QED
  BY <1>2, <1>3, <1>4, <1>5 DEF TeamNext

(* When every loop has drained the board, nothing on it is pending or in    *)
(* progress: the two unlocked listings of _run_teammate_drain_loop are      *)
(* enough, for any number of teammates and tasks and whatever their agents  *)
(* and the lead have left claimed.                                          *)
THEOREM DrainedBoardsAreSettled == TeamSpec => []DrainedMeansSettled
<1>1. TeamInit => PollsInv
  BY TeamAssumption DEF TeamInit, Init, PollsInv, SomebodyLooks, NotYet, OthersWork, Calm
<1>2. RunInv /\ PollsInv /\ [TeamNext]_teamVars => PollsInv'
  BY PollsStep
<1>3. PollsInv => DrainedMeansSettled
  <2> SUFFICES ASSUME PollsInv, \A w \in Teammate : pc[w] = "drained", NEW t \in Task
               PROVE  status[t] \notin {"pending", "in_progress"}
    BY DEF DrainedMeansSettled
  <2>1. status[t] # "pending"
    BY DEF PollsInv, SomebodyLooks
  <2>2. ASSUME status[t] = "in_progress" PROVE FALSE
    <3>1. \A w \in Teammate : claimed_by[t] \in Teammate \ {w}
      BY <2>2 DEF PollsInv, OthersWork, Calm
    <3> QED
      BY <3>1, TeamAssumption
  <2> QED
    BY <2>1, <2>2
<1> QED
  BY <1>1, <1>2, <1>3, RunInvHolds, PTL DEF TeamSpec

=============================================================================
