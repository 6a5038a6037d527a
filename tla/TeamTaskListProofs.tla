------------------------- MODULE TeamTaskListProofs -------------------------
(***************************************************************************)
(* What the board guarantees its callers, for any number of actors, tasks  *)
(* and labels.                                                             *)
(***************************************************************************)
EXTENDS CycleSearch, SequenceTheorems, TLAPS

(* Every operation keeps the board well formed.                             *)
LEMMA TypeStep == TypeOK /\ [Next]_vars => TypeOK'
<1> SUFFICES ASSUME TypeOK, [Next]_vars PROVE TypeOK'
  OBVIOUS
<1>1. ASSUME NEW a \in Actor, NEW t \in Task \ (Known \cup BogusId), NEW e \in NewEntry,
             Add(a, t, e)
      PROVE TypeOK'
  BY <1>1 DEF TypeOK, Status, Snapshot, Add, Put, Announce, NewEntry, Entry
<1>2. ASSUME NEW a \in Actor, NEW t \in Task, NEW ls \in SUBSET Label, NEW byId \in BOOLEAN,
             Claim(a, t, ls, byId)
      PROVE TypeOK'
  BY <1>2 DEF TypeOK, Status, Snapshot, Claim, Announce
<1>3. ASSUME NEW a \in Actor, NEW t \in Task, NEW ls \in SUBSET Label, NEW byId \in BOOLEAN,
             ClaimBlocked(a, t, ls, byId)
      PROVE TypeOK'
  <2>1. status[t] = "pending"
    BY <1>3 DEF ClaimBlocked, Pick, OldestClaimable, Claimable
  <2> QED
    BY <1>3, <2>1 DEF TypeOK, Status, Snapshot, ClaimBlocked, Announce, board
<1>4. ASSUME NEW a \in Actor, NEW t \in Task, NEW s \in Finish, UpdateStatus(a, t, s)
      PROVE TypeOK'
  <2>1. s \in Status
    BY DEF Finish, Status
  <2> QED
    BY <1>4, <2>1 DEF TypeOK, Status, Snapshot, UpdateStatus, Announce
<1>5. ASSUME NEW a \in Actor, NEW t \in Task, Release(a, t) PROVE TypeOK'
  BY <1>5 DEF TypeOK, Status, Snapshot, Release, Announce
<1>6. ASSUME NEW a \in Actor, Publish(a) PROVE TypeOK'
  BY <1>6 DEF TypeOK, Publish, LetGo, board
<1>7. CASE UNCHANGED vars
  BY <1>7 DEF TypeOK, vars, board
<1> QED
  BY <1>1, <1>2, <1>3, <1>4, <1>5, <1>6, <1>7 DEF Next

(* The state of the board always has its declared type.                     *)
THEOREM TypeCorrect == Spec => []TypeOK
<1>1. Init => TypeOK
  BY DEF Init, TypeOK, Status
<1> QED
  BY <1>1, TypeStep, PTL DEF Spec

-----------------------------------------------------------------------------
(* Ownership.  With the type invariant, ClaimConsistent is inductive: the   *)
(* claimer check of update_status is what keeps a pending task, which has   *)
(* no owner, from being completed or failed.                                *)

LEMMA ClaimStep == TypeOK /\ ClaimConsistent /\ [Next]_vars => ClaimConsistent'
<1> SUFFICES ASSUME TypeOK, ClaimConsistent, [Next]_vars PROVE ClaimConsistent'
  OBVIOUS
<1>1. ASSUME NEW a \in Actor, NEW t \in Task \ (Known \cup BogusId), NEW e \in NewEntry,
             Add(a, t, e)
      PROVE ClaimConsistent'
  BY <1>1 DEF TypeOK, ClaimConsistent, Add, Put, NewEntry, Entry
<1>2. ASSUME NEW a \in Actor, NEW t \in Task, NEW ls \in SUBSET Label, NEW byId \in BOOLEAN,
             Claim(a, t, ls, byId)
      PROVE ClaimConsistent'
  BY <1>2 DEF TypeOK, ClaimConsistent, Claim
<1>3. ASSUME NEW a \in Actor, NEW t \in Task, NEW ls \in SUBSET Label, NEW byId \in BOOLEAN,
             ClaimBlocked(a, t, ls, byId)
      PROVE ClaimConsistent'
  BY <1>3 DEF ClaimConsistent, ClaimBlocked, board
<1>4. ASSUME NEW a \in Actor, NEW t \in Task, NEW s \in Finish, UpdateStatus(a, t, s)
      PROVE ClaimConsistent'
  BY <1>4 DEF TypeOK, ClaimConsistent, UpdateStatus, Finish
<1>5. ASSUME NEW a \in Actor, NEW t \in Task, Release(a, t) PROVE ClaimConsistent'
  BY <1>5 DEF TypeOK, ClaimConsistent, Release
<1>6. ASSUME NEW a \in Actor, Publish(a) PROVE ClaimConsistent'
  BY <1>6 DEF ClaimConsistent, Publish, LetGo, board
<1>7. CASE UNCHANGED vars
  BY <1>7 DEF ClaimConsistent, vars, board
<1> QED
  BY <1>1, <1>2, <1>3, <1>4, <1>5, <1>6, <1>7 DEF Next

(* Status and owner of an entry always fit each other.                      *)
THEOREM OwnerFitsStatus == Spec => []ClaimConsistent
<1>1. Init => TypeOK /\ ClaimConsistent
  BY DEF Init, TypeOK, ClaimConsistent, Status
<1> QED
  BY <1>1, TypeStep, ClaimStep, PTL DEF Spec

-----------------------------------------------------------------------------
(* Completion events.  An entry has an event from the moment it is added,   *)
(* and the only way to a terminal status is the method that sets it.        *)

LEMMA EventsStep ==
  TypeOK /\ ClaimConsistent /\ CompletionEvents /\ [Next]_vars => CompletionEvents'
<1> SUFFICES ASSUME TypeOK, ClaimConsistent, CompletionEvents, [Next]_vars
             PROVE  CompletionEvents'
  OBVIOUS
<1> USE DEF CompletionEvents, Known, Terminal
<1>1. ASSUME NEW a \in Actor, NEW t \in Task \ (Known \cup BogusId), NEW e \in NewEntry,
             Add(a, t, e)
      PROVE CompletionEvents'
  BY <1>1 DEF TypeOK, Add, Put, NewEntry
<1>2. ASSUME NEW a \in Actor, NEW t \in Task, NEW ls \in SUBSET Label, NEW byId \in BOOLEAN,
             Claim(a, t, ls, byId)
      PROVE CompletionEvents'
  BY <1>2 DEF TypeOK, Claim, Pick, OldestClaimable, Claimable
<1>3. ASSUME NEW a \in Actor, NEW t \in Task, NEW ls \in SUBSET Label, NEW byId \in BOOLEAN,
             ClaimBlocked(a, t, ls, byId)
      PROVE CompletionEvents'
  BY <1>3 DEF ClaimBlocked, board
<1>4. ASSUME NEW a \in Actor, NEW t \in Task, NEW s \in Finish, UpdateStatus(a, t, s)
      PROVE CompletionEvents'
  BY <1>4 DEF TypeOK, UpdateStatus, Finish
<1>5. ASSUME NEW a \in Actor, NEW t \in Task, Release(a, t) PROVE CompletionEvents'
  BY <1>5 DEF TypeOK, Release
<1>6. ASSUME NEW a \in Actor, Publish(a) PROVE CompletionEvents'
  BY <1>6 DEF Publish, LetGo, board
<1>7. CASE UNCHANGED vars
  BY <1>7 DEF vars, board
<1> HIDE DEF CompletionEvents
<1> QED
  BY <1>1, <1>2, <1>3, <1>4, <1>5, <1>6, <1>7 DEF Next

(* The completion event of an entry is set exactly when it is terminal.     *)
THEOREM EventsTellTheEnd == Spec => []CompletionEvents
<1>1. Init => TypeOK /\ ClaimConsistent /\ CompletionEvents
  BY DEF Init, TypeOK, ClaimConsistent, CompletionEvents, Status, Known, Terminal
<1> QED
  BY <1>1, TypeStep, ClaimStep, EventsStep, PTL DEF Spec

-----------------------------------------------------------------------------
(* Dependencies.  DepsHonoured speaks of known dependencies only, so adding *)
(* an entry could break it for a task that is already running.  It cannot,  *)
(* because identifiers are fresh: an entry depends on entries older than    *)
(* itself or on names no entry ever gets.                                   *)

DepsOlder ==
  /\ BogusId \cap Known = {}
  /\ \A t \in Known : depends_on[t] \subseteq Known \cup BogusId

LEMMA OlderStep == TypeOK /\ DepsOlder /\ [Next]_vars => DepsOlder'
<1> SUFFICES ASSUME TypeOK, DepsOlder, [Next]_vars PROVE DepsOlder'
  OBVIOUS
<1> USE DEF DepsOlder, Known
<1>1. ASSUME NEW a \in Actor, NEW t \in Task \ (Known \cup BogusId), NEW e \in NewEntry,
             Add(a, t, e)
      PROVE DepsOlder'
  <2>1. Known' = Known \cup {t}
    BY <1>1 DEF TypeOK, Add, Put, NewEntry
  <2>2. \A u \in Known' : depends_on'[u] = IF u = t THEN e.depends_on ELSE depends_on[u]
    BY <1>1 DEF TypeOK, Add, Put
  <2>3. e.depends_on \subseteq Known \cup BogusId
    BY DEF NewEntry
  <2> QED
    BY <2>1, <2>2, <2>3
<1>2. ASSUME NEW a \in Actor, NEW t \in Task, NEW ls \in SUBSET Label, NEW byId \in BOOLEAN,
             Claim(a, t, ls, byId)
      PROVE DepsOlder'
  BY <1>2 DEF TypeOK, Claim, Pick, OldestClaimable, Claimable
<1>3. ASSUME NEW a \in Actor, NEW t \in Task, NEW ls \in SUBSET Label, NEW byId \in BOOLEAN,
             ClaimBlocked(a, t, ls, byId)
      PROVE DepsOlder'
  BY <1>3 DEF ClaimBlocked, board
<1>4. ASSUME NEW a \in Actor, NEW t \in Task, NEW s \in Finish, UpdateStatus(a, t, s)
      PROVE DepsOlder'
  BY <1>4 DEF TypeOK, UpdateStatus, Finish
<1>5. ASSUME NEW a \in Actor, NEW t \in Task, Release(a, t) PROVE DepsOlder'
  BY <1>5 DEF TypeOK, Release
<1>6. ASSUME NEW a \in Actor, Publish(a) PROVE DepsOlder'
  BY <1>6 DEF Publish, LetGo, board
<1>7. CASE UNCHANGED vars
  BY <1>7 DEF vars, board
<1> HIDE DEF DepsOlder
<1> QED
  BY <1>1, <1>2, <1>3, <1>4, <1>5, <1>6, <1>7 DEF Next

LEMMA DepsStep ==
  TypeOK /\ ClaimConsistent /\ DepsOlder /\ DepsHonoured /\ [Next]_vars => DepsHonoured'
<1> SUFFICES ASSUME TypeOK, ClaimConsistent, DepsOlder, DepsHonoured, [Next]_vars
             PROVE  DepsHonoured'
  OBVIOUS
<1> USE DEF DepsHonoured, Known
<1>1. ASSUME NEW a \in Actor, NEW t \in Task \ (Known \cup BogusId), NEW e \in NewEntry,
             Add(a, t, e)
      PROVE DepsHonoured'
  \* no running task depends on the new identifier
  <2>1. \A u \in Task : status[u] # "absent" => t \notin depends_on[u]
    BY DEF DepsOlder
  <2>2. \A u \in Task : u # t => /\ status'[u] = status[u]
                                 /\ depends_on'[u] = depends_on[u]
    BY <1>1 DEF TypeOK, Add, Put
  <2>3. status'[t] = "pending"
    BY <1>1 DEF TypeOK, Add, Put, NewEntry
  <2> QED
    BY <2>1, <2>2, <2>3 DEF TypeOK
<1>2. ASSUME NEW a \in Actor, NEW t \in Task, NEW ls \in SUBSET Label, NEW byId \in BOOLEAN,
             Claim(a, t, ls, byId)
      PROVE DepsHonoured'
  <2>1. status[t] = "pending"
    BY <1>2 DEF Claim, Pick, OldestClaimable, Claimable
  <2> QED
    BY <1>2, <2>1 DEF TypeOK, Claim, DepsSatisfied
<1>3. ASSUME NEW a \in Actor, NEW t \in Task, NEW ls \in SUBSET Label, NEW byId \in BOOLEAN,
             ClaimBlocked(a, t, ls, byId)
      PROVE DepsHonoured'
  BY <1>3 DEF ClaimBlocked, board
<1>4. ASSUME NEW a \in Actor, NEW t \in Task, NEW s \in Finish, UpdateStatus(a, t, s)
      PROVE DepsHonoured'
  \* the task was running or already finished the same way
  <2>1. status[t] = "in_progress" \/ status[t] = s
    BY <1>4 DEF TypeOK, Status, ClaimConsistent, UpdateStatus, Finish, ValidTransition
  <2> QED
    BY <1>4, <2>1 DEF TypeOK, UpdateStatus, Finish
<1>5. ASSUME NEW a \in Actor, NEW t \in Task, Release(a, t) PROVE DepsHonoured'
  BY <1>5 DEF TypeOK, Release
<1>6. ASSUME NEW a \in Actor, Publish(a) PROVE DepsHonoured'
  BY <1>6 DEF Publish, LetGo, board
<1>7. CASE UNCHANGED vars
  BY <1>7 DEF vars, board
<1> QED
  BY <1>1, <1>2, <1>3, <1>4, <1>5, <1>6, <1>7 DEF Next

(* No task is ever started before the entries it depends on are completed.  *)
THEOREM WorkFollowsDependencies == Spec => []DepsHonoured
<1>1. Init => TypeOK /\ ClaimConsistent /\ DepsOlder /\ DepsHonoured
  BY DEF Init, TypeOK, ClaimConsistent, DepsOlder, DepsHonoured, Status, Known
<1> QED
  BY <1>1, TypeStep, ClaimStep, OlderStep, DepsStep, PTL DEF Spec

-----------------------------------------------------------------------------
(* Ends are final.                                                          *)

LEMMA EndIsFinal ==
  ASSUME TypeOK, [Next]_vars, NEW u \in Task, status[u] \in Terminal
  PROVE  status'[u] = status[u] /\ claimed_by'[u] = claimed_by[u]
<1> USE DEF Terminal
<1>1. ASSUME NEW a \in Actor, NEW t \in Task \ (Known \cup BogusId), NEW e \in NewEntry,
             Add(a, t, e)
      PROVE status'[u] = status[u] /\ claimed_by'[u] = claimed_by[u]
  BY <1>1 DEF TypeOK, Add, Put, Known
<1>2. ASSUME NEW a \in Actor, NEW t \in Task, NEW ls \in SUBSET Label, NEW byId \in BOOLEAN,
             Claim(a, t, ls, byId)
      PROVE status'[u] = status[u] /\ claimed_by'[u] = claimed_by[u]
  BY <1>2 DEF TypeOK, Claim, Pick, OldestClaimable, Claimable
<1>3. ASSUME NEW a \in Actor, NEW t \in Task, NEW ls \in SUBSET Label, NEW byId \in BOOLEAN,
             ClaimBlocked(a, t, ls, byId)
      PROVE status'[u] = status[u] /\ claimed_by'[u] = claimed_by[u]
  BY <1>3 DEF ClaimBlocked, board
<1>4. ASSUME NEW a \in Actor, NEW t \in Task, NEW s \in Finish, UpdateStatus(a, t, s)
      PROVE status'[u] = status[u] /\ claimed_by'[u] = claimed_by[u]
  BY <1>4 DEF TypeOK, UpdateStatus, ValidTransition
<1>5. ASSUME NEW a \in Actor, NEW t \in Task, Release(a, t)
      PROVE status'[u] = status[u] /\ claimed_by'[u] = claimed_by[u]
  BY <1>5 DEF TypeOK, Release
<1>6. ASSUME NEW a \in Actor, Publish(a)
      PROVE status'[u] = status[u] /\ claimed_by'[u] = claimed_by[u]
  BY <1>6 DEF Publish, LetGo, board
<1>7. CASE UNCHANGED vars
  BY <1>7 DEF vars, board
<1> QED
  BY <1>1, <1>2, <1>3, <1>4, <1>5, <1>6, <1>7 DEF Next

(* Nobody changes the status or the owner of a completed, failed or         *)
(* cancelled task.                                                          *)
THEOREM EndsAreFinal == Spec => TerminalForever
<1>1. TypeOK /\ [Next]_vars
        => [\A t \in Task : status[t] \in Terminal =>
              status'[t] = status[t] /\ claimed_by'[t] = claimed_by[t]]_vars
  BY EndIsFinal
<1> QED
  BY <1>1, TypeCorrect, PTL DEF Spec, TerminalForever

-----------------------------------------------------------------------------
(* The board lock.                                                          *)

(* The lock discipline is kept by every client.                             *)
LEMMA LockStep ==
  ASSUME TypeOK, LockHeldToPublish, [Next]_vars
  PROVE  LockHeldToPublish'
<1> USE ActorAssumption, NoEventAssumption DEF LockHeldToPublish, TypeOK
<1>1. ASSUME NEW a \in Actor, NEW t \in Task, NEW e \in NewEntry, Add(a, t, e)
      PROVE LockHeldToPublish'
  BY <1>1 DEF Add, Free
<1>2. ASSUME NEW a \in Actor, NEW t \in Task, NEW ls, NEW byId, Claim(a, t, ls, byId)
      PROVE LockHeldToPublish'
  BY <1>2 DEF Claim, Free
<1>3. ASSUME NEW a \in Actor, NEW t \in Task, NEW ls, NEW byId, ClaimBlocked(a, t, ls, byId)
      PROVE LockHeldToPublish'
  <2>1. status[t] = "pending" /\ claimed_by[t] \in Actor \cup {NoOne}
    BY <1>3 DEF ClaimBlocked, Pick, OldestClaimable, Claimable
  <2>2. [task |-> t, status |-> status[t], claimed_by |-> claimed_by[t]] # NoEvent
    BY <2>1 DEF Snapshot, Status
  <2> QED
    BY <1>3, <2>2 DEF ClaimBlocked, Announce
<1>4. ASSUME NEW a \in Actor, NEW t \in Task, NEW s \in Finish, UpdateStatus(a, t, s)
      PROVE LockHeldToPublish'
  BY <1>4 DEF UpdateStatus, Free
<1>5. ASSUME NEW a \in Actor, NEW t \in Task, Release(a, t) PROVE LockHeldToPublish'
  BY <1>5 DEF Release, Free
<1>6. ASSUME NEW a \in Actor, Publish(a) PROVE LockHeldToPublish'
  BY <1>6 DEF Publish, LetGo
<1>7. CASE UNCHANGED vars
  BY <1>7 DEF vars
<1> QED
  BY <1>1, <1>2, <1>3, <1>4, <1>5, <1>6, <1>7 DEF Next

(* The board lock is held across an await only by an actor whose refusal is *)
(* being published, so that it is never left behind.                        *)
THEOREM LockOnlyToPublish == Spec => []LockHeldToPublish
<1>1. Init => LockHeldToPublish
  BY DEF Init, LockHeldToPublish
<1>2. TypeOK /\ LockHeldToPublish /\ [Next]_vars => LockHeldToPublish'
  BY LockStep
<1> QED
  BY <1>1, <1>2, TypeCorrect, PTL DEF Spec

-----------------------------------------------------------------------------
(* Nobody takes over a started task.                                        *)

LEMMA StartedIsKept ==
  ASSUME TypeOK, [Next]_vars, NEW u \in Task, status[u] = "in_progress"
  PROVE  claimed_by'[u] \in {claimed_by[u], NoOne}
<1> USE DEF TypeOK
<1>1. ASSUME NEW a \in Actor, NEW t \in Task \ (Known \cup BogusId), NEW e \in NewEntry,
             Add(a, t, e)
      PROVE claimed_by'[u] \in {claimed_by[u], NoOne}
  BY <1>1 DEF Add, Put, Known
<1>2. ASSUME NEW a \in Actor, NEW t \in Task, NEW ls, NEW byId, Claim(a, t, ls, byId)
      PROVE claimed_by'[u] \in {claimed_by[u], NoOne}
  BY <1>2 DEF Claim, Pick, OldestClaimable, Claimable
<1>3. ASSUME NEW a \in Actor, NEW t \in Task, NEW ls, NEW byId, ClaimBlocked(a, t, ls, byId)
      PROVE claimed_by'[u] \in {claimed_by[u], NoOne}
  BY <1>3 DEF ClaimBlocked, board
<1>4. ASSUME NEW a \in Actor, NEW t \in Task, NEW s \in Finish, UpdateStatus(a, t, s)
      PROVE claimed_by'[u] \in {claimed_by[u], NoOne}
  BY <1>4 DEF UpdateStatus
<1>5. ASSUME NEW a \in Actor, NEW t \in Task, Release(a, t)
      PROVE claimed_by'[u] \in {claimed_by[u], NoOne}
  BY <1>5 DEF Release
<1>6. ASSUME NEW a \in Actor, Publish(a)
      PROVE claimed_by'[u] \in {claimed_by[u], NoOne}
  BY <1>6 DEF Publish, LetGo, board
<1>7. CASE UNCHANGED vars
  BY <1>7 DEF vars, board
<1> QED
  BY <1>1, <1>2, <1>3, <1>4, <1>5, <1>6, <1>7 DEF Next

(* A started task changes owner only by losing it.                          *)
THEOREM NoTakeover == Spec => NeverStolen
<1>1. TypeOK /\ [Next]_vars
        => [\A t \in Task : status[t] = "in_progress" =>
              claimed_by'[t] \in {claimed_by[t], NoOne}]_vars
  BY StartedIsKept
<1> QED
  BY <1>1, TypeCorrect, PTL DEF Spec, NeverStolen

(* Status, owner and completion event of every entry fit each other.        *)
THEOREM EntriesFit == Spec => []BoardFits
  BY OwnerFitsStatus, EventsTellTheEnd, PTL DEF BoardFits

(* No step reopens an entry or takes it from its owner.                     *)
THEOREM EntriesMoveOn == Spec => BoardMoves
  BY EndsAreFinal, NoTakeover DEF BoardMoves

-----------------------------------------------------------------------------
(* Dependencies.  The whole surface of the store, deletion and save among   *)
(* it; the insertion order does not matter.                                 *)

DependenciesTyped ==
  /\ status \in [Task -> Status \cup {"absent"}]
  /\ depends_on \in [Task -> SUBSET Task]

\* Fewer entries with the dependencies they had.
LEMMA FewerStayAcyclic ==
  ASSUME Acyclic, Known' \subseteq Known, \A t \in Known' : depends_on'[t] = depends_on[t]
  PROVE  Acyclic'
<1>1. SUFFICES ASSUME NEW S \in SUBSET Known', S # {}
               PROVE  \E t \in S : depends_on'[t] \cap S = {}
  BY DEF Acyclic, AcyclicOn
<1>2. PICK t \in S : depends_on[t] \cap S = {}
  BY <1>1 DEF Acyclic, AcyclicOn
<1> QED
  BY <1>1, <1>2

\* The check of add looks at the board as it will be.
LEMMA AddStaysAcyclic ==
  ASSUME DependenciesTyped, NEW a \in Actor, NEW t \in Task, NEW e, e.status # "absent",
         Add(a, t, e)
  PROVE  Acyclic'
<1>1. Known' = Known \cup {t}
  BY DEF Add, Put, Known, DependenciesTyped
<1>2. depends_on' = [depends_on EXCEPT ![t] = e.depends_on]
  BY DEF Add, Put
<1> QED
  BY <1>1, <1>2 DEF Add, ValidateNoCycle, Acyclic, AcyclicOn

LEMMA ApiDependenciesStep == DependenciesTyped /\ [ApiNext]_vars => DependenciesTyped'
<1> SUFFICES ASSUME DependenciesTyped, [ApiNext]_vars PROVE DependenciesTyped'
  OBVIOUS
<1>1. ASSUME NEW t \in Task, NEW e \in Payload, Put(t, e) PROVE DependenciesTyped'
  <2>1. e.status \in Status /\ e.depends_on \in SUBSET Task
    BY PayloadAssumption DEF Entry
  <2> QED
    BY <1>1, <2>1 DEF Put, DependenciesTyped
<1>2. ASSUME NEW t \in Task, Delete(t) PROVE DependenciesTyped'
  BY <1>2 DEF Delete, DependenciesTyped
<1>3. ASSUME NEW a \in Actor, NEW t \in Task, NEW ls \in SUBSET Label, NEW byId \in BOOLEAN,
             Claim(a, t, ls, byId) \/ ClaimBlocked(a, t, ls, byId)
      PROVE  DependenciesTyped'
  BY <1>3 DEF Claim, ClaimBlocked, board, DependenciesTyped, Status
<1>4. ASSUME NEW a \in Actor, NEW t \in Task, NEW s \in Status, UpdateStatus(a, t, s)
      PROVE  DependenciesTyped'
  BY <1>4 DEF UpdateStatus, DependenciesTyped
<1>5. ASSUME NEW a \in Actor, NEW t \in Task, Release(a, t) PROVE DependenciesTyped'
  BY <1>5 DEF Release, DependenciesTyped, Status
<1>6. ASSUME NEW a \in Actor, Publish(a) PROVE DependenciesTyped'
  BY <1>6 DEF Publish, LetGo, board, DependenciesTyped
<1>7. CASE UNCHANGED vars
  BY <1>7 DEF vars, board, DependenciesTyped
<1>8. ASSUME NEW t \in Task, NEW e \in Payload, Save(t, e) PROVE DependenciesTyped'
  BY <1>1, <1>8 DEF Save
<1>9. ASSUME NEW a \in Actor, NEW t \in Task, NEW e \in Payload, Add(a, t, e)
      PROVE  DependenciesTyped'
  BY <1>1, <1>9 DEF Add
<1> QED
  BY <1>2, <1>3, <1>4, <1>5, <1>6, <1>7, <1>8, <1>9 DEF ApiNext, ApiRest

LEMMA ApiDependenciesTyped == ApiSpec => []DependenciesTyped
<1>1. Init => DependenciesTyped
  BY DEF Init, DependenciesTyped
<1> QED
  BY <1>1, ApiDependenciesStep, PTL DEF ApiSpec

\* What claims, reports, releases and publications leave of the entries.
LEMMA OthersKeepDependencies ==
  ASSUME DependenciesTyped, NEW a \in Actor, NEW t \in Task,
         \/ \E ls \in SUBSET Label, byId \in BOOLEAN :
               Claim(a, t, ls, byId) \/ ClaimBlocked(a, t, ls, byId)
         \/ \E s \in Status : UpdateStatus(a, t, s)
         \/ Release(a, t)
  PROVE  Known' \subseteq Known /\ depends_on' = depends_on
<1>1. ASSUME NEW ls \in SUBSET Label, NEW byId \in BOOLEAN,
             Claim(a, t, ls, byId) \/ ClaimBlocked(a, t, ls, byId)
      PROVE  Known' \subseteq Known /\ depends_on' = depends_on
  <2>1. status[t] # "absent"
    BY <1>1 DEF Claim, ClaimBlocked, Pick, OldestClaimable, Claimable
  <2> QED
    BY <1>1, <2>1 DEF Claim, ClaimBlocked, board, Known, DependenciesTyped
<1>2. ASSUME NEW s \in Status, UpdateStatus(a, t, s)
      PROVE  Known' \subseteq Known /\ depends_on' = depends_on
  BY <1>2 DEF UpdateStatus, Known, DependenciesTyped
<1>3. ASSUME Release(a, t) PROVE Known' \subseteq Known /\ depends_on' = depends_on
  BY <1>3 DEF Release, Known, DependenciesTyped
<1> QED
  BY <1>1, <1>2, <1>3

\* Nothing but save puts a dependency cycle on the board: no add, of a new or a
\* known identifier and with forward references or not, and no other call.
THEOREM SaveAloneMakesCycles == ApiSpec => CyclesOnlyFromSave
<1>1. DependenciesTyped /\ [ApiNext]_vars =>
        [Acyclic => Acyclic' \/ \E t \in Task, e \in Payload : Save(t, e)]_vars
  <2> SUFFICES ASSUME DependenciesTyped, ApiNext, Acyclic,
                      ~\E t \in Task, e \in Payload : Save(t, e)
               PROVE  Acyclic'
    OBVIOUS
  <2>1. ASSUME NEW t \in Task, Delete(t) PROVE Acyclic'
    <3>1. Known' \subseteq Known /\ \A u \in Known' : depends_on'[u] = depends_on[u]
      BY <2>1 DEF Delete, Known, DependenciesTyped
    <3> QED
      BY <3>1, FewerStayAcyclic
  <2>2. ASSUME NEW a \in Actor, NEW t \in Task, NEW e \in Payload, Add(a, t, e) PROVE Acyclic'
    <3>1. e.status # "absent"
      BY PayloadAssumption DEF Entry, Status
    <3> QED
      BY <2>2, <3>1, AddStaysAcyclic
  <2>3. ASSUME NEW a \in Actor, Publish(a) PROVE Acyclic'
    <3>1. Known' = Known /\ depends_on' = depends_on
      BY <2>3 DEF Publish, LetGo, board, Known
    <3> QED
      BY <3>1, FewerStayAcyclic
  <2> QED
    BY <2>1, <2>2, <2>3, OthersKeepDependencies, FewerStayAcyclic DEF ApiNext, ApiRest
<1> QED
  BY <1>1, ApiDependenciesTyped, PTL DEF ApiSpec, CyclesOnlyFromSave

\* The callers in the repository never save: the dependencies of a team's board
\* have no cycle, so that no task waits for itself.
THEOREM TeamBoardsAreAcyclic == Spec => []Acyclic
<1>1. Init => Acyclic
  BY DEF Init, Acyclic, AcyclicOn, Known
<1>2. TypeOK /\ Acyclic /\ [Next]_vars => Acyclic'
  <2> SUFFICES ASSUME TypeOK, Acyclic, [Next]_vars PROVE Acyclic'
    OBVIOUS
  <2>0. DependenciesTyped
    BY DEF TypeOK, DependenciesTyped
  <2>1. ASSUME NEW a \in Actor, NEW t \in Task, NEW e \in NewEntry, Add(a, t, e) PROVE Acyclic'
    <3>1. e.status # "absent"
      BY DEF NewEntry
    <3> QED
      BY <2>0, <2>1, <3>1, AddStaysAcyclic
  <2>2. ASSUME NEW a \in Actor, Publish(a) PROVE Acyclic'
    <3>1. Known' = Known /\ depends_on' = depends_on
      BY <2>2 DEF Publish, LetGo, board, Known
    <3> QED
      BY <3>1, FewerStayAcyclic
  <2>3. CASE UNCHANGED vars
    <3>1. Known' = Known /\ depends_on' = depends_on
      BY <2>3 DEF vars, board, Known
    <3> QED
      BY <3>1, FewerStayAcyclic
  <2>4. Finish \subseteq Status
    BY DEF Finish, Status
  <2> QED
    BY <2>0, <2>1, <2>2, <2>3, <2>4, OthersKeepDependencies, FewerStayAcyclic DEF Next
<1> QED
  BY <1>1, <1>2, TypeCorrect, PTL DEF Spec

-----------------------------------------------------------------------------
(* The search of add, step by step.                                         *)
(*                                                                          *)
(* The calls of dfs that go on are the grey entries, each with an edge to   *)
(* the next, so that an edge to a grey entry closes a cycle.  The black     *)
(* entries depend on black ones only and have no cycle among them: a call   *)
(* that returns has followed all its edges, and none to itself.  When the   *)
(* loop over the roots is through, every entry is black.                    *)

Grey  == {d \in DOMAIN color : color[d] = "grey"}
Black == {d \in DOMAIN color : color[d] = "black"}

GreyIsOnPath ==
  /\ \A i \in 1 .. Len(path) : path[i].task \in Grey
  /\ \A i, j \in 1 .. Len(path) : path[i].task = path[j].task => i = j
  /\ \A g \in Grey : \E i \in 1 .. Len(path) : path[i].task = g

PathFollowsEdges ==
  /\ \A i \in 1 .. Len(path) : path[i].left \subseteq Edges[path[i].task]
  /\ \A i \in 1 .. Len(path) - 1 : path[i + 1].task \in Edges[path[i].task]

\* Where an edge that has been followed leads: to a black entry, or on.
FollowedEdges ==
  \A i \in 1 .. Len(path) : \A d \in Edges[path[i].task] \cap DOMAIN color :
     \/ d \in path[i].left
     \/ d \in Black
     \/ (i < Len(path) /\ d = path[i + 1].task)

BlackIsDone ==
  /\ \A b \in Black : Edges[b] \cap DOMAIN color \subseteq Black
  /\ AcyclicOn(Black, Edges)

WhiteIsToCome ==
  /\ roots \subseteq DOMAIN color
  /\ \A d \in DOMAIN color : color[d] = "white" => d \in roots

RaisedForCycle == raising => ~ValidateNoCycle(call.task, call.entry.depends_on)

SearchShape ==
  /\ Free(call.actor) /\ call.entry \in Payload
  /\ DOMAIN color = Known \cup {call.task}
  /\ GreyIsOnPath /\ PathFollowsEdges /\ FollowedEdges
  /\ BlackIsDone /\ WhiteIsToCome
  /\ RaisedForCycle

SearchInv ==
  /\ DependenciesTyped /\ SearchTypeOK
  /\ call = NoCall => NoSearch
  /\ call # NoCall => SearchShape

\* The path after an edge has been tried, a call has begun, a call has returned.
LEMMA ReplacedElement ==
  ASSUME NEW S, NEW s \in Seq(S), NEW n \in 1 .. Len(s), NEW e \in S,
         NEW q, q = [s EXCEPT ![n] = e]
  PROVE  /\ q \in Seq(S) /\ Len(q) = Len(s)
         /\ \A i \in 1 .. Len(s) : q[i] = IF i = n THEN e ELSE s[i]
<1>1. q \in [1 .. Len(s) -> S]
  OBVIOUS
<1>2. Len(s) \in Nat
  OBVIOUS
<1>3. q \in Seq(S) /\ Len(q) = Len(s)
  BY <1>1, <1>2
<1>4. \A i \in 1 .. Len(s) : q[i] = IF i = n THEN e ELSE s[i]
  OBVIOUS
<1> QED
  BY <1>3, <1>4

LEMMA TriedFrame ==
  ASSUME NEW p \in Seq(Frame), NEW n \in 1 .. Len(p), n = Len(p), NEW d,
         NEW f \in Frame, f.task = p[n].task, f.left = p[n].left \ {d},
         NEW q, q = [p EXCEPT ![n] = f]
  PROVE  /\ q \in Seq(Frame) /\ Len(q) = Len(p)
         /\ \A i \in 1 .. Len(p) : q[i].task = p[i].task
         /\ \A i \in 1 .. Len(p) - 1 : q[i].left = p[i].left
         /\ q[n].left = p[n].left \ {d}
<1>1. q \in Seq(Frame) /\ Len(q) = Len(p)
  BY ReplacedElement
<1>2. \A i \in 1 .. Len(p) : q[i] = IF i = n THEN f ELSE p[i]
  BY ReplacedElement
<1>3. \A i \in 1 .. Len(p) - 1 : i \in 1 .. Len(p) /\ i # n
  OBVIOUS
<1>4. \A i \in 1 .. Len(p) : q[i].task = p[i].task
  BY <1>2
<1> QED
  BY <1>1, <1>2, <1>3, <1>4

LEMMA TriedPath ==
  ASSUME path \in Seq(Frame), path # <<>>, NEW d
  PROVE  /\ Tried(d) \in Seq(Frame) /\ Len(Tried(d)) = Len(path)
         /\ \A i \in 1 .. Len(path) : Tried(d)[i].task = path[i].task
         /\ \A i \in 1 .. Len(path) - 1 : Tried(d)[i].left = path[i].left
         /\ Tried(d)[Len(path)].left = path[Len(path)].left \ {d}
<1>1. PICK n \in 1 .. Len(path) : n = Len(path)
  OBVIOUS
<1>2. path[n] \in Frame
  OBVIOUS
<1>3. PICK f : f = [path[n] EXCEPT !.left = @ \ {d}]
  OBVIOUS
<1>4. f \in Frame /\ f.task = path[n].task /\ f.left = path[n].left \ {d}
  BY <1>2, <1>3 DEF Frame
<1>5. Tried(d) = [path EXCEPT ![n] = f]
  BY <1>1, <1>3 DEF Tried
<1>6. PICK q : q = Tried(d)
  OBVIOUS
<1>7. q = [path EXCEPT ![n] = f]
  BY <1>5, <1>6
<1>8. q \in Seq(Frame) /\ Len(q) = Len(path)
  BY <1>1, <1>4, <1>7, TriedFrame
<1>9. \A i \in 1 .. Len(path) : q[i].task = path[i].task
  BY <1>1, <1>4, <1>7, TriedFrame
<1>10. /\ \A i \in 1 .. Len(path) - 1 : q[i].left = path[i].left
       /\ q[n].left = path[n].left \ {d}
  BY <1>1, <1>4, <1>7, TriedFrame
<1> QED
  BY <1>1, <1>6, <1>8, <1>9, <1>10

LEMMA EnteredFrames ==
  ASSUME NEW p \in Seq(Frame), NEW t \in Task, NEW ds \in SUBSET Task,
         NEW q, q = Append(p, [task |-> t, left |-> ds])
  PROVE  /\ q \in Seq(Frame) /\ Len(q) = Len(p) + 1
         /\ \A i \in 1 .. Len(p) : q[i] = p[i]
         /\ q[Len(p) + 1].task = t /\ q[Len(p) + 1].left = ds
<1>1. PICK f \in Frame : f = [task |-> t, left |-> ds]
  BY DEF Frame
<1>2. f.task = t /\ f.left = ds
  BY <1>1
<1>3. q = Append(p, f)
  BY <1>1
<1> HIDE DEF Frame
<1> QED
  BY <1>2, <1>3

LEMMA ReturnedFrames ==
  ASSUME NEW p \in Seq(Frame), p # <<>>, NEW q, q = SubSeq(p, 1, Len(p) - 1)
  PROVE  /\ q \in Seq(Frame) /\ Len(q) = Len(p) - 1
         /\ \A i \in 1 .. Len(p) - 1 : q[i] = p[i]
<1>1. Len(p) \in Nat /\ Len(p) >= 1
  OBVIOUS
<1>2. PICK m : m = Len(p) - 1
  OBVIOUS
<1>3. m \in Int /\ m >= 0 /\ 1 \in Int /\ \A i \in 1 .. m : p[i] \in Frame
  BY <1>1, <1>2
<1>4. q = SubSeq(p, 1, m)
  BY <1>2
<1> HIDE DEF Frame
<1>5. q \in Seq(Frame)
  BY <1>3, <1>4, SubSeqProperties
<1>6. Len(q) = IF 1 <= m THEN m - 1 + 1 ELSE 0
  BY <1>3, <1>4, SubSeqProperties
<1>7. \A i \in 1 .. m - 1 + 1 : q[i] = p[1 + i - 1]
  BY <1>3, <1>4, SubSeqProperties
<1>8. \A i \in 1 .. m : i \in 1 .. m - 1 + 1 /\ 1 + i - 1 = i
  BY <1>3
<1>9. \A i \in 1 .. m : q[i] = p[i]
  BY <1>7, <1>8
<1> QED
  BY <1>2, <1>3, <1>5, <1>6, <1>9

LEMMA EdgesTyped ==
  ASSUME DependenciesTyped, SearchTypeOK, call # NoCall
  PROVE  Edges \in [Task -> SUBSET Task]
<1>1. call.task \in Task /\ call.entry.depends_on \subseteq Task
  BY DEF SearchTypeOK, SearchedCall, Entry
<1> QED
  BY <1>1 DEF Edges, DependenciesTyped

\* A node that only reaches finished ones is finished.
LEMMA FinishedGrows ==
  ASSUME NEW S, NEW deps, NEW x, x \notin S, AcyclicOn(S, deps),
         \A b \in S : x \notin deps[b], x \notin deps[x]
  PROVE  AcyclicOn(S \cup {x}, deps)
<1>1. SUFFICES ASSUME NEW U \in SUBSET (S \cup {x}), U # {}
               PROVE  \E u \in U : deps[u] \cap U = {}
  BY DEF AcyclicOn
<1>2. CASE U \ {x} = {}
  BY <1>1, <1>2
<1>3. CASE U \ {x} # {}
  <2>1. PICK u \in U \ {x} : deps[u] \cap (U \ {x}) = {}
    BY <1>3 DEF AcyclicOn
  <2> QED
    BY <2>1
<1> QED
  BY <1>2, <1>3

\* What the calls of dfs leave alone.
LEMMA EdgesStay ==
  ASSUME UNCHANGED <<vars, call>>
  PROVE  Edges' = Edges /\ Known' = Known /\ Free(call.actor)' = Free(call.actor)
BY DEF vars, board, Edges, Known, Free

LEMMA TopFrame ==
  ASSUME SearchTypeOK, path # <<>>
  PROVE  /\ Len(path) \in Nat /\ Len(path) >= 1 /\ Len(path) \in 1 .. Len(path)
         /\ path \in Seq(Frame) /\ Top = path[Len(path)]
         /\ Top.task \in Task /\ Top.left \subseteq Task
<1>1. path \in Seq(Frame)
  BY DEF SearchTypeOK
<1>2. Len(path) \in 1 .. Len(path) /\ Len(path) \in Nat
  BY <1>1
<1>3. path[Len(path)] \in Frame
  BY <1>1, <1>2
<1> QED
  BY <1>1, <1>2, <1>3 DEF Top, Frame

\* A call of dfs returns: its entry and its edges are finished.
LEMMA ReturnKeepsShape ==
  ASSUME DependenciesTyped, SearchTypeOK, SearchShape, Return
  PROVE  SearchTypeOK' /\ SearchShape'
<1>1. PICK n, x : n = Len(path) /\ x = Top.task
  OBVIOUS
<1>2. /\ call # NoCall /\ ~raising /\ path # <<>> /\ Top.left = {}
      /\ color' = [color EXCEPT ![x] = "black"] /\ path' = SubSeq(path, 1, n - 1)
      /\ UNCHANGED <<vars, call>> /\ roots' = roots /\ raising' = raising
  BY <1>1 DEF Return, Searching
<1>3. Edges' = Edges /\ Known' = Known /\ Free(call.actor)' = Free(call.actor)
  BY <1>2, EdgesStay
<1>4. n \in Nat /\ n \in 1 .. n /\ x \in Task /\ path[n].task = x /\ path[n].left = {}
  BY <1>1, <1>2, TopFrame
<1>5. path' \in Seq(Frame) /\ Len(path') = n - 1 /\ \A i \in 1 .. n - 1 : path'[i] = path[i]
  BY <1>1, <1>2, TopFrame, ReturnedFrames
<1>6. x \in DOMAIN color /\ color[x] = "grey"
  BY <1>1, <1>4 DEF SearchShape, GreyIsOnPath, Grey
<1>7. DOMAIN color' = DOMAIN color /\ Black' = Black \cup {x} /\ Grey' = Grey \ {x} /\ x \notin Black
  BY <1>2, <1>6 DEF Black, Grey
<1>8. \A i \in 1 .. n - 1 : i \in 1 .. n /\ i # n
  BY <1>4
<1>9. SearchTypeOK'
  BY <1>2, <1>5, <1>6, <1>7 DEF SearchTypeOK
<1>10. GreyIsOnPath'
  <2>1. \A i \in 1 .. n - 1 : path'[i].task \in Grey \ {x}
    BY <1>1, <1>4, <1>5, <1>8 DEF SearchShape, GreyIsOnPath
  <2>2. \A g \in Grey \ {x} : \E i \in 1 .. n - 1 : path'[i].task = g
    <3>1. ASSUME NEW g \in Grey \ {x} PROVE \E i \in 1 .. n - 1 : path'[i].task = g
      <4>1. PICK i \in 1 .. n : path[i].task = g
        BY <1>1 DEF SearchShape, GreyIsOnPath
      <4>2. i \in 1 .. n - 1
        BY <1>4, <3>1, <4>1
      <4> QED
        BY <1>5, <4>1, <4>2
    <3> QED
      BY <3>1
  <2>3. \A i, j \in 1 .. n - 1 : path'[i].task = path'[j].task => i = j
    BY <1>1, <1>5, <1>8 DEF SearchShape, GreyIsOnPath
  <2> QED
    BY <1>5, <1>7, <2>1, <2>2, <2>3 DEF GreyIsOnPath
<1>11. PathFollowsEdges'
  <2>1. \A i \in 1 .. n - 1 - 1 : i \in 1 .. n - 1 /\ i + 1 \in 1 .. n - 1
    BY <1>4
  <2>2. \A i \in 1 .. n - 1 : path'[i].left \subseteq Edges[path'[i].task]
    BY <1>1, <1>5, <1>8 DEF SearchShape, PathFollowsEdges
  <2>3. \A i \in 1 .. n - 1 - 1 : path'[i + 1].task \in Edges[path'[i].task]
    BY <1>1, <1>5, <2>1 DEF SearchShape, PathFollowsEdges
  <2> QED
    BY <1>3, <1>5, <2>2, <2>3 DEF PathFollowsEdges
<1>12. FollowedEdges'
  <2>1. ASSUME NEW i \in 1 .. n - 1, NEW d \in Edges[path'[i].task] \cap DOMAIN color
        PROVE  d \in path'[i].left \/ d \in Black' \/ (i < n - 1 /\ d = path'[i + 1].task)
    <3>1. d \in path[i].left \/ d \in Black \/ (i < n /\ d = path[i + 1].task)
      <4>1. i \in 1 .. Len(path) /\ d \in Edges[path[i].task] \cap DOMAIN color
        BY <1>1, <1>5, <1>8, <2>1
      <4>2. FollowedEdges
        BY DEF SearchShape
      <4>3. d \in path[i].left \/ d \in Black \/ (i < Len(path) /\ d = path[i + 1].task)
        BY <4>1, <4>2, Zenon DEF FollowedEdges
      <4> QED
        BY <1>1, <4>3, Zenon
    <3>2. CASE i = n - 1
      <4>1. i + 1 = n
        BY <1>4, <3>2
      <4>2. d = path[n].task => d \in Black'
        BY <1>4, <1>7
      <4>3. path'[i].left = path[i].left /\ Black \subseteq Black'
        BY <1>5, <1>7
      <4> QED
        BY <3>1, <4>1, <4>2, <4>3, Zenon
    <3>3. CASE i # n - 1
      <4>1. i + 1 \in 1 .. n - 1 /\ i < n - 1
        BY <1>4, <3>3
      <4> QED
        BY <1>5, <1>7, <3>1, <4>1
    <3> QED
      BY <3>2, <3>3
  <2> QED
    BY <1>3, <1>5, <1>7, <2>1 DEF FollowedEdges
<1>13. Edges[x] \cap DOMAIN color \subseteq Black
  BY <1>1, <1>4 DEF SearchShape, FollowedEdges
<1>14. BlackIsDone'
  <2>1. x \notin Edges[x] /\ \A b \in Black : x \notin Edges[b]
    BY <1>6, <1>7, <1>13 DEF SearchShape, BlackIsDone
  <2>2. AcyclicOn(Black \cup {x}, Edges)
    BY <1>7, <2>1, FinishedGrows DEF SearchShape, BlackIsDone
  <2>3. \A b \in Black \cup {x} : Edges[b] \cap DOMAIN color \subseteq Black \cup {x}
    BY <1>13 DEF SearchShape, BlackIsDone
  <2> QED
    BY <1>3, <1>7, <2>2, <2>3 DEF BlackIsDone, AcyclicOn
<1>15. WhiteIsToCome'
  BY <1>2, <1>6, <1>7 DEF SearchShape, WhiteIsToCome
<1>16. RaisedForCycle'
  BY <1>2 DEF RaisedForCycle
<1> QED
  BY <1>2, <1>3, <1>7, <1>9, <1>10, <1>11, <1>12, <1>14, <1>15, <1>16 DEF SearchShape

\* A call of dfs begins, as the first or over an edge of the one that was on.
LEMMA EnterKeepsShape ==
  ASSUME DependenciesTyped, SearchTypeOK, SearchShape, call # NoCall, ~raising,
         NEW t \in DOMAIN color, color[t] = "white", NEW p \in Seq(Frame), NEW n, n = Len(path),
         Len(p) = n, \A i \in 1 .. n : p[i].task = path[i].task,
         \A i \in 1 .. n : p[i].left \subseteq path[i].left,
         \A i \in 1 .. n - 1 : p[i].left = path[i].left,
         n > 0 => path[n].left \subseteq p[n].left \cup {t} /\ t \in Edges[path[n].task],
         Enter(t, p), UNCHANGED <<vars, call, raising>>,
         roots' \subseteq roots, roots \subseteq roots' \cup {t}
  PROVE  SearchTypeOK' /\ SearchShape'
<1>1. color' = [color EXCEPT ![t] = "grey"] /\ path' = Append(p, [task |-> t, left |-> Edges[t]])
  BY DEF Enter
<1>2. t \in Task /\ Edges[t] \subseteq Task
  BY EdgesTyped DEF SearchTypeOK
<1>3. n \in Nat /\ path \in Seq(Frame)
  BY DEF SearchTypeOK
<1>4. /\ path' \in Seq(Frame) /\ Len(path') = n + 1
      /\ \A i \in 1 .. n : path'[i] = p[i]
      /\ path'[n + 1].task = t /\ path'[n + 1].left = Edges[t]
  BY <1>1, <1>2, EnteredFrames
<1>5. /\ \A i \in 1 .. n : path'[i].task = path[i].task /\ path'[i].left \subseteq path[i].left
      /\ \A i \in 1 .. n - 1 : path'[i].left = path[i].left
      /\ n > 0 => path[n].left \subseteq path'[n].left \cup {t}
  <2>1. \A i \in 1 .. n - 1 : i \in 1 .. n
    BY <1>3
  <2>2. n > 0 => n \in 1 .. n
    BY <1>3
  <2> QED
    BY <1>4, <2>1, <2>2
<1>6. Edges' = Edges /\ Known' = Known /\ Free(call.actor)' = Free(call.actor)
  BY EdgesStay
<1>7. DOMAIN color' = DOMAIN color /\ Black' = Black /\ Grey' = Grey \cup {t} /\ t \notin Grey
  BY <1>1 DEF Black, Grey
<1>8. \A i \in 1 .. n + 1 : i \in 1 .. n \/ i = n + 1
  BY <1>3
<1>9. \A i \in 1 .. n : i \in 1 .. n + 1 /\ n + 1 \in 1 .. n + 1
  BY <1>3
<1>10. GreyIsOnPath /\ PathFollowsEdges /\ FollowedEdges /\ BlackIsDone /\ WhiteIsToCome
  BY DEF SearchShape
<1>11. SearchTypeOK'
  <2>1. color' \in [DOMAIN color' -> {"white", "grey", "black"}] /\ DOMAIN color' \subseteq Task
    BY <1>1, <1>7 DEF SearchTypeOK
  <2> QED
    BY <1>4, <2>1 DEF SearchTypeOK
<1>12. GreyIsOnPath'
  <2>1. \A i \in 1 .. n : path'[i].task \in Grey /\ path'[i].task # t
    BY <1>5, <1>7, <1>10 DEF GreyIsOnPath
  <2>2. \A i \in 1 .. n + 1 : path'[i].task \in Grey \cup {t}
    BY <1>4, <1>8, <2>1
  <2>3. \A i, j \in 1 .. n : path'[i].task = path'[j].task => i = j
    BY <1>5, <1>10 DEF GreyIsOnPath
  <2>4. \A i, j \in 1 .. n + 1 : path'[i].task = path'[j].task => i = j
    BY <1>4, <1>8, <2>1, <2>3
  <2>5. \A g \in Grey : \E i \in 1 .. n : path'[i].task = g
    BY <1>5, <1>10 DEF GreyIsOnPath
  <2>6. n + 1 \in 1 .. n + 1
    BY <1>3
  <2>7. \A g \in Grey \cup {t} : \E i \in 1 .. n + 1 : path'[i].task = g
    BY <1>4, <1>9, <2>5, <2>6
  <2> QED
    BY <1>4, <1>7, <2>2, <2>4, <2>7 DEF GreyIsOnPath
<1>13. PathFollowsEdges'
  <2>1. \A i \in 1 .. n : path'[i].left \subseteq Edges[path'[i].task]
    BY <1>5, <1>10 DEF PathFollowsEdges
  <2>2. \A i \in 1 .. n + 1 : path'[i].left \subseteq Edges[path'[i].task]
    BY <1>4, <1>8, <2>1
  <2>3. ASSUME NEW i \in 1 .. n + 1 - 1 PROVE path'[i + 1].task \in Edges[path'[i].task]
    <3>1. CASE i = n
      <4>1. n > 0 /\ n \in 1 .. n
        BY <1>3, <3>1
      <4> QED
        BY <1>4, <1>5, <3>1, <4>1
    <3>2. CASE i # n
      <4>1. i \in 1 .. n - 1 /\ i \in 1 .. n /\ i + 1 \in 1 .. n
        BY <1>3, <3>2
      <4>2. path[i + 1].task \in Edges[path[i].task]
        BY <1>10, <4>1 DEF PathFollowsEdges
      <4> QED
        BY <1>5, <4>1, <4>2
    <3> QED
      BY <3>1, <3>2
  <2> QED
    BY <1>4, <1>6, <2>2, <2>3 DEF PathFollowsEdges
<1>14. FollowedEdges'
  <2>1. ASSUME NEW i \in 1 .. n + 1, NEW d \in Edges[path'[i].task] \cap DOMAIN color
        PROVE  d \in path'[i].left \/ d \in Black \/ (i < n + 1 /\ d = path'[i + 1].task)
    <3>1. CASE i = n + 1
      BY <1>4, <2>1, <3>1
    <3>2. CASE i = n
      <4>1. n \in 1 .. n /\ n > 0 /\ n < n + 1 /\ ~(n < n)
        BY <1>3, <2>1, <3>2
      <4>2. d \in path[n].left \/ d \in Black
        BY <1>5, <1>10, <2>1, <3>2, <4>1 DEF FollowedEdges
      <4> QED
        BY <1>4, <1>5, <3>2, <4>1, <4>2
    <3>3. CASE i \in 1 .. n - 1
      <4>1. i \in 1 .. n /\ i + 1 \in 1 .. n /\ i < n + 1
        BY <1>3, <3>3
      <4>2. d \in path[i].left \/ d \in Black \/ (i < n /\ d = path[i + 1].task)
        BY <1>5, <1>10, <2>1, <4>1 DEF FollowedEdges
      <4>3. path'[i].left = path[i].left /\ path'[i + 1].task = path[i + 1].task
        BY <1>5, <3>3, <4>1
      <4> QED
        BY <4>1, <4>2, <4>3, Zenon
    <3> QED
      BY <1>3, <3>1, <3>2, <3>3
  <2> QED
    BY <1>4, <1>6, <1>7, <2>1 DEF FollowedEdges
<1>15. BlackIsDone'
  BY <1>6, <1>7, <1>10 DEF BlackIsDone, AcyclicOn
<1>16. WhiteIsToCome'
  BY <1>1, <1>10 DEF WhiteIsToCome
<1>17. RaisedForCycle'
  BY DEF RaisedForCycle
<1> QED
  BY <1>6, <1>7, <1>11, <1>12, <1>13, <1>14, <1>15, <1>16, <1>17 DEF SearchShape

\* The loop over all_tasks goes on.
LEMMA NextRootKeepsShape ==
  ASSUME DependenciesTyped, SearchTypeOK, SearchShape, NEW t \in Task, NextRoot(t)
  PROVE  SearchTypeOK' /\ SearchShape'
<1>1. /\ call # NoCall /\ ~raising /\ path = <<>> /\ roots' = roots \ {t} /\ t \in roots
      /\ UNCHANGED <<vars, call, raising>>
  BY DEF NextRoot, Searching
<1>2. CASE color[t] = "white" /\ t \in DOMAIN color /\ Enter(t, <<>>)
  <2>1. <<>> \in Seq(Frame) /\ Len(<<>>) = 0 /\ Len(path) = 0
    BY <1>1
  <2>2. PICK p, n : p \in Seq(Frame) /\ p = <<>> /\ n = Len(path)
    BY <2>1
  <2>3. Len(p) = n /\ n = 0 /\ Enter(t, p)
    BY <1>2, <2>1, <2>2
  <2>4. /\ \A i \in 1 .. n : p[i].task = path[i].task /\ p[i].left \subseteq path[i].left
        /\ \A i \in 1 .. n - 1 : p[i].left = path[i].left
    BY <2>3
  <2>5. roots' \subseteq roots /\ roots \subseteq roots' \cup {t} /\ ~(n > 0)
    BY <1>1, <2>3
  <2> QED
    BY <1>1, <1>2, <2>2, <2>3, <2>4, <2>5, EnterKeepsShape
<1>3. CASE UNCHANGED <<color, path>> /\ color[t] # "white"
  <2>1. Edges' = Edges /\ Known' = Known /\ Free(call.actor)' = Free(call.actor)
    BY <1>1, EdgesStay
  <2>2. Black' = Black /\ Grey' = Grey
    BY <1>3 DEF Black, Grey
  <2>3. WhiteIsToCome'
    BY <1>1, <1>3 DEF SearchShape, WhiteIsToCome
  <2>4. RaisedForCycle'
    BY <1>1 DEF RaisedForCycle
  <2>5. GreyIsOnPath' /\ PathFollowsEdges' /\ FollowedEdges' /\ BlackIsDone'
    BY <1>3, <2>1, <2>2
       DEF SearchShape, GreyIsOnPath, PathFollowsEdges, FollowedEdges, BlackIsDone, AcyclicOn
  <2>6. SearchTypeOK'
    BY <1>1, <1>3 DEF SearchTypeOK
  <2> QED
    BY <1>1, <1>3, <2>1, <2>3, <2>4, <2>5, <2>6 DEF SearchShape
<1>4. t \in DOMAIN color
  <2>1. roots \subseteq DOMAIN color
    BY DEF SearchShape, WhiteIsToCome
  <2> QED
    BY <1>1, <2>1
<1> QED
  BY <1>2, <1>3, <1>4 DEF NextRoot

\* An edge to an entry whose dfs goes on closes a cycle: the path from there.
LEMMA GreyEdgeClosesCycle ==
  ASSUME SearchTypeOK, SearchShape, path # <<>>, NEW d \in Grey, d \in Edges[Top.task]
  PROVE  ~ValidateNoCycle(call.task, call.entry.depends_on)
<1>1. PICK n : n = Len(path)
  OBVIOUS
<1>2. n \in Nat /\ n >= 1 /\ Top = path[n]
  BY <1>1, TopFrame
<1>3. PICK k \in 1 .. n : path[k].task = d
  BY <1>1 DEF SearchShape, GreyIsOnPath
<1>4. PICK S : S = {path[i].task : i \in k .. n}
  OBVIOUS
<1>5. \A i \in k .. n : i \in 1 .. n
  BY <1>2, <1>3
<1>6. k \in k .. n
  BY <1>2, <1>3
<1>7. S \subseteq DOMAIN color /\ d \in S
  BY <1>1, <1>3, <1>4, <1>5, <1>6 DEF SearchShape, GreyIsOnPath, Grey
<1>8. ASSUME NEW s \in S PROVE Edges[s] \cap S # {}
  <2>1. PICK i \in k .. n : s = path[i].task
    BY <1>4
  <2>2. CASE i = n
    BY <1>2, <1>7, <2>1, <2>2
  <2>3. CASE i # n
    <3>1. i \in 1 .. n - 1 /\ i + 1 \in k .. n
      BY <1>2, <1>3, <2>1, <2>3
    <3>2. path[i + 1].task \in Edges[path[i].task]
      BY <1>1, <3>1 DEF SearchShape, PathFollowsEdges
    <3>3. path[i + 1].task \in S
      BY <1>4, <3>1
    <3> QED
      BY <2>1, <3>2, <3>3
  <2> QED
    BY <2>2, <2>3
<1>9. ~AcyclicOn(DOMAIN color, Edges)
  BY <1>7, <1>8 DEF AcyclicOn
<1>10. DOMAIN color = Known \cup {call.task}
  BY DEF SearchShape
<1> QED
  BY <1>9, <1>10 DEF ValidateNoCycle, Edges

\* An edge is tried: it closes a cycle, leads to a new call, or is done with.
LEMMA FollowKeepsShape ==
  ASSUME DependenciesTyped, SearchTypeOK, SearchShape, NEW d \in Task, Follow(d)
  PROVE  SearchTypeOK' /\ SearchShape'
<1>1. /\ call # NoCall /\ ~raising /\ path # <<>> /\ d \in Top.left
      /\ UNCHANGED <<vars, call>> /\ roots' = roots
  BY DEF Follow, Searching
<1>2. PICK n : n = Len(path)
  OBVIOUS
<1>3. n \in Nat /\ n \in 1 .. n /\ path \in Seq(Frame) /\ Top = path[n]
  BY <1>1, <1>2, TopFrame
<1>4. Edges' = Edges /\ Known' = Known /\ Free(call.actor)' = Free(call.actor)
  BY <1>1, EdgesStay
<1>5. d \in Edges[path[n].task]
  BY <1>1, <1>2, <1>3 DEF SearchShape, PathFollowsEdges
<1>6. PICK p : p = Tried(d)
  OBVIOUS
<1>7. /\ p \in Seq(Frame) /\ Len(p) = n
      /\ \A i \in 1 .. n : p[i].task = path[i].task
      /\ \A i \in 1 .. n - 1 : p[i].left = path[i].left
      /\ p[n].left = path[n].left \ {d}
  BY <1>1, <1>2, <1>3, <1>6, TriedPath
<1>8. \A i \in 1 .. n : i \in 1 .. n - 1 \/ i = n
  BY <1>3
<1>9. \A i \in 1 .. n : p[i].left \subseteq path[i].left
  BY <1>7, <1>8
<1>10. CASE d \in DOMAIN color /\ Closes(d) /\ raising' = TRUE /\ UNCHANGED <<color, path>>
  <2>1. d \in Grey /\ d \in Edges[Top.task]
    BY <1>3, <1>5, <1>10 DEF Grey, Closes
  <2>2. ~ValidateNoCycle(call.task, call.entry.depends_on)
    BY <1>1, <2>1, GreyEdgeClosesCycle
  <2>3. RaisedForCycle'
    BY <1>1, <1>4, <2>2 DEF RaisedForCycle, ValidateNoCycle, vars, board
  <2>4. Black' = Black /\ Grey' = Grey
    BY <1>10 DEF Black, Grey
  <2>5. /\ GreyIsOnPath' /\ PathFollowsEdges' /\ FollowedEdges' /\ BlackIsDone'
        /\ WhiteIsToCome'
    BY <1>1, <1>4, <1>10, <2>4
       DEF SearchShape, GreyIsOnPath, PathFollowsEdges, FollowedEdges, BlackIsDone, AcyclicOn,
           WhiteIsToCome
  <2>6. SearchTypeOK'
    BY <1>1, <1>10 DEF SearchTypeOK
  <2> QED
    BY <1>1, <1>4, <1>10, <2>3, <2>5, <2>6 DEF SearchShape
<1>11. CASE d \in DOMAIN color /\ color[d] = "white" /\ Enter(d, p) /\ UNCHANGED raising
  <2>1. n > 0 => path[n].left \subseteq p[n].left \cup {d} /\ d \in Edges[path[n].task]
    BY <1>5, <1>7
  <2>2. roots' \subseteq roots /\ roots \subseteq roots' \cup {d}
    BY <1>1
  <2> QED
    BY <1>1, <1>2, <1>7, <1>9, <1>11, <2>1, <2>2, EnterKeepsShape
<1>12. CASE /\ d \in DOMAIN color => color[d] # "white" /\ ~Closes(d)
            /\ path' = p /\ UNCHANGED <<color, raising>>
  <2>1. Black' = Black /\ Grey' = Grey
    BY <1>12 DEF Black, Grey
  <2>2. d \in DOMAIN color => d \in Black
    BY <1>12 DEF Black, Closes, SearchTypeOK
  <2>3. GreyIsOnPath'
    BY <1>2, <1>7, <1>12, <2>1 DEF SearchShape, GreyIsOnPath
  <2>4. PathFollowsEdges'
    <3>1. \A i \in 1 .. n : path'[i].left \subseteq Edges[path'[i].task]
      BY <1>2, <1>7, <1>9, <1>12 DEF SearchShape, PathFollowsEdges
    <3>2. \A i \in 1 .. n - 1 : i \in 1 .. n /\ i + 1 \in 1 .. n
      BY <1>3
    <3>3. \A i \in 1 .. n - 1 : path[i + 1].task \in Edges[path[i].task]
      BY <1>2 DEF SearchShape, PathFollowsEdges
    <3>4. \A i \in 1 .. n - 1 : path'[i + 1].task \in Edges[path'[i].task]
      BY <1>7, <1>12, <3>2, <3>3
    <3> QED
      BY <1>4, <1>7, <1>12, <3>1, <3>4 DEF PathFollowsEdges
  <2>5. FollowedEdges'
    <3>1. ASSUME NEW i \in 1 .. n, NEW e \in Edges[path'[i].task] \cap DOMAIN color
          PROVE  e \in path'[i].left \/ e \in Black \/ (i < n /\ e = path'[i + 1].task)
      <4>1. e \in path[i].left \/ e \in Black \/ (i < n /\ e = path[i + 1].task)
        BY <1>2, <1>7, <1>12, <3>1 DEF SearchShape, FollowedEdges
      <4>2. i < n => i + 1 \in 1 .. n
        BY <1>3, <3>1
      <4>3. e \in path[i].left => e \in path'[i].left \/ e = d
        BY <1>7, <1>8, <1>12, <3>1
      <4> QED
        BY <1>7, <1>12, <2>2, <3>1, <4>1, <4>2, <4>3
    <3> QED
      BY <1>4, <1>7, <1>12, <2>1, <3>1 DEF FollowedEdges
  <2>6. BlackIsDone' /\ WhiteIsToCome'
    BY <1>1, <1>4, <1>12, <2>1 DEF SearchShape, BlackIsDone, AcyclicOn, WhiteIsToCome
  <2>7. RaisedForCycle'
    BY <1>1, <1>12 DEF RaisedForCycle
  <2>8. SearchTypeOK'
    BY <1>1, <1>7, <1>12 DEF SearchTypeOK
  <2> QED
    BY <1>1, <1>4, <1>12, <2>3, <2>4, <2>5, <2>6, <2>7, <2>8 DEF SearchShape
<1> QED
  BY <1>6, <1>10, <1>11, <1>12 DEF Follow

\* An add begins: every entry is white and a root to come to.
LEMMA BeginKeepsShape ==
  ASSUME DependenciesTyped, SearchTypeOK, call = NoCall, NoSearch,
         NEW a \in Actor, NEW t \in Task, NEW e \in Payload, BeginAdd(a, t, e)
  PROVE  DependenciesTyped' /\ SearchTypeOK' /\ SearchShape'
<1>1. /\ call' = [actor |-> a, task |-> t, entry |-> e] /\ Free(a)
      /\ color' = [u \in Known \cup {t} |-> "white"] /\ roots' = Known \cup {t}
      /\ UNCHANGED vars /\ path' = <<>> /\ raising' = FALSE
  BY DEF BeginAdd, NoSearch
<1>2. e \in Entry /\ call' \in SearchedCall /\ call'.task = t /\ call'.entry = e /\ call'.actor = a
  BY <1>1, PayloadAssumption DEF SearchedCall
<1>3. Known' = Known /\ Free(a)' = Free(a) /\ Known \subseteq Task /\ DependenciesTyped'
  BY <1>1 DEF vars, board, Known, Free, DependenciesTyped
<1>4. <<>> \in Seq(Frame) /\ Len(<<>>) = 0
  OBVIOUS
<1>5. SearchTypeOK'
  BY <1>1, <1>2, <1>3, <1>4 DEF SearchTypeOK
<1>6. Black' = {} /\ Grey' = {} /\ DOMAIN color' = Known \cup {t}
  BY <1>1 DEF Black, Grey
<1>7. \A i : i \notin 1 .. 0 /\ i \notin 1 .. 0 - 1
  OBVIOUS
<1>8. GreyIsOnPath'
  BY <1>1, <1>4, <1>6, <1>7 DEF GreyIsOnPath
<1>9. PathFollowsEdges' /\ FollowedEdges'
  BY <1>1, <1>4, <1>7 DEF PathFollowsEdges, FollowedEdges
<1>10. BlackIsDone'
  BY <1>6 DEF BlackIsDone, AcyclicOn
<1>11. WhiteIsToCome' /\ RaisedForCycle'
  BY <1>1, <1>6 DEF WhiteIsToCome, RaisedForCycle
<1>12. Free(call.actor)'
  BY <1>1, <1>2 DEF vars, Free
<1> QED
  BY <1>2, <1>3, <1>5, <1>6, <1>8, <1>9, <1>10, <1>11, <1>12 DEF SearchShape

\* A search that has come to its end has found no cycle.
LEMMA EndedSearchFoundNone ==
  ASSUME SearchTypeOK, SearchShape, path = <<>>, roots = {}
  PROVE  ValidateNoCycle(call.task, call.entry.depends_on)
<1>1. Len(path) = 0
  OBVIOUS
<1>2. Grey = {}
  BY <1>1 DEF SearchShape, GreyIsOnPath
<1>3. Black = DOMAIN color
  BY <1>2 DEF SearchShape, WhiteIsToCome, SearchTypeOK, Black, Grey
<1> QED
  BY <1>3 DEF SearchShape, BlackIsDone, ValidateNoCycle, Edges

\* What is stored after the search is stored by the add with its test.
LEMMA StoreIsAdd ==
  ASSUME SearchTypeOK, SearchShape, Store
  PROVE  Add(call.actor, call.task, call.entry)
<1>1. ValidateNoCycle(call.task, call.entry.depends_on)
  BY EndedSearchFoundNone DEF Store
<1>2. Free(call.actor)
  BY DEF SearchShape
<1> QED
  BY <1>1, <1>2 DEF Store, Add

LEMMA StoreIsApiStep ==
  ASSUME SearchTypeOK, SearchShape, Store
  PROVE  ApiNext
<1>1. PICK a \in Actor, t \in Task : a = call.actor /\ t = call.task
  BY DEF SearchTypeOK, Store, Searching, SearchedCall
<1>2. PICK e \in Payload : e = call.entry
  BY DEF SearchShape
<1>3. Add(a, t, e)
  BY <1>1, <1>2, StoreIsAdd
<1> QED
  BY <1>3 DEF ApiNext

\* Every step of the search is a step of the board with the test in one piece,
\* or none.
LEMMA SearchStepsMap == SearchInv /\ [SearchNext]_<<vars, searchVars>> => [ApiNext]_vars
<1> SUFFICES ASSUME SearchInv, SearchNext PROVE ApiNext \/ UNCHANGED vars
  BY DEF searchVars
<1>1. CASE ApiRest
  BY <1>1 DEF ApiNext
<1>2. CASE Store
  BY <1>2, StoreIsApiStep DEF SearchInv, Store, Searching
<1>3. CASE \E a \in Actor, t \in Task, e \in Payload : BeginAdd(a, t, e)
  BY <1>3 DEF BeginAdd
<1>4. CASE (\E t \in Task : NextRoot(t) \/ Follow(t)) \/ Return \/ Raise
  BY <1>4 DEF NextRoot, Follow, Return, Raise
<1> QED
  BY <1>1, <1>2, <1>3, <1>4 DEF SearchNext, SearchStep

LEMMA SearchInvStep == SearchInv /\ [SearchNext]_<<vars, searchVars>> => SearchInv'
<1> SUFFICES ASSUME SearchInv, [SearchNext]_<<vars, searchVars>> PROVE SearchInv'
  OBVIOUS
<1>1. DependenciesTyped'
  BY SearchStepsMap, ApiDependenciesStep DEF SearchInv
<1>2. call # NoCall => DependenciesTyped /\ SearchTypeOK /\ SearchShape
  BY DEF SearchInv
<1>3. ASSUME AddEnds PROVE SearchTypeOK' /\ NoSearch'
  <2>1. <<>> \in Seq(Frame)
    OBVIOUS
  <2>2. NoColor \in [DOMAIN NoColor -> {"white", "grey", "black"}] /\ DOMAIN NoColor = {}
    BY DEF NoColor
  <2>3. color' = NoColor /\ NoColor' = NoColor
    BY <1>3 DEF AddEnds, NoColor
  <2> QED
    BY <1>3, <2>1, <2>2, <2>3 DEF AddEnds, NoSearch, SearchTypeOK
<1>4. CASE call = NoCall /\ ApiRest /\ UNCHANGED searchVars
  <2>1. NoSearch' /\ SearchTypeOK'
    BY <1>4 DEF SearchInv, searchVars, NoSearch, NoColor, SearchTypeOK
  <2> QED
    BY <1>1, <2>1 DEF SearchInv, NoSearch
<1>5. ASSUME NEW a \in Actor, NEW t \in Task, NEW e \in Payload, BeginAdd(a, t, e)
      PROVE  SearchInv'
  <2>1. call = NoCall /\ DependenciesTyped /\ SearchTypeOK /\ NoSearch
    BY <1>5 DEF BeginAdd, SearchInv
  <2>2. SearchTypeOK' /\ SearchShape'
    BY <1>5, <2>1, BeginKeepsShape
  <2>3. call' # NoCall
    <3>1. call' \in SearchedCall
      BY <1>5, PayloadAssumption DEF BeginAdd, SearchedCall
    <3> QED
      BY <3>1, NoCallAssumption
  <2> QED
    BY <1>1, <2>2, <2>3 DEF SearchInv
<1>6. ASSUME NEW t \in Task, NextRoot(t) \/ Follow(t) PROVE SearchInv'
  <2>1. call # NoCall /\ call' = call
    BY <1>6 DEF NextRoot, Follow, Searching
  <2>2. SearchTypeOK' /\ SearchShape'
    BY <1>2, <1>6, <2>1, NextRootKeepsShape, FollowKeepsShape
  <2> QED
    BY <1>1, <2>1, <2>2 DEF SearchInv
<1>7. CASE Return
  <2>1. call # NoCall /\ call' = call
    BY <1>7 DEF Return, Searching
  <2>2. SearchTypeOK' /\ SearchShape'
    BY <1>2, <1>7, <2>1, ReturnKeepsShape
  <2> QED
    BY <1>1, <2>1, <2>2 DEF SearchInv
<1>8. CASE Store \/ Raise
  <2>1. SearchTypeOK' /\ NoSearch'
    BY <1>3, <1>8 DEF Store, Raise
  <2> QED
    BY <1>1, <2>1 DEF SearchInv, NoSearch
<1>9. CASE UNCHANGED <<vars, searchVars>>
  <2>1. Edges' = Edges /\ Known' = Known /\ Free(call.actor)' = Free(call.actor)
    BY <1>9, EdgesStay DEF searchVars
  <2>2. Black' = Black /\ Grey' = Grey
    BY <1>9 DEF Black, Grey, searchVars
  <2>3. NoSearch' = NoSearch /\ SearchTypeOK' = SearchTypeOK
    BY <1>9 DEF searchVars, NoSearch, NoColor, SearchTypeOK
  <2>4. SearchShape => SearchShape'
    BY <1>9, <2>1, <2>2
       DEF searchVars, vars, board, SearchShape, GreyIsOnPath, PathFollowsEdges, FollowedEdges,
           BlackIsDone, AcyclicOn, WhiteIsToCome, RaisedForCycle, ValidateNoCycle
  <2> QED
    BY <1>1, <1>9, <2>3, <2>4 DEF SearchInv, searchVars
<1> QED
  BY <1>4, <1>5, <1>6, <1>7, <1>8, <1>9 DEF SearchNext, SearchStep

LEMMA SearchInvHolds == SearchSpec => []SearchInv
<1>1. SearchInit => SearchInv
  <2> SUFFICES ASSUME SearchInit PROVE SearchInv
    OBVIOUS
  <2>1. DependenciesTyped
    BY DEF SearchInit, Init, DependenciesTyped
  <2>2. <<>> \in Seq(Frame)
    OBVIOUS
  <2>3. NoColor \in [DOMAIN NoColor -> {"white", "grey", "black"}] /\ DOMAIN NoColor = {}
    BY DEF NoColor
  <2>4. SearchTypeOK
    BY <2>2, <2>3 DEF SearchInit, NoSearch, SearchTypeOK
  <2> QED
    BY <2>1, <2>4 DEF SearchInit, NoSearch, SearchInv
<1> QED
  BY <1>1, SearchInvStep, PTL DEF SearchSpec

\* The add that searches implements the add whose guard is the test.
THEOREM SearchImplementsTest == SearchSpec => ApiSpec
<1>1. SearchInit => Init
  BY DEF SearchInit
<1> QED
  BY <1>1, SearchInvHolds, SearchStepsMap, PTL DEF SearchSpec, ApiSpec

\* The search raises only over a cycle, and lets only a board without a new one
\* through.
THEOREM SearchIsExact == SearchSpec => SearchFindsCycles
<1>1. SearchInv /\ Raise => ~ValidateNoCycle(call.task, call.entry.depends_on)
  BY DEF SearchInv, SearchShape, NoSearch, RaisedForCycle, Raise
<1>2. SearchInv /\ [SearchNext]_<<vars, searchVars>>
        => [/\ UNCHANGED vars \/ ApiNext
            /\ Raise => ~ValidateNoCycle(call.task, call.entry.depends_on)]_<<vars, searchVars>>
  BY <1>1, SearchStepsMap
<1> QED
  BY <1>2, SearchInvHolds, PTL DEF SearchSpec, SearchFindsCycles

\* With its search, too, add never puts a dependency cycle on the board.
THEOREM SearchedBoardsAreAcyclic == SearchSpec => CyclesOnlyFromSave
  BY SearchImplementsTest, SaveAloneMakesCycles
==============================================================================
