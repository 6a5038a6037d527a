---------------------------- MODULE FlowRunProofs ---------------------------
(* What holds of every run: for any number of steps, participants, callers   *)
(* and step ids, any thresholds of the breakers and any retry policy.        *)
EXTENDS FlowRun, FiniteSetTheorems, TLAPS

-----------------------------------------------------------------------------
(* Restarts.  A failure that waits for its judgement and would be granted a  *)
(* restart has been counted: granted restarts and those to come are fewer    *)
(* than the failures that may bring one.                                     *)

Shaped(c) == call[c] = [at |-> call[c].at, id |-> call[c].id, tries |-> call[c].tries,
                        seen |-> call[c].seen, error |-> call[c].error]

CallsShaped == DOMAIN call = Caller /\ \A c \in Caller : Shaped(c)

Pending(i) == {c \in Caller : /\ call[c].at = "judged" /\ call[c].id = i
                              /\ call[c].error # "fatal" /\ call[c].seen < Breaker}

Counted(i) ==
  /\ recent[i] <= MaxRestarts
  /\ grants[i] + Cardinality(Pending(i)) <= failures[i]
  /\ grants[i] + Cardinality(Pending(i)) < Breaker

SuperInv ==
  /\ CallsShaped
  /\ failures \in [Id -> Nat] /\ recent \in [Id -> Nat] /\ grants \in [Id -> Nat]
  /\ \A i \in Id : Counted(i)

\* No call begins to wait for a judgement, and nothing is counted.
Quiet ==
  /\ UNCHANGED <<failures, recent, grants>>
  /\ CallsShaped'
  /\ \A c \in Caller : call'[c].at = "judged" => call'[c] = call[c]

SuperStep ==
  \/ UNCHANGED superVars
  \/ Quiet
  \/ \E c \in Caller, e \in Error : Raise(c, e)
  \/ \E c \in Caller : \E honoured \in SUBSET {"restart", "resume"} : Judge(c, honoured)
  \/ \E i \in Id : Slide(i)
  \/ Renew

LEMMA PendingFinite ==
  ASSUME NEW i
  PROVE  IsFiniteSet(Pending(i)) /\ Cardinality(Pending(i)) \in Nat
<1>1. Pending(i) \subseteq Caller
  BY DEF Pending
<1>2. IsFiniteSet(Pending(i))
  BY <1>1, CallerAssumption, FS_Subset
<1> QED
  BY <1>2, FS_CardinalityType

\* Nothing is pending when no call waits for a judgement.
LEMMA NonePending ==
  ASSUME NEW i, \A c \in Caller : call[c].at # "judged"
  PROVE  Cardinality(Pending(i)) = 0
<1>1. Pending(i) = {}
  BY DEF Pending
<1> QED
  BY <1>1, FS_EmptySet

LEMMA SuperStart == SuperInit => SuperInv
<1> SUFFICES ASSUME SuperInit PROVE SuperInv
  OBVIOUS
<1>1. /\ call = [c \in Caller |-> NoCall]
      /\ failures = NothingYet /\ recent = NothingYet /\ grants = NothingYet
  BY DEF SuperInit
<1>2. CallsShaped /\ \A c \in Caller : call[c].at # "judged"
  BY <1>1 DEF CallsShaped, Shaped, NoCall
<1>3. ASSUME NEW i \in Id PROVE Counted(i)
  BY <1>1, <1>2, NonePending, LimitAssumption DEF NothingYet, Counted
<1> QED
  BY <1>1, <1>2, <1>3 DEF SuperInv, NothingYet

\* Fewer failures are pending.
LEMMA FewerPending ==
  ASSUME NEW i, Pending(i)' \subseteq Pending(i)
  PROVE  /\ Cardinality(Pending(i)') \in Nat
         /\ Cardinality(Pending(i)') <= Cardinality(Pending(i))
<1>1. IsFiniteSet(Pending(i))
  BY PendingFinite
<1> QED
  BY <1>1, FS_Subset, FS_CardinalityType

LEMMA QuietKeeps == SuperInv /\ Quiet => SuperInv'
<1> SUFFICES ASSUME SuperInv, Quiet PROVE SuperInv'
  OBVIOUS
<1>1. ASSUME NEW i \in Id PROVE Counted(i)'
  <2>1. Pending(i)' \subseteq Pending(i)
    BY DEF Quiet, Pending
  <2>2. /\ Cardinality(Pending(i)') \in Nat /\ Cardinality(Pending(i)) \in Nat
        /\ Cardinality(Pending(i)') <= Cardinality(Pending(i))
    BY <2>1, FewerPending, PendingFinite
  <2> QED
    BY <2>2, LimitAssumption DEF Quiet, SuperInv, Counted
<1> QED
  BY <1>1 DEF SuperInv, Quiet

LEMMA RaiseKeeps ==
  ASSUME SuperInv, NEW c \in Caller, NEW e \in Error, Raise(c, e)
  PROVE  SuperInv'
<1> DEFINE opens == total + 1 >= FlowBreaker
<1>0. PICK i : i = call[c].id
  OBVIOUS
<1>1. Shaped(c) /\ CallsShaped /\ call[c].at \in {"calling", "answered"}
      /\ UNCHANGED <<strategy, recent, grants>>
  BY DEF SuperInv, CallsShaped, Raise
<1>2. CASE strategy = "none" \/ opens
  <2>1. /\ \A d \in Caller : d # c => call'[d] = call[d]
        /\ call'[c].at = "refused" /\ CallsShaped'
    <3>1. CASE strategy = "none"
      <4>1. call' = [call EXCEPT ![c].at = "refused", ![c].error = e]
        BY <3>1 DEF Raise
      <4> QED
        BY <1>1, <4>1 DEF CallsShaped, Shaped
    <3>2. CASE strategy # "none" /\ opens
      <4>1. call' = [call EXCEPT ![c].at = "refused", ![c].error = e, ![c].seen = failures[i] + 1]
        BY <1>0, <3>2 DEF Raise
      <4> QED
        BY <1>1, <4>1 DEF CallsShaped, Shaped
    <3> QED
      BY <1>2, <3>1, <3>2
  <2>2. failures' = failures
    <3>1. CASE strategy = "none"
      BY <3>1 DEF Raise
    <3>2. CASE strategy # "none" /\ opens
      <4>1. failures' = [failures EXCEPT ![i] = failures[i]]
        BY <1>0, <3>2 DEF Raise
      <4> QED
        BY <4>1 DEF SuperInv
    <3> QED
      BY <1>2, <3>1, <3>2
  <2>3. Quiet
    BY <1>1, <2>1, <2>2 DEF Quiet
  <2> QED
    BY <2>3, QuietKeeps
<1>3. CASE strategy # "none" /\ ~opens
  <2>1. /\ call' = [call EXCEPT ![c].at = "judged", ![c].error = e, ![c].seen = failures[i] + 1]
        /\ failures' = [failures EXCEPT ![i] = failures[i] + 1]
    BY <1>0, <1>3 DEF Raise
  <2>2. /\ \A d \in Caller : d # c => call'[d] = call[d]
        /\ call'[c].at = "judged" /\ call'[c].id = i /\ call'[c].seen = failures[i] + 1
        /\ CallsShaped'
    BY <1>0, <1>1, <2>1 DEF CallsShaped, Shaped
  <2> HIDE DEF opens
  <2>3. ASSUME NEW j \in Id, j # i PROVE Counted(j)'
    <3>1. Pending(j)' \subseteq Pending(j) /\ failures'[j] = failures[j]
      BY <2>1, <2>2, <2>3 DEF Pending, SuperInv
    <3>2. /\ Cardinality(Pending(j)') \in Nat /\ Cardinality(Pending(j)) \in Nat
          /\ Cardinality(Pending(j)') <= Cardinality(Pending(j))
      BY <3>1, FewerPending, PendingFinite
    <3> QED
      BY <1>1, <3>1, <3>2, LimitAssumption DEF SuperInv, Counted
  <2>4. ASSUME i \in Id PROVE Counted(i)'
    <3>1. Counted(i) /\ failures'[i] = failures[i] + 1 /\ c \notin Pending(i)
      BY <1>1, <2>1, <2>4 DEF SuperInv, Pending
    <3>2. /\ IsFiniteSet(Pending(i)) /\ Cardinality(Pending(i)) \in Nat
          /\ Cardinality(Pending(i) \cup {c}) = Cardinality(Pending(i)) + 1
          /\ IsFiniteSet(Pending(i) \cup {c})
      BY <3>1, PendingFinite, FS_AddElement
    <3>3. CASE failures[i] + 1 < Breaker
      <4>1. Pending(i)' \subseteq Pending(i) \cup {c}
        BY <2>2 DEF Pending
      <4>2. /\ Cardinality(Pending(i)') \in Nat
            /\ Cardinality(Pending(i)') <= Cardinality(Pending(i)) + 1
        BY <3>2, <4>1, FS_Subset, FS_CardinalityType
      <4> QED
        BY <1>1, <2>4, <3>1, <3>2, <3>3, <4>2, LimitAssumption DEF Counted, SuperInv
    <3>4. CASE ~(failures[i] + 1 < Breaker)
      <4>1. Pending(i)' \subseteq Pending(i)
        BY <2>2, <3>4 DEF Pending
      <4>2. /\ Cardinality(Pending(i)') \in Nat
            /\ Cardinality(Pending(i)') <= Cardinality(Pending(i))
        BY <4>1, FewerPending
      <4> QED
        BY <1>1, <2>4, <3>1, <3>2, <4>2, LimitAssumption DEF Counted, SuperInv
    <3> QED
      BY <3>3, <3>4
  <2>5. failures' \in [Id -> Nat]
    <3>1. failures \in [Id -> Nat]
      BY DEF SuperInv
    <3>2. CASE i \in Id
      <4>1. failures[i] + 1 \in Nat
        BY <3>1, <3>2
      <4> QED
        BY <2>1, <3>1, <4>1
    <3>3. CASE i \notin Id
      BY <2>1, <3>1, <3>3
    <3> QED
      BY <3>2, <3>3
  <2> QED
    BY <1>1, <2>2, <2>3, <2>4, <2>5 DEF SuperInv
<1> QED
  BY <1>2, <1>3

LEMMA JudgeKeeps ==
  ASSUME SuperInv, NEW c \in Caller, NEW honoured, Judge(c, honoured)
  PROVE  SuperInv'
<1>0. PICK i : i = call[c].id
  OBVIOUS
<1>1. Shaped(c) /\ CallsShaped /\ call[c].at = "judged" /\ failures' = failures
  BY DEF SuperInv, CallsShaped, Judge
<1>2. PICK l \in {"granted", "refused"} : call' = [call EXCEPT ![c].at = l]
  BY DEF Judge
<1>3. /\ \A d \in Caller : d # c => call'[d] = call[d]
      /\ call'[c].at # "judged" /\ CallsShaped'
  BY <1>1, <1>2 DEF CallsShaped, Shaped
<1>4. CASE ~Grants(c)
  <2>1. /\ recent' = [recent EXCEPT ![i] = recent[i] + 0]
        /\ grants' = [grants EXCEPT ![i] = grants[i] + 0]
    BY <1>0, <1>4 DEF Judge
  <2>2. recent' = recent /\ grants' = grants
    <3>1. i \in Id => recent[i] + 0 = recent[i] /\ grants[i] + 0 = grants[i]
      BY DEF SuperInv, Counted
    <3> QED
      BY <2>1, <3>1 DEF SuperInv
  <2>3. Quiet
    BY <1>1, <1>3, <2>2 DEF Quiet
  <2> QED
    BY <2>3, QuietKeeps
<1>5. CASE Grants(c)
  <2>1. /\ recent' = [recent EXCEPT ![i] = recent[i] + 1]
        /\ grants' = [grants EXCEPT ![i] = grants[i] + 1]
    BY <1>0, <1>5 DEF Judge
  <2>2. c \in Pending(i) /\ recent[i] < MaxRestarts
    BY <1>0, <1>1, <1>5 DEF Grants, Pending
  <2>3. ASSUME NEW j \in Id, j # i PROVE Counted(j)'
    <3>1. Pending(j)' \subseteq Pending(j) /\ recent'[j] = recent[j] /\ grants'[j] = grants[j]
      BY <1>3, <2>1, <2>3 DEF Pending, SuperInv
    <3>2. /\ Cardinality(Pending(j)') \in Nat /\ Cardinality(Pending(j)) \in Nat
          /\ Cardinality(Pending(j)') <= Cardinality(Pending(j))
      BY <3>1, FewerPending, PendingFinite
    <3> QED
      BY <1>1, <3>1, <3>2, LimitAssumption DEF SuperInv, Counted
  <2>4. ASSUME i \in Id PROVE Counted(i)'
    <3>1. Counted(i) /\ recent'[i] = recent[i] + 1 /\ grants'[i] = grants[i] + 1
      BY <2>1, <2>4 DEF SuperInv
    <3>2. Pending(i)' \subseteq Pending(i) \ {c}
      BY <1>3 DEF Pending
    <3>3. /\ IsFiniteSet(Pending(i)) /\ Cardinality(Pending(i)) \in Nat
          /\ IsFiniteSet(Pending(i) \ {c})
          /\ Cardinality(Pending(i) \ {c}) = Cardinality(Pending(i)) - 1
      BY <2>2, PendingFinite, FS_RemoveElement
    <3>4. /\ Cardinality(Pending(i)') \in Nat
          /\ Cardinality(Pending(i)') <= Cardinality(Pending(i)) - 1
      BY <3>2, <3>3, FS_Subset, FS_CardinalityType
    <3> QED
      BY <1>1, <2>2, <2>4, <3>1, <3>3, <3>4, LimitAssumption DEF Counted, SuperInv
  <2>5. recent' \in [Id -> Nat] /\ grants' \in [Id -> Nat]
    <3>1. recent \in [Id -> Nat] /\ grants \in [Id -> Nat]
      BY DEF SuperInv
    <3>2. CASE i \in Id
      <4>1. recent[i] + 1 \in Nat /\ grants[i] + 1 \in Nat
        BY <3>1, <3>2
      <4>2. recent' \in [Id -> Nat]
        BY <2>1, <3>1, <4>1
      <4>3. grants' \in [Id -> Nat]
        BY <2>1, <3>1, <4>1
      <4> QED
        BY <4>2, <4>3
    <3>3. CASE i \notin Id
      BY <2>1, <3>1, <3>3
    <3> QED
      BY <3>2, <3>3
  <2> QED
    BY <1>1, <1>3, <2>3, <2>4, <2>5 DEF SuperInv
<1> QED
  BY <1>4, <1>5

LEMMA SuperKeeps == SuperInv /\ SuperStep => SuperInv'
<1> SUFFICES ASSUME SuperInv, SuperStep PROVE SuperInv'
  OBVIOUS
<1>1. CASE UNCHANGED superVars
  BY <1>1 DEF superVars, SuperInv, CallsShaped, Shaped, Counted, Pending
<1>2. ASSUME NEW i \in Id, Slide(i) PROVE SuperInv'
  <2>1. /\ recent' = [recent EXCEPT ![i] = recent[i] - 1] /\ recent[i] > 0
        /\ UNCHANGED <<strategy, failures, total, call, grants>>
    BY <1>2 DEF Slide
  <2>2. ASSUME NEW j \in Id PROVE Counted(j)'
    <3>1. recent'[j] = IF j = i THEN recent[j] - 1 ELSE recent[j]
      BY <2>1 DEF SuperInv
    <3>2. Counted(j) /\ Pending(j)' = Pending(j)
      BY <2>1 DEF SuperInv, Pending
    <3> QED
      BY <2>1, <3>1, <3>2, LimitAssumption DEF Counted, SuperInv
  <2>3. recent' \in [Id -> Nat]
    BY <2>1 DEF SuperInv
  <2> QED
    BY <2>1, <2>2, <2>3 DEF SuperInv, CallsShaped, Shaped
<1>3. CASE Renew
  <2>1. /\ call' = [c \in Caller |-> NoCall]
        /\ failures' = NothingYet /\ recent' = NothingYet /\ grants' = NothingYet
    BY <1>3 DEF Renew
  <2>2. CallsShaped' /\ \A c \in Caller : call'[c].at # "judged"
    BY <2>1 DEF CallsShaped, Shaped, NoCall
  <2>3. ASSUME NEW i \in Id PROVE Counted(i)'
    <3>1. Pending(i)' = {}
      BY <2>2 DEF Pending
    <3>2. Cardinality(Pending(i)') = 0
      BY <3>1, FS_EmptySet
    <3> QED
      BY <2>1, <3>2, LimitAssumption DEF NothingYet, Counted
  <2> QED
    BY <2>1, <2>2, <2>3 DEF SuperInv, NothingYet
<1> QED
  BY <1>1, <1>2, <1>3, QuietKeeps, RaiseKeeps, JudgeKeeps DEF SuperStep

-----------------------------------------------------------------------------
(* Every step of a run is a step of its supervision.                         *)

LEMMA Callers == Caller = Step /\ Main \in Caller
BY StepsAssumption DEF Step, Main

\* A call that does not come to be judged.
LEMMA MoveQuiet ==
  ASSUME SuperInv, NEW c \in Caller, NEW from, NEW to, to # "judged", Move(c, from, to)
  PROVE  /\ Quiet /\ strategy' = strategy
         /\ call[c].at = from /\ call'[c].at = to
         /\ \A d \in Caller : d # c => call'[d] = call[d]
<1>1. /\ CallsShaped /\ Shaped(c) /\ call' = [call EXCEPT ![c].at = to]
      /\ UNCHANGED <<strategy, failures, recent, grants>> /\ call[c].at = from
  BY DEF Move, SuperInv, CallsShaped
<1>2. /\ \A d \in Caller : d # c => call'[d] = call[d]
      /\ call'[c].at = to /\ CallsShaped'
  BY <1>1 DEF CallsShaped, Shaped
<1> QED
  BY <1>1, <1>2 DEF Quiet

LEMMA FreshCall ==
  ASSUME NEW i
  PROVE  [NoCall EXCEPT !.at = "calling", !.id = i]
           = [at |-> "calling", id |-> i, tries |-> 0, seen |-> 0, error |-> "none"]
<1>1. [NoCall EXCEPT !.at = "calling"]
        = [at |-> "calling", id |-> NoId, tries |-> 0, seen |-> 0, error |-> "none"]
  BY DEF NoCall
<1>2. [NoCall EXCEPT !.at = "calling", !.id = i]
        = [[NoCall EXCEPT !.at = "calling"] EXCEPT !.id = i]
  OBVIOUS
<1>3. [[at |-> "calling", id |-> NoId, tries |-> 0, seen |-> 0, error |-> "none"] EXCEPT !.id = i]
        = [at |-> "calling", id |-> i, tries |-> 0, seen |-> 0, error |-> "none"]
  OBVIOUS
<1> QED
  BY <1>1, <1>2, <1>3

LEMMA BeginQuiet ==
  ASSUME SuperInv, NEW c \in Caller, NEW i, Begin(c, i)
  PROVE  /\ Quiet /\ strategy' = strategy
         /\ call[c].at = "free" /\ call'[c].at = "calling"
         /\ \A d \in Caller : d # c => call'[d] = call[d]
<1>0. CallsShaped /\ UNCHANGED <<strategy, failures, recent, grants>> /\ call[c].at = "free"
  BY DEF Begin, SuperInv
<1>1. call' = [call EXCEPT ![c] = [at |-> "calling", id |-> i, tries |-> 0, seen |-> 0,
                                   error |-> "none"]]
  <2>1. [NoCall EXCEPT !.at = "calling", !.id = i]
          = [at |-> "calling", id |-> i, tries |-> 0, seen |-> 0, error |-> "none"]
    BY FreshCall
  <2>2. call' = [call EXCEPT ![c] = [NoCall EXCEPT !.at = "calling", !.id = i]]
    BY DEF Begin
  <2> QED
    BY <2>1, <2>2
<1>2. /\ \A d \in Caller : d # c => call'[d] = call[d]
      /\ call'[c].at = "calling" /\ CallsShaped'
  BY <1>0, <1>1 DEF CallsShaped, Shaped
<1> QED
  BY <1>0, <1>1, <1>2 DEF Quiet

LEMMA ResetQuiet ==
  ASSUME SuperInv, NEW c \in Caller, Reset(c)
  PROVE  /\ Quiet /\ strategy' = strategy
         /\ call'[c].at = "free"
         /\ \A d \in Caller : d # c => call'[d] = call[d]
<1>1. /\ CallsShaped /\ UNCHANGED <<strategy, failures, recent, grants>>
      /\ call' = [call EXCEPT ![c] = [at |-> "free", id |-> NoId, tries |-> 0, seen |-> 0,
                                      error |-> "none"]]
  BY DEF Reset, NoCall, SuperInv
<1>2. /\ \A d \in Caller : d # c => call'[d] = call[d]
      /\ call'[c].at = "free" /\ CallsShaped'
  BY <1>1 DEF CallsShaped, Shaped
<1> QED
  BY <1>1, <1>2 DEF Quiet

LEMMA RetryQuiet ==
  ASSUME SuperInv, NEW c \in Caller, Retry(c)
  PROVE  /\ Quiet /\ strategy' = strategy
         /\ call[c].at = "granted" /\ call'[c].at = "calling"
         /\ \A d \in Caller : d # c => call'[d] = call[d]
<1>1. /\ CallsShaped /\ Shaped(c) /\ UNCHANGED <<strategy, failures, recent, grants>>
      /\ call[c].at = "granted"
      /\ call' = [call EXCEPT ![c].at = "calling", ![c].tries = @ + 1]
  BY DEF Retry, SuperInv, CallsShaped
<1>2. /\ \A d \in Caller : d # c => call'[d] = call[d]
      /\ call'[c].at = "calling" /\ CallsShaped'
  BY <1>1 DEF CallsShaped, Shaped
<1> QED
  BY <1>1, <1>2 DEF Quiet

LEMMA CancelQuiet ==
  ASSUME SuperInv, NEW c \in Caller, Cancel(c)
  PROVE  /\ Quiet /\ strategy' = strategy
         /\ call[c].at \in Active /\ call'[c].at = "cancelled"
         /\ \A d \in Caller : d # c => call'[d] = call[d]
<1>1. PICK l \in Active : Move(c, l, "cancelled")
  BY DEF Cancel
<1> QED
  BY <1>1, MoveQuiet

\* What a failure and its judgement do to the calls.
LEMMA RaiseMoves ==
  ASSUME SuperInv, NEW c \in Caller, NEW e \in Error, Raise(c, e)
  PROVE  /\ call[c].at \in {"calling", "answered"} /\ call'[c].at \in {"refused", "judged"}
         /\ \A d \in Caller : d # c => call'[d] = call[d]
<1>1. CallsShaped /\ Shaped(c) /\ call[c].at \in {"calling", "answered"}
  BY DEF Raise, SuperInv, CallsShaped
<1>2. PICK l \in {"refused", "judged"} :
        \/ call' = [call EXCEPT ![c].at = l, ![c].error = e]
        \/ \E n : call' = [call EXCEPT ![c].at = l, ![c].error = e, ![c].seen = n]
  <2>1. CASE strategy = "none"
    BY <2>1 DEF Raise
  <2>2. CASE strategy # "none"
    <3>1. PICK n : n = failures[call[c].id] + 1
      OBVIOUS
    <3>2. CASE total + 1 >= FlowBreaker
      BY <2>2, <3>1, <3>2 DEF Raise
    <3>3. CASE ~(total + 1 >= FlowBreaker)
      BY <2>2, <3>1, <3>3 DEF Raise
    <3> QED
      BY <3>2, <3>3
  <2> QED
    BY <2>1, <2>2
<1> QED
  BY <1>1, <1>2 DEF CallsShaped, Shaped

LEMMA JudgeMoves ==
  ASSUME SuperInv, NEW c \in Caller, NEW honoured, Judge(c, honoured)
  PROVE  /\ call[c].at = "judged" /\ call'[c].at \in {"granted", "refused"}
         /\ \A d \in Caller : d # c => call'[d] = call[d]
<1>1. CallsShaped /\ Shaped(c) /\ call[c].at = "judged"
  BY DEF Judge, SuperInv, CallsShaped
<1>2. PICK l \in {"granted", "refused"} : call' = [call EXCEPT ![c].at = l]
  BY DEF Judge
<1> QED
  BY <1>1, <1>2 DEF CallsShaped, Shaped

LEMMA BranchesQuiet == SuperInv /\ StartBranches => Quiet
<1> SUFFICES ASSUME SuperInv, StartBranches PROVE Quiet
  OBVIOUS
<1>1. UNCHANGED <<failures, recent, grants>>
  BY DEF StartBranches
<1>2. /\ DOMAIN call' = Step
      /\ \A s \in Step : call'[s] = IF s \in pass THEN [NoCall EXCEPT !.at = "done"]
                                    ELSE [NoCall EXCEPT !.at = "calling", !.id = name[s]]
  BY DEF StartBranches
<1>3. ASSUME NEW s \in Step PROVE Shaped(s)' /\ call'[s].at \in {"done", "calling"}
  <2>1. [NoCall EXCEPT !.at = "done"]
          = [at |-> "done", id |-> NoId, tries |-> 0, seen |-> 0, error |-> "none"]
    BY DEF NoCall
  <2>2. [NoCall EXCEPT !.at = "calling", !.id = name[s]]
          = [at |-> "calling", id |-> name[s], tries |-> 0, seen |-> 0, error |-> "none"]
    BY FreshCall
  <2>3. CASE s \in pass
    BY <1>2, <2>1, <2>3 DEF Shaped
  <2>4. CASE s \notin pass
    BY <1>2, <2>2, <2>4 DEF Shaped
  <2> QED
    BY <2>3, <2>4
<1> QED
  BY <1>1, <1>2, <1>3, Callers DEF Quiet, CallsShaped

LEMMA WorkSupervised == SuperInv /\ WorkNext => SuperStep
<1> SUFFICES ASSUME SuperInv, WorkNext PROVE SuperStep
  OBVIOUS
<1>1. CASE StartSequence \/ LoadFails \/ HaltBranches \/ StepsOver \/ StepsFail \/ Synthesize
  BY <1>1 DEF StartSequence, LoadFails, HaltBranches, StepsOver, StepsFail, Synthesize, SuperStep
<1>2. CASE StartBranches
  BY <1>2, BranchesQuiet DEF SuperStep
<1>3. ASSUME NEW s \in Step, SequenceStep(s) PROVE SuperStep
  <2>1. s \in Caller
    BY Callers
  <2>2. CASE PassThrough(s)
    BY <2>2 DEF PassThrough, SuperStep
  <2>3. CASE EnterStep(s)
    BY <2>1, <2>3, BeginQuiet DEF EnterStep, SuperStep
  <2>4. CASE StepAnswers(s)
    BY <2>1, <2>4, MoveQuiet DEF StepAnswers, Answer, SuperStep
  <2>5. CASE KeepStep(s)
    BY <2>1, <2>5, MoveQuiet DEF KeepStep, Settle, SuperStep
  <2>6. CASE StepFails(s)
    BY <2>1, <2>6 DEF StepFails, SuperStep
  <2>7. CASE JudgeStep(s)
    BY <2>1, <2>7 DEF JudgeStep, SuperStep
  <2>8. CASE RetryStep(s)
    BY <2>1, <2>8, RetryQuiet, MoveQuiet DEF RetryStep, SuperStep
  <2> QED
    BY <1>3, <2>2, <2>3, <2>4, <2>5, <2>6, <2>7, <2>8 DEF SequenceStep
<1>4. ASSUME NEW s \in Step, BranchStep(s) PROVE SuperStep
  <2>1. s \in Caller
    BY Callers
  <2>2. CASE BranchAnswers(s)
    BY <2>1, <2>2, MoveQuiet DEF BranchAnswers, SuperStep
  <2>3. CASE BranchFails(s)
    BY <2>1, <2>3 DEF BranchFails, SuperStep
  <2>4. CASE BranchRetries(s)
    BY <2>1, <2>4, RetryQuiet DEF BranchRetries, SuperStep
  <2>5. CASE BranchCancelled(s)
    BY <2>1, <2>5, CancelQuiet DEF BranchCancelled, SuperStep
  <2> QED
    BY <1>4, <2>2, <2>3, <2>4, <2>5 DEF BranchStep
<1> QED
  BY <1>1, <1>2, <1>3, <1>4 DEF WorkNext

LEMMA TalkSupervised == SuperInv /\ TalkNext => SuperStep
<1> SUFFICES ASSUME SuperInv, TalkNext PROVE SuperStep
  OBVIOUS
<1>1. CASE \/ StartDeliberation \/ ReviewsBegin \/ SkipReview \/ TalkRefused \/ ReviewsOver
           \/ Consolidate \/ ProduceDocument \/ LeaderFails
  BY <1>1 DEF StartDeliberation, ReviewsBegin, SkipReview, TalkRefused, ReviewsOver, Consolidate,
              ProduceDocument, LeaderFails, SuperStep
<1>2. CASE AskContribution \/ AskReview
  BY <1>2, Callers, BeginQuiet DEF AskContribution, AskReview, SuperStep
<1>3. CASE Contribute \/ Review
  BY <1>3, Callers, ResetQuiet DEF Contribute, Review, SuperStep
<1>4. CASE TalkFails
  BY <1>4, Callers DEF TalkFails, SuperStep
<1>5. CASE TalkMisread
  BY <1>5, Callers DEF TalkMisread, Misreading, Error, SuperStep
<1>6. CASE JudgeTalk
  BY <1>6, Callers DEF JudgeTalk, SuperStep
<1>7. CASE RetryTalk
  BY <1>7, Callers, RetryQuiet DEF RetryTalk, SuperStep
<1> QED
  BY <1>1, <1>2, <1>3, <1>4, <1>5, <1>6, <1>7 DEF TalkNext

LEMMA LoopSupervised == SuperInv /\ LoopNext => SuperStep
<1> SUFFICES ASSUME SuperInv, LoopNext PROVE SuperStep
  OBVIOUS
<1>1. CASE StartLoop \/ TurnsOver \/ RouteMisread \/ RouteEnds \/ ReplyRefused
  BY <1>1 DEF StartLoop, TurnsOver, RouteMisread, RouteEnds, ReplyRefused, SuperStep
<1>2. CASE Route
  BY <1>2, Callers, BeginQuiet DEF Route, SuperStep
<1>3. CASE LoopTimesOut
  BY <1>3, Callers, CancelQuiet DEF LoopTimesOut, SuperStep
<1>4. CASE Reply \/ ReplyMissing
  BY <1>4, Callers, ResetQuiet DEF Reply, ReplyMissing, SuperStep
<1>5. CASE ReplyFails
  BY <1>5, Callers DEF ReplyFails, SuperStep
<1>6. CASE JudgeReply
  BY <1>6, Callers DEF JudgeReply, SuperStep
<1>7. CASE RetryReply
  BY <1>7, Callers, RetryQuiet DEF RetryReply, SuperStep
<1> QED
  BY <1>1, <1>2, <1>3, <1>4, <1>5, <1>6, <1>7 DEF LoopNext

LEMMA FanCalls == FanNext => UNCHANGED superVars
BY DEF FanNext, StartTeam, Spawn, CancelTeam, TeamCancelled, TeamFails, LeadTurn, LeadReturns,
       MateStep, TakeSlot, Deliver, Disappoint, ReportDone, LamentDone, Dropped

LEMMA PipeCalls == PipeNext => UNCHANGED superVars
BY DEF PipeNext, PipeRuns, OpenRun, AnnounceRun, Submit, Heed, ExpireWait, AutoDeny, Decide,
       ConsultChain, PipelineReturns, PipelineRaises, PipelineTimesOut, Book, SaveResult,
       PublishVerdict, Resolve, CancelPipeline

LEMMA Supervised == SuperInv /\ Next => SuperStep
<1> SUFFICES ASSUME SuperInv, Next PROVE SuperStep
  OBVIOUS
<1>1. CASE Runs
  <2>1. CASE Open \/ Invalid \/ Close \/ BranchesCancelled
    BY <2>1 DEF Open, Invalid, Close, BranchesCancelled, SuperStep
  <2> QED
    BY <1>1, <2>1, WorkSupervised, TalkSupervised, LoopSupervised, FanCalls, PipeCalls
       DEF Runs, SuperStep
<1>2. CASE CancelFlow
  BY <1>2, CancelQuiet DEF CancelFlow, SuperStep
<1>3. CASE CancelBranches
  BY <1>3 DEF CancelBranches, SuperStep
<1>4. CASE Restore
  BY <1>4 DEF Restore, SuperStep
<1>5. CASE SlideAny
  BY <1>5 DEF SlideAny, SuperStep
<1> QED
  BY <1>1, <1>2, <1>3, <1>4, <1>5 DEF Next

LEMMA SuperSafe == Spec => []SuperInv
<1>1. FlowInit => SuperInv
  BY SuperStart DEF FlowInit
<1>2. SuperInv /\ [Next]_vars => SuperInv'
  <2>1. SuperInv /\ UNCHANGED vars => SuperInv'
    BY SuperKeeps DEF vars, SuperStep
  <2> QED
    BY <2>1, Supervised, SuperKeeps
<1> QED
  BY <1>1, <1>2, PTL DEF Spec

\* However failures of a step spread over branches, repetitions and expired
\* windows (FlowSupervisor, StepSupervisor), its restarts stay below the
\* threshold of its breaker, and within max_restarts in one window.
THEOREM RestartsAreBounded == Spec => []RestartsBounded
<1>1. SuperInv => RestartsBounded
  <2> SUFFICES ASSUME SuperInv, NEW i \in Id PROVE grants[i] < Breaker /\ recent[i] <= MaxRestarts
    BY DEF RestartsBounded
  <2>1. Counted(i) /\ grants[i] \in Nat
    BY DEF SuperInv
  <2>2. Cardinality(Pending(i)) \in Nat
    BY PendingFinite
  <2> QED
    BY <2>1, <2>2, LimitAssumption DEF Counted
<1> QED
  BY <1>1, SuperSafe, PTL

-----------------------------------------------------------------------------
(* What the modes leave alone.                                               *)

PipelinePhase == {"starting", "gate", "waiting", "expired", "decided", "chain", "execute", "book",
                  "checkpoint", "publish"}
Ends == phase \in {"end", "over"}

\* Coordinations have no result before they end.
PhaseFits ==
  /\ mode \in Mode
  /\ mode # "pipeline" /\ ~Ends => result = "none"
  /\ \/ phase \in {"opening", "over"}
     \/ mode = "pipeline" /\ phase \in PipelinePhase
     \/ mode # "pipeline" /\ phase \in {"begin", "end"}
     \/ mode \in Workflow /\ phase \in {"steps", "synthesis"}
     \/ mode = "deliberation" /\ phase \in {"contribute", "review", "consolidate", "document"}
     \/ mode = "loop" /\ phase \in {"route", "reply"}
     \/ mode = "team" /\ phase \in {"spawn", "lead"}

AllFree == \A c \in Caller : call[c].at = "free"
NoneActive == \A c \in Caller : call[c].at \notin Active

-----------------------------------------------------------------------------
(* Sequences.  The state at hand and the saved one have every step before    *)
(* their index, none behind it, and the step of the index only if a save     *)
(* went wrong or is yet to come.                                             *)

Covers(state, index) ==
  /\ \A s \in Step \ pass : s < index => s \in Range(state)
  /\ \A s \in Range(state) : s <= index

SeqKept ==
  /\ pass \subseteq Step /\ lapses \in Nat
  /\ saved.state \in Seq(Step) /\ saved.index \in 1..(N + 1)
  /\ Covers(saved.state, saved.index)
  /\ saved.index \in Range(saved.state) => lapses > 0

SeqCalls ==
  /\ \A s \in pass : call[s].at = "free"
  /\ \A c \in Caller : c # cursor => call[c].at \in {"free", "done"}
  /\ phase \in {"opening", "begin"} => AllFree
  /\ Ends => NoneActive

Answered == cursor \in Caller /\ call[cursor].at = "answered"

SeqWork ==
  /\ IsPrefix(saved.state, chain)
  /\ Covers(chain, cursor)
  /\ Answered => cursor \in Range(chain)
  /\ cursor \in Range(chain) => Answered \/ lapses > 0

SeqInv ==
  mode = "sequence" =>
    /\ cursor \in 1..(N + 1) /\ chain \in Seq(Step)
    /\ SeqKept /\ SeqCalls
    /\ phase \in {"opening", "begin"} => chain = <<>>
    /\ phase = "synthesis" \/ result = "finished" => cursor = N + 1
    /\ phase \in {"steps", "synthesis"} \/ result = "finished" => SeqWork

-----------------------------------------------------------------------------
(* Branches, deliberations, loops and teams.                                 *)

BranchInv ==
  mode = "fan-out" =>
    /\ phase \in {"opening", "begin"} => AllFree
    /\ phase = "synthesis" \/ result = "finished" => \A c \in Caller : call[c].at = "done"
    /\ Ends => NoneActive

\* The reviews there are before <<who, about>>.
Before(i, j, w, a) == i < w \/ (i = w /\ j < a)
Reviewed == {pair \in Step \X Step : pair[1] # pair[2] /\ Before(pair[1], pair[2], who, about)}

Contributed(n) == Len(contributions) = n /\ \A i \in 1..n : contributions[i] = i

\* The calls of a deliberation are made one after the other.
TalkCalls ==
  /\ phase \in {"opening", "begin", "consolidate", "document"} => AllFree
  /\ phase \in {"contribute", "review"} =>
       /\ \A c \in Caller : c # Main => call[c].at = "free"
       /\ call[Main].at # "free" => who <= N
  /\ Ends => NoneActive

\* What has been said, unless something may be skipped.
TalkSaid ==
  /\ phase = "contribute" => Contributed(who - 1) /\ reviews = {}
  /\ phase = "review" => /\ Contributed(N) /\ reviews = Reviewed /\ about \in 1..N
                         /\ who > N => about = 1
                         /\ call[Main].at # "free" => about # who
  /\ phase \in {"consolidate", "document"} =>
       Contributed(N) /\ reviews = {pair \in Step \X Step : pair[1] # pair[2]}

TalkInv ==
  mode = "deliberation" =>
    /\ who \in 1..(N + 1) /\ about \in Nat \ {0}
    /\ contributions \in Seq(Step)
    /\ TalkCalls
    /\ phase = "document" \/ result = "finished" => sufficient \/ round = MaxRounds
    /\ phase \in {"opening", "begin"} => who = 1 /\ contributions = <<>> /\ reviews = {}
    /\ onTimeout = "abort" => TalkSaid

LoopInv ==
  mode = "loop" =>
    /\ phase \in {"opening", "begin", "route"} => AllFree
    /\ phase = "reply" => \A c \in Caller : c # Main => call[c].at = "free"
    /\ Ends => NoneActive

Missing(t) == contribution[t] \notin {"finished", "failed"}

\* A teammate that was cut short is in a cancelled group; one that aborts the
\* team has left its failure behind.
Crew ==
  /\ failurePolicy \in {"isolate", "abort_team"}
  /\ spawned \in 0..N
  /\ DOMAIN mate = Step /\ DOMAIN contribution = Step
  /\ \A t \in Step :
       /\ mate[t] \in {"unborn", "waits", "works", "reports", "laments", "mourns"} \cup Gone
       /\ mate[t] = "unborn" <=> t > spawned
       /\ mate[t] \in {"mourns", "dropped"} => group # {}
       /\ mate[t] = "laments" => contribution[t] = "failed"
       /\ mate[t] \in {"reports", "left"} => ~Missing(t)
  /\ group \subseteq {"abort", "outside"}
  /\ "abort" \in group => /\ failurePolicy = "abort_team"
                          /\ \E t \in Step : mate[t] = "left" /\ contribution[t] = "failed"

TeamInv ==
  /\ mode # "team" => \A t \in Step : mate[t] = "unborn"
  /\ mode = "team" =>
       /\ Crew
       /\ phase \in {"opening", "begin"} => spawned = 0
       /\ phase = "lead" => LeadInformed
       /\ result = "finished" => \A t \in Step : mate[t] = "left"
       /\ phase \in {"lead", "end", "over"} => \A t \in Step : mate[t] \in Gone \cup {"unborn"}

-----------------------------------------------------------------------------
(* Pipelines.                                                                *)

Told == {"RUN_STARTED", "RUN_CANCELLED", "APPROVAL_GRANTED", "APPROVAL_DENIED",
         "RUN_FINISHED", "RUN_FAILED", "RUN_TIMED_OUT"}
BeforeVerdict == {"opening", "starting", "gate", "waiting", "expired", "decided"}
NoVerdictYet == \A i \in DOMAIN log : \A r \in DOMAIN EndEvents : log[i] # EndEvents[r]
Unbooked == {"starting", "gate", "waiting", "expired", "decided", "chain", "execute"}

GateInv ==
  /\ told \in {"none"} \cup Decision /\ heeded \in {"none"} \cup Decision
  /\ told # "none" => handle = told
  /\ heeded # "none" => heeded = handle
  /\ mode # "pipeline" => handle = "none" /\ attempts = 0
  /\ mode = "pipeline" =>
       /\ phase \in {"opening", "starting", "gate"} => handle = "none"
       /\ phase \in {"waiting", "expired"} => handle \in {"pending"} \cup Decision
       /\ phase = "decided" => heeded \in Decision
       /\ phase \in BeforeVerdict => attempts = 0
       /\ gated /\ (phase \in {"chain", "execute"} \/ attempts > 0) => handle = "approved"

BookInv ==
  mode = "pipeline" =>
    /\ log \in Seq(Told)
    /\ phase = "book" => result \in Result
    /\ phase = "checkpoint" => result = "finished" /\ (storing => stored = result)
    /\ phase = "publish" => result \in DOMAIN Verdicts /\ (storing => stored = result)
    /\ phase # "over" => NoVerdictYet
    /\ EventFollowsStore

\* The record says "started" until an outcome is booked, and "cancelled" only of
\* a run that the gate denied.
RecordInv ==
  mode = "pipeline" =>
    /\ phase \in Unbooked /\ storing => stored = "started"
    /\ phase = "book" /\ result = "cancelled" => heeded = "denied" /\ attempts = 0
    /\ stored = "cancelled" => phase = "over" /\ heeded = "denied" /\ attempts = 0

\* Pipelines and teams make no supervised calls.
FreeInv == mode \in {"pipeline", "team"} => AllFree

FlowInv ==
  /\ SuperInv /\ PhaseFits
  /\ SeqInv /\ BranchInv /\ TalkInv /\ LoopInv /\ TeamInv /\ FreeInv
  /\ GateInv /\ BookInv /\ RecordInv

-----------------------------------------------------------------------------
(* Each action belongs to a mode.                                            *)

LEMMA WorkMode ==
  ASSUME PhaseFits, WorkNext
  PROVE  /\ mode \in Workflow /\ phase \in {"begin", "steps", "synthesis"}
         /\ mode' = mode
         /\ \/ phase' \in {"steps", "synthesis"} /\ result' = result
            \/ phase' = "end"
<1>1. CASE StartSequence \/ LoadFails \/ StartBranches \/ HaltBranches \/ StepsOver
  BY <1>1 DEF StartSequence, LoadFails, StartBranches, HaltBranches, StepsOver, PhaseFits, Announce,
              Conclude, Proceed, AtBranch, Workflow, Mode, flowVars
<1>2. CASE StepsFail \/ Synthesize
  BY <1>2 DEF StepsFail, Synthesize, Verdict, Conclude, PhaseFits, PipelinePhase, Workflow, Mode
<1>3. ASSUME NEW s \in Step, SequenceStep(s)
      PROVE  /\ mode \in Workflow /\ phase = "steps" /\ mode' = mode
             /\ UNCHANGED <<phase, result>> \/ phase' = "end"
  <2>1. mode \in Workflow /\ phase = "steps"
    BY <1>3 DEF SequenceStep, PassThrough, EnterStep, StepAnswers, KeepStep, StepFails, JudgeStep,
                RetryStep, AtStep, Workflow
  <2>2. mode' = mode /\ (UNCHANGED <<phase, result>> \/ phase' = "end")
    BY <1>3 DEF SequenceStep, PassThrough, EnterStep, StepAnswers, KeepStep, StepFails, JudgeStep,
                RetryStep, Conclude, flowVars
  <2> QED
    BY <2>1, <2>2
<1>4. ASSUME NEW s \in Step, BranchStep(s)
      PROVE  mode \in Workflow /\ phase = "steps" /\ UNCHANGED <<mode, phase, result>>
  BY <1>4 DEF BranchStep, BranchAnswers, BranchFails, BranchRetries, BranchCancelled, AtBranch,
              Workflow, PipelinePhase, flowVars
<1> QED
  BY <1>1, <1>2, <1>3, <1>4 DEF WorkNext

LEMMA TalkMode ==
  ASSUME PhaseFits, TalkNext
  PROVE  /\ mode = "deliberation" /\ mode' = mode
         /\ phase \in {"begin", "contribute", "review", "consolidate", "document"}
         /\ \/ phase' \in {"contribute", "review", "consolidate", "document"} /\ result' = result
            \/ phase' = "end"
<1>1. CASE StartDeliberation \/ AskContribution \/ Contribute \/ ReviewsBegin
  BY <1>1 DEF StartDeliberation, AskContribution, Contribute, ReviewsBegin, PhaseFits, Announce,
              Proceed, Workflow, PipelinePhase, flowVars
<1>2. CASE SkipReview \/ AskReview \/ Review \/ ReviewsOver
  BY <1>2 DEF SkipReview, AskReview, Review, ReviewsOver, Reviewing, PhaseFits, Proceed, Workflow,
              PipelinePhase, flowVars
<1>3. CASE TalkFails \/ TalkMisread \/ JudgeTalk \/ RetryTalk \/ TalkRefused
  BY <1>3 DEF TalkFails, TalkMisread, JudgeTalk, RetryTalk, TalkRefused, Talking, Conclude, flowVars
<1>4. CASE Consolidate \/ ProduceDocument \/ LeaderFails
  BY <1>4 DEF Consolidate, Consolidated, ProduceDocument, LeaderFails, PhaseFits, Proceed, Conclude,
              PipelinePhase, Workflow
<1> QED
  BY <1>1, <1>2, <1>3, <1>4 DEF TalkNext

LEMMA LoopMode ==
  ASSUME PhaseFits, LoopNext
  PROVE  /\ mode = "loop" /\ mode' = mode /\ phase \in {"begin", "route", "reply"}
         /\ \/ phase' \in {"route", "reply"} /\ result' = result
            \/ phase' = "end"
<1>1. CASE StartLoop \/ TurnsOver \/ Route \/ RouteMisread \/ RouteEnds \/ LoopTimesOut
  BY <1>1 DEF StartLoop, TurnsOver, Route, RouteMisread, RouteEnds, LoopTimesOut, PhaseFits,
              Announce, Stop, Crumble, TimeOut, Proceed, Conclude, PipelinePhase, Workflow
<1>2. CASE Reply \/ ReplyMissing \/ ReplyFails \/ JudgeReply \/ RetryReply \/ ReplyRefused
  BY <1>2 DEF Reply, ReplyMissing, ReplyFails, JudgeReply, RetryReply, ReplyRefused, PhaseFits,
              Crumble, TimeOut, Proceed, PipelinePhase, Workflow, PipelinePhase, flowVars
<1> QED
  BY <1>1, <1>2 DEF LoopNext

LEMMA FanMode ==
  ASSUME PhaseFits, FanNext
  PROVE  \/ UNCHANGED flowVars /\ \E t \in Step : MateStep(t)
         \/ /\ mode = "team" /\ mode' = mode /\ phase \in {"begin", "spawn", "lead"}
            /\ ~\E t \in Step : MateStep(t)
            /\ \/ phase' \in {"spawn", "lead"} /\ result' = result
               \/ phase' \in {"end", "over"}
<1>1. CASE \E t \in Step : MateStep(t)
  BY <1>1 DEF MateStep, TakeSlot, Deliver, Disappoint, ReportDone, LamentDone, Dropped
<1>2. CASE StartTeam \/ Spawn \/ CancelTeam
  BY <1>1, <1>2 DEF StartTeam, Spawn, CancelTeam, PhaseFits, Announce, Workflow, PipelinePhase,
                    flowVars
<1>3. CASE TeamCancelled \/ TeamFails \/ LeadTurn \/ LeadReturns
  BY <1>1, <1>3 DEF TeamCancelled, TeamFails, LeadTurn, LeadReturns, Together, PhaseFits, Conclude,
                    Proceed, PipelinePhase, Workflow
<1> QED
  BY <1>1, <1>2, <1>3 DEF FanNext

LEMMA PipeMode ==
  ASSUME PipeNext
  PROVE  \/ UNCHANGED flowVars /\ Resolve
         \/ /\ mode = "pipeline" /\ mode' = mode
            /\ phase' \in PipelinePhase \cup {"over"}
<1>1. CASE Resolve
  BY <1>1 DEF Resolve
<1>2. CASE OpenRun \/ AnnounceRun \/ Submit \/ Heed \/ ExpireWait \/ AutoDeny \/ Decide
  BY <1>2 DEF OpenRun, AnnounceRun, Submit, Heed, ExpireWait, AutoDeny, Decide, At, Escape, Proceed,
              Say, PipelinePhase
<1>3. CASE \/ ConsultChain \/ PipelineReturns \/ PipelineRaises \/ PipelineTimesOut \/ Book
           \/ SaveResult \/ PublishVerdict
  BY <1>3 DEF ConsultChain, PipelineReturns, PipelineRaises, PipelineTimesOut, Book, SaveResult,
              PublishVerdict, Outcome, At, Escape, Proceed, Say, PipelinePhase, flowVars
<1>4. CASE CancelPipeline
  BY <1>4 DEF CancelPipeline, At, Escape, Proceed, Say
<1> QED
  BY <1>1, <1>2, <1>3, <1>4 DEF PipeNext, PipeRuns

LEMMA ModeStays == PhaseFits /\ [Next]_vars => mode' = mode
<1>1. PhaseFits /\ Runs => mode' = mode
  BY WorkMode, TalkMode, LoopMode, FanMode, PipeMode
     DEF Runs, Open, Invalid, Close, BranchesCancelled, Proceed, Say, flowVars
<1> QED
  BY <1>1 DEF Next, CancelFlow, CancelBranches, Restore, SlideAny, Proceed, flowVars, vars

LEMMA PhasesKeep == PhaseFits /\ [Next]_vars => PhaseFits'
<1> SUFFICES ASSUME PhaseFits, [Next]_vars PROVE PhaseFits'
  OBVIOUS
<1>1. CASE Runs
  <2>1. CASE WorkNext
    BY <2>1, WorkMode DEF PhaseFits, Ends, Workflow
  <2>2. CASE TalkNext
    BY <2>2, TalkMode DEF PhaseFits, Ends, Workflow
  <2>3. CASE LoopNext
    BY <2>3, LoopMode DEF PhaseFits, Ends, Workflow
  <2>4. CASE FanNext
    BY <2>4, FanMode DEF PhaseFits, Ends, Workflow, flowVars
  <2>5. CASE PipeNext
    BY <2>5, PipeMode DEF PhaseFits, Ends, Workflow, flowVars
  <2>6. CASE Open \/ Invalid \/ Close
    BY <2>6 DEF Open, Invalid, Close, Coordinated, Proceed, Say, PhaseFits, Ends, PipelinePhase,
                Workflow
  <2>7. CASE BranchesCancelled
    BY <2>7 DEF BranchesCancelled, AtBranch, Proceed, PhaseFits, Ends
  <2> QED
    BY <1>1, <2>1, <2>2, <2>3, <2>4, <2>5, <2>6, <2>7 DEF Runs
<1>2. CASE CancelFlow
  BY <1>2 DEF CancelFlow, Coordinated, Proceed, PhaseFits, Ends
<1>3. CASE CancelBranches
  BY <1>3 DEF CancelBranches, PhaseFits, Ends, flowVars
<1>4. CASE Restore
  BY <1>4 DEF Restore, PhaseFits, Ends
<1>5. CASE SlideAny
  BY <1>5 DEF SlideAny, PhaseFits, Ends, flowVars
<1>6. CASE UNCHANGED vars
  BY <1>6 DEF vars, PhaseFits, Ends, flowVars
<1> QED
  BY <1>1, <1>2, <1>3, <1>4, <1>5, <1>6 DEF Next

-----------------------------------------------------------------------------
(* What the steps of other modes and the life cycle do to a run of a mode.   *)

\* What a run of no team, and no deliberation, sees of its steps.
LEMMA PipelineMoves ==
  ASSUME PhaseFits, mode = "pipeline", [Next]_vars
  PROVE  \/ PipeNext
         \/ UNCHANGED <<flowVars, pipeVars>>
<1>1. CASE Runs
  <2>1. ~(WorkNext \/ TalkNext \/ LoopNext)
    BY WorkMode, TalkMode, LoopMode DEF Workflow
  <2>2. ~(Open \/ Invalid \/ Close \/ BranchesCancelled)
    BY DEF Open, Invalid, Close, BranchesCancelled, Coordinated, AtBranch, PhaseFits, PipelinePhase,
           Workflow
  <2> QED
    BY <1>1, <2>1, <2>2, FanMode DEF Runs
<1>2. ~(CancelFlow \/ Restore)
  BY DEF CancelFlow, Restore, Coordinated
<1> QED
  BY <1>1, <1>2 DEF Next, CancelBranches, SlideAny, vars

\* Decided is decided: what the handle says, the one who resolved it was told.
LEMMA GateStep ==
  ASSUME GateInv, PhaseFits, mode = "pipeline", PipeNext
  PROVE  GateInv'
<1> USE DEF GateInv
<1>0. mode' = mode
  BY PipeMode DEF flowVars
<1>1. CASE Resolve
  BY <1>0, <1>1 DEF Resolve, Decision, flowVars
<1>2. CASE OpenRun
  BY <1>0, <1>2 DEF OpenRun, At, Proceed, Escape, gateVars, BeforeVerdict
<1>3. CASE AnnounceRun
  BY <1>0, <1>3 DEF AnnounceRun, At, Say, gateVars, pipeVars, BeforeVerdict
<1>4. CASE Submit
  <2>1. CASE handle' \in {"pending"} \cup Decision /\ Proceed("waiting")
    BY <1>0, <1>4, <2>1 DEF Submit, At, Proceed, Decision, BeforeVerdict
  <2>2. CASE UNCHANGED handle /\ Escape
    BY <1>0, <1>4, <2>2 DEF Submit, At, Proceed, Escape, Decision, BeforeVerdict
  <2> QED
    BY <1>4, <2>1, <2>2 DEF Submit
<1>5. CASE Heed
  BY <1>0, <1>5 DEF Heed, At, Proceed, Decision, BeforeVerdict
<1>6. CASE ExpireWait
  BY <1>0, <1>6 DEF ExpireWait, At, Proceed, gateVars, pipeVars, Decision, BeforeVerdict
<1>7. CASE AutoDeny
  BY <1>0, <1>7 DEF AutoDeny, At, Proceed, Decision, BeforeVerdict
<1>8. CASE Decide
  BY <1>0, <1>8 DEF Decide, At, Say, gateVars, pipeVars, Decision, BeforeVerdict
<1>9. CASE ConsultChain
  BY <1>0, <1>9 DEF ConsultChain, At, Proceed, Outcome, Escape, gateVars, BeforeVerdict
<1>10. CASE PipelineReturns \/ PipelineRaises \/ PipelineTimesOut
  BY <1>0, <1>10 DEF PipelineReturns, PipelineRaises, PipelineTimesOut, At, Outcome, gateVars,
                     pipeVars, flowVars, BeforeVerdict
<1>11. CASE Book \/ SaveResult \/ PublishVerdict
  BY <1>0, <1>11 DEF Book, SaveResult, PublishVerdict, At, Outcome, Proceed, Escape, Say, gateVars,
                     pipeVars, BeforeVerdict
<1>12. CASE CancelPipeline
  BY <1>0, <1>12 DEF CancelPipeline, At, Escape, Proceed, Say, gateVars, pipeVars, BeforeVerdict
<1> QED
  BY <1>1, <1>2, <1>3, <1>4, <1>5, <1>6, <1>7, <1>8, <1>9, <1>10, <1>11, <1>12
     DEF PipeNext, PipeRuns

LEMMA StillNoVerdict ==
  ASSUME log \in Seq(Told), NoVerdictYet,
         NEW e \in {"RUN_STARTED", "APPROVAL_GRANTED", "APPROVAL_DENIED"}, log' = Append(log, e)
  PROVE  log' \in Seq(Told) /\ NoVerdictYet'
<1>1. log' \in Seq(Told)
  BY DEF Told
<1>2. ASSUME NEW i \in DOMAIN log', NEW r \in DOMAIN EndEvents PROVE log'[i] # EndEvents[r]
  <2>1. (i \in DOMAIN log /\ log'[i] = log[i]) \/ log'[i] = e
    BY DEF Told
  <2>2. EndEvents[r] \in {"RUN_FINISHED", "RUN_FAILED", "RUN_TIMED_OUT", "RUN_CANCELLED"}
    BY DEF EndEvents
  <2> QED
    BY <2>1, <2>2 DEF NoVerdictYet
<1> QED
  BY <1>1, <1>2 DEF NoVerdictYet

\* What is recorded before the end, and of a denied run.
LEMMA RecordStep ==
  ASSUME RecordInv, GateInv, PhaseFits, mode = "pipeline", PipeNext
  PROVE  RecordInv'
<1> USE DEF RecordInv
<1>0. mode' = mode
  BY PipeMode DEF flowVars
<1>1. CASE Resolve
  BY <1>0, <1>1 DEF Resolve, flowVars
<1>2. CASE OpenRun \/ AnnounceRun \/ Submit \/ Heed \/ ExpireWait \/ AutoDeny
  BY <1>0, <1>2 DEF OpenRun, AnnounceRun, Submit, Heed, ExpireWait, AutoDeny, At, Proceed, Escape,
                    Say, gateVars, pipeVars, Unbooked
<1>3. CASE Decide
  BY <1>0, <1>3 DEF Decide, At, Say, gateVars, pipeVars, Unbooked, GateInv, Decision, BeforeVerdict
<1>4. CASE ConsultChain \/ PipelineReturns \/ PipelineRaises \/ PipelineTimesOut
  BY <1>0, <1>4 DEF ConsultChain, PipelineReturns, PipelineRaises, PipelineTimesOut, At, Outcome,
                    Proceed, Escape, gateVars, pipeVars, flowVars, Unbooked
<1>5. CASE Book
  BY <1>0, <1>5 DEF Book, At, Written, Proceed, Outcome, Escape, gateVars, Unbooked
<1>6. CASE SaveResult \/ PublishVerdict
  BY <1>0, <1>6 DEF SaveResult, PublishVerdict, At, Outcome, Proceed, Say, gateVars, pipeVars,
                    Unbooked
<1>7. CASE CancelPipeline
  BY <1>0, <1>7 DEF CancelPipeline, At, Escape, Proceed, Say, gateVars, pipeVars, Unbooked
<1> QED
  BY <1>1, <1>2, <1>3, <1>4, <1>5, <1>6, <1>7 DEF PipeNext, PipeRuns

\* While nothing is announced, only the phase and the result move.
LEMMA QuietBook ==
  ASSUME BookInv, mode = "pipeline", mode' = mode, log' = log, phase # "over",
         phase' = "book" => result' \in Result,
         phase' = "checkpoint" => result' = "finished" /\ (storing' => stored' = result'),
         phase' = "publish" => result' \in DOMAIN Verdicts /\ (storing' => stored' = result')
  PROVE  BookInv'
<1>1. log' \in Seq(Told) /\ NoVerdictYet'
  BY DEF BookInv, NoVerdictYet
<1>2. EventFollowsStore'
  BY <1>1 DEF NoVerdictYet, EventFollowsStore
<1> QED
  BY <1>1, <1>2 DEF BookInv

\* An end that is announced last, and fits the record.
LEMMA LastWord ==
  ASSUME log \in Seq(Told), NoVerdictYet, NEW r \in DOMAIN EndEvents,
         log' = Append(log, EndEvents[r]), phase' = "over", storing' => stored' = RecordAt(r)
  PROVE  log' \in Seq(Told) /\ EventFollowsStore'
<1>1. PICK e \in Told : e = EndEvents[r] /\ log' = Append(log, e)
  BY DEF EndEvents, Told
<1>2. log' \in Seq(Told)
  BY <1>1
<1>3. ASSUME NEW i \in DOMAIN log', NEW q \in DOMAIN EndEvents, log'[i] = EndEvents[q]
      PROVE  i = Len(log') /\ q = r
  <2>1. i \in 1..Len(log') /\ Len(log') = Len(log) + 1 /\ DOMAIN log = 1..Len(log)
    BY <1>1, <1>2, <1>3
  <2>2. /\ Len(log) \in Nat /\ log'[Len(log) + 1] = e
        /\ \A j \in 1..Len(log) : log'[j] = log[j]
    BY <1>1
  <2>3. i \in 1..Len(log) \/ i = Len(log) + 1
    BY <2>1, <2>2
  <2>4. i \notin 1..Len(log)
    BY <1>3, <2>1, <2>2 DEF NoVerdictYet
  <2>5. i = Len(log') /\ EndEvents[q] = EndEvents[r]
    BY <1>1, <1>3, <2>1, <2>2, <2>3, <2>4
  <2> QED
    BY <2>5 DEF EndEvents
<1> QED
  BY <1>2, <1>3 DEF EventFollowsStore

LEMMA BookStep ==
  ASSUME BookInv, RecordInv, PhaseFits, mode = "pipeline", PipeNext
  PROVE  BookInv'
<1>0. mode' = mode
  BY PipeMode DEF flowVars
<1>1. CASE Resolve
  BY <1>0, <1>1 DEF Resolve, flowVars, BookInv, EventFollowsStore, NoVerdictYet
<1>2. CASE OpenRun \/ Submit \/ Heed \/ ExpireWait \/ AutoDeny \/ ConsultChain
  <2>1. log' = log /\ phase # "over" /\ phase' \notin {"checkpoint", "publish"}
        /\ (phase' = "book" => result' = "failed")
    BY <1>2 DEF OpenRun, Submit, Heed, ExpireWait, AutoDeny, ConsultChain, At, Proceed, Escape,
                Outcome
  <2> QED
    BY <1>0, <2>1, QuietBook DEF Result
<1>3. CASE PipelineReturns \/ PipelineRaises \/ PipelineTimesOut
  <2>1. log' = log /\ phase = "execute" /\ phase' \in {"execute", "book"}
        /\ (phase' = "book" => result' \in {"finished", "failed", "timed_out"})
    BY <1>3 DEF PipelineReturns, PipelineRaises, PipelineTimesOut, At, Outcome, flowVars
  <2> QED
    BY <1>0, <2>1, QuietBook DEF Result
<1>4. CASE AnnounceRun
  <2>1. /\ phase' \in {"gate", "chain"} /\ log' = Append(log, "RUN_STARTED") /\ phase # "over"
    BY <1>4 DEF AnnounceRun, At, Say
  <2>2. log' \in Seq(Told) /\ NoVerdictYet'
    BY <2>1, StillNoVerdict DEF BookInv
  <2>3. EventFollowsStore'
    BY <2>2 DEF NoVerdictYet, EventFollowsStore
  <2> QED
    BY <1>0, <2>1, <2>2, <2>3 DEF BookInv
<1>5. CASE Decide
  <2>1. /\ phase' \in {"chain", "book"} /\ phase = "decided"
        /\ phase' = "book" => result' = "cancelled"
        /\ \E e \in {"APPROVAL_GRANTED", "APPROVAL_DENIED"} : log' = Append(log, e)
    BY <1>5 DEF Decide, At, Say
  <2>2. log' \in Seq(Told) /\ NoVerdictYet'
    BY <2>1, StillNoVerdict DEF BookInv
  <2>3. EventFollowsStore'
    BY <2>2 DEF NoVerdictYet, EventFollowsStore
  <2> QED
    BY <1>0, <2>1, <2>2, <2>3 DEF BookInv, Result
<1>6. CASE CancelPipeline
  <2>1. CASE At("execute") /\ Say("RUN_CANCELLED", "over")
    <3>1. /\ phase = "execute" /\ phase' = "over" /\ log' = Append(log, "RUN_CANCELLED")
          /\ storing' = storing /\ stored' = stored /\ log \in Seq(Told) /\ NoVerdictYet
      BY <1>6, <2>1 DEF CancelPipeline, At, Say, BookInv, pipeVars
    <3>2. "RUN_CANCELLED" = EndEvents["cancelled"] /\ "cancelled" \in DOMAIN EndEvents
      BY DEF EndEvents
    <3>3. storing => stored = RecordAt("cancelled")
      BY <3>1 DEF RecordInv, Unbooked, RecordAt
    <3>4. log' \in Seq(Told) /\ EventFollowsStore'
      BY <3>1, <3>2, <3>3, LastWord
    <3> QED
      BY <3>1, <3>4 DEF BookInv
  <2>2. CASE Escape
    BY <1>0, <1>6, <2>2, QuietBook DEF CancelPipeline, Escape, Proceed
  <2> QED
    BY <1>6, <2>1, <2>2 DEF CancelPipeline
<1>7. CASE Book
  <2>1. phase = "book" /\ log' = log /\ result \in Result /\ storing' = storing
    BY <1>7 DEF Book, BookInv, At, Proceed, Outcome, Escape
  <2>2. CASE Written(result) /\ Proceed(CASE result = "finished" -> "checkpoint"
                                          [] result = "cancelled" -> "over"
                                          [] OTHER -> "publish")
    <3>1. result' = result /\ (storing' => stored' = result')
      BY <2>1, <2>2 DEF Written, Proceed
    <3>2. phase' = "checkpoint" => result = "finished"
      BY <2>1, <2>2 DEF Proceed
    <3>3. phase' = "publish" => result \in {"failed", "timed_out"}
      BY <2>1, <2>2 DEF Proceed, Result
    <3>4. phase' # "book"
      BY <2>1, <2>2 DEF Proceed, Result
    <3> QED
      BY <1>0, <2>1, <3>1, <3>2, <3>3, <3>4, QuietBook DEF Verdicts
  <2>3. CASE IF result = "finished" THEN Outcome("failed") ELSE Escape
    BY <1>0, <2>1, <2>3, QuietBook DEF Outcome, Escape, Proceed, Result
  <2> QED
    BY <1>7, <2>2, <2>3 DEF Book
<1>8. CASE SaveResult
  <2>1. /\ phase = "checkpoint" /\ log' = log
        /\ result = "finished" /\ (storing => stored = result)
        /\ storing' = storing /\ stored' = stored
    BY <1>8 DEF SaveResult, At, BookInv, Proceed, Outcome, pipeVars
  <2>2. CASE Proceed("publish")
    BY <1>0, <2>1, <2>2, QuietBook DEF Proceed, Verdicts
  <2>3. CASE Outcome("failed")
    BY <1>0, <2>1, <2>3, QuietBook DEF Outcome, Result
  <2> QED
    BY <1>8, <2>2, <2>3 DEF SaveResult
<1>9. CASE PublishVerdict
  <2>1. /\ phase = "publish" /\ phase' = "over" /\ log' = Append(log, Verdicts[result])
        /\ result \in DOMAIN Verdicts /\ (storing => stored = result)
        /\ storing' = storing /\ stored' = stored
        /\ log \in Seq(Told) /\ NoVerdictYet
    BY <1>9 DEF PublishVerdict, At, BookInv, Say, pipeVars
  <2>2. /\ result \in DOMAIN EndEvents /\ Verdicts[result] = EndEvents[result]
        /\ RecordAt(result) = result
    BY <2>1 DEF Verdicts, EndEvents, RecordAt
  <2>3. log' \in Seq(Told) /\ EventFollowsStore'
    BY <2>1, <2>2, LastWord
  <2> QED
    BY <2>1, <2>3 DEF BookInv
<1> QED
  BY <1>1, <1>2, <1>3, <1>4, <1>5, <1>6, <1>7, <1>8, <1>9 DEF PipeNext, PipeRuns

LEMMA PipeKeeps == GateInv /\ BookInv /\ RecordInv /\ PhaseFits /\ [Next]_vars
                   => GateInv' /\ BookInv' /\ RecordInv'
<1> SUFFICES ASSUME GateInv, BookInv, RecordInv, PhaseFits, [Next]_vars
             PROVE  GateInv' /\ BookInv' /\ RecordInv'
  OBVIOUS
<1>1. CASE mode = "pipeline"
  <2>1. CASE PipeNext
    BY <1>1, <2>1, GateStep, BookStep, RecordStep
  <2>2. CASE UNCHANGED <<flowVars, pipeVars>>
    BY <2>2 DEF flowVars, pipeVars, gateVars, GateInv, BookInv, RecordInv, EventFollowsStore,
                 NoVerdictYet
  <2> QED
    BY <1>1, <2>1, <2>2, PipelineMoves
<1>2. CASE mode # "pipeline"
  <2>1. mode' = mode
    BY <1>2, ModeStays
  <2>2. UNCHANGED pipeVars \/ Resolve
    <3>1. CASE Runs
      <4>1. CASE PipeNext
        BY <1>2, <4>1, PipeMode
      <4> QED
        BY <3>1, <4>1 DEF Runs, Open, Invalid, Close, BranchesCancelled
    <3> QED
      BY <3>1 DEF Next, CancelFlow, CancelBranches, Restore, SlideAny, vars
  <2>3. UNCHANGED pipeVars
    BY <1>2, <2>2 DEF Resolve, GateInv
  <2> QED
    BY <1>2, <2>1, <2>3 DEF pipeVars, gateVars, GateInv, BookInv, RecordInv
<1> QED
  BY <1>1, <1>2

LEMMA PipeStart == FlowInit => GateInv /\ BookInv /\ RecordInv
<1> SUFFICES ASSUME FlowInit PROVE GateInv /\ BookInv /\ RecordInv
  OBVIOUS
<1>1. /\ phase = "opening" /\ log = <<>> /\ handle = "none" /\ told = "none" /\ heeded = "none"
      /\ attempts = 0 /\ stored = "none"
  BY DEF FlowInit, PipeInit
<1>2. log \in Seq(Told) /\ NoVerdictYet
  BY <1>1 DEF NoVerdictYet
<1>3. EventFollowsStore
  BY <1>2 DEF NoVerdictYet, EventFollowsStore
<1> QED
  BY <1>1, <1>2, <1>3 DEF GateInv, BookInv, RecordInv, BeforeVerdict, Unbooked

LEMMA PhasesStart == FlowInit => PhaseFits
BY DEF FlowInit, PhaseFits

LEMMA PipeSafe == Spec => [](PhaseFits /\ GateInv /\ BookInv /\ RecordInv)
<1>1. FlowInit => PhaseFits /\ GateInv /\ BookInv /\ RecordInv
  BY PipeStart, PhasesStart
<1>2. PhaseFits /\ GateInv /\ BookInv /\ RecordInv /\ [Next]_vars
      => (PhaseFits /\ GateInv /\ BookInv /\ RecordInv)'
  BY PipeKeeps, PhasesKeep
<1> QED
  BY <1>1, <1>2, PTL DEF Spec

\* Whoever resolved the approval handle, whoever reads the run store and
\* whoever hears the end of a run of PipelineRunner.run_pipeline see the same
\* outcome, whatever saves fail; except that a run announced as cancelled stays
\* "started" in the store, as run_pipeline saves nothing of it.
THEOREM OutcomesAlwaysAgree == Spec => []OutcomesAgree
<1>1. PhaseFits /\ GateInv /\ BookInv /\ RecordInv => OutcomesAgree
  <2> SUFFICES ASSUME GateInv, BookInv, RecordInv
               PROVE  GateHolds /\ EventFollowsStore /\ CancelledWasDenied
    BY DEF OutcomesAgree
  <2>1. GateHolds
    BY DEF GateHolds, GateInv
  <2>2. EventFollowsStore
    BY DEF BookInv, EventFollowsStore
  <2>3. CancelledWasDenied
    BY DEF CancelledWasDenied, RecordInv
  <2> QED
    BY <2>1, <2>2, <2>3
<1> QED
  BY <1>1, PipeSafe, PTL

-----------------------------------------------------------------------------
(* Teams.                                                                    *)

\* The calls of a run that makes none.
LEMMA FreeKeeps == FreeInv /\ PhaseFits /\ SuperInv /\ [Next]_vars => FreeInv'
<1> SUFFICES ASSUME FreeInv, PhaseFits, SuperInv, [Next]_vars, mode \in {"pipeline", "team"}
             PROVE  AllFree'
  BY ModeStays DEF FreeInv
<1>0. AllFree
  BY DEF FreeInv
<1>1. call' = call
  <2>1. CASE Runs
    <3>1. ~(WorkNext \/ TalkNext \/ LoopNext)
      BY WorkMode, TalkMode, LoopMode DEF Workflow
    <3> QED
      BY <2>1, <3>1, FanCalls, PipeCalls
         DEF Runs, Open, Invalid, Close, BranchesCancelled, superVars
  <2>2. CASE CancelFlow
    <3>1. ASSUME NEW c \in Caller, Cancel(c) PROVE FALSE
      BY <1>0, <3>1, CancelQuiet DEF AllFree, Active
    <3> QED
      BY <2>2, <3>1 DEF CancelFlow, superVars
  <2>3. CASE CancelBranches \/ Restore \/ SlideAny \/ UNCHANGED vars
    BY <2>3 DEF CancelBranches, Restore, SlideAny, Slide, vars, superVars
  <2> QED
    BY <2>1, <2>2, <2>3 DEF Next
<1> QED
  BY <1>0, <1>1 DEF AllFree

LEMMA AllFreeStart == FlowInit => AllFree
<1>1. NoCall.at = "free"
  BY DEF NoCall
<1> QED
  BY <1>1 DEF FlowInit, SuperInit, AllFree

\* What a team sees of the steps of a run.
LEMMA TeamMoves ==
  ASSUME PhaseFits, FreeInv, SuperInv, mode = "team", [Next]_vars
  PROVE  \/ FanNext
         \/ phase = "opening" /\ Open
         \/ Invalid \/ Close
         \/ phase # "spawn" /\ Proceed("over") /\ UNCHANGED fanVars
         \/ UNCHANGED <<flowVars, fanVars>>
<1>1. CASE Runs
  <2>1. ~(WorkNext \/ TalkNext \/ LoopNext)
    BY WorkMode, TalkMode, LoopMode DEF Workflow
  <2>2. PipeNext => UNCHANGED flowVars
    BY PipeMode
  <2> QED
    BY <1>1, <2>1, <2>2 DEF Runs, Open, BranchesCancelled, AtBranch
<1>2. CASE CancelFlow
  BY <1>2 DEF CancelFlow
<1>3. ~Restore
  BY DEF Restore
<1> QED
  BY <1>1, <1>2, <1>3 DEF Next, CancelBranches, SlideAny, vars

\* A step of a teammate that is under way.
LEMMA MateMoves ==
  ASSUME NEW t \in Step, MateStep(t)
  PROVE  mate[t] \notin Gone \cup {"unborn"} /\ UNCHANGED <<flowVars, superVars>>
BY DEF MateStep, TakeSlot, Deliver, Disappoint, ReportDone, LamentDone, Dropped, Turn, Gone

LEMMA CrewStep ==
  ASSUME Crew, NEW t \in Step, MateStep(t)
  PROVE  Crew'
<1>1. PICK from : from = mate[t]
  OBVIOUS
<1>2. PICK to : mate' = [mate EXCEPT ![t] = to]
  BY DEF MateStep, TakeSlot, Deliver, Disappoint, ReportDone, LamentDone, Dropped, Turn
<1>3. /\ DOMAIN mate' = Step /\ mate'[t] = to
      /\ \A u \in Step : u # t => mate'[u] = mate[u]
  BY <1>2 DEF Crew
<1>4. UNCHANGED <<failurePolicy, spawned>>
  BY DEF MateStep, TakeSlot, Deliver, Disappoint, ReportDone, LamentDone, Dropped
<1>5. CASE TakeSlot(t)
  <2>1. from = "waits" /\ to = "works" /\ UNCHANGED <<contribution, group>>
    BY <1>1, <1>2, <1>3, <1>5 DEF TakeSlot, Turn, Crew
  <2> QED
    BY <1>1, <1>3, <1>4, <2>1 DEF Crew, Missing, Gone
<1>6. CASE ReportDone(t)
  <2>1. from = "reports" /\ to = "left" /\ UNCHANGED <<contribution, group>>
    BY <1>1, <1>2, <1>3, <1>6 DEF ReportDone, Turn, Crew
  <2> QED
    BY <1>1, <1>3, <1>4, <2>1 DEF Crew, Missing, Gone
<1>7. CASE Deliver(t) \/ Disappoint(t)
  <2>1. PICK end \in {"finished", "failed"} :
          /\ from = "works" /\ to \in {"reports", "laments"} /\ group' = group
          /\ contribution' = [contribution EXCEPT ![t] = end]
          /\ to = "laments" => end = "failed"
    BY <1>1, <1>2, <1>3, <1>7 DEF Deliver, Disappoint, Turn, Crew
  <2>2. /\ DOMAIN contribution' = Step /\ contribution'[t] = end
        /\ \A u \in Step : u # t => contribution'[u] = contribution[u]
    BY <2>1 DEF Crew
  <2> QED
    BY <1>1, <1>3, <1>4, <2>1, <2>2 DEF Crew, Missing, Gone
<1>8. CASE LamentDone(t)
  <2>1. /\ from = "laments" /\ to = "left" /\ UNCHANGED contribution
        /\ group' = IF failurePolicy = "abort_team" THEN group \cup {"abort"} ELSE group
    BY <1>1, <1>2, <1>3, <1>8 DEF LamentDone, Turn, Crew
  <2>2. contribution[t] = "failed"
    BY <1>1, <2>1 DEF Crew
  <2>3. group' \subseteq {"abort", "outside"} /\ (group # {} => group' # {})
    BY <2>1 DEF Crew
  <2>4. "abort" \in group' => /\ failurePolicy = "abort_team"
                              /\ \E u \in Step : mate'[u] = "left" /\ contribution'[u] = "failed"
    BY <1>3, <2>1, <2>2 DEF Crew
  <2> QED
    BY <1>1, <1>3, <1>4, <2>1, <2>2, <2>3, <2>4 DEF Crew, Missing, Gone
<1>9. CASE Dropped(t)
  <2>1. /\ from \in {"waits", "works", "reports", "laments", "mourns"}
        /\ to \in {"mourns", "dropped"} /\ group # {} /\ UNCHANGED group
    BY <1>1, <1>2, <1>3, <1>9 DEF Dropped, Turn, Crew
  <2>2. /\ DOMAIN contribution' = Step
        /\ \A u \in Step : u # t => contribution'[u] = contribution[u]
    BY <1>9 DEF Dropped, Crew
  <2>3. "abort" \in group' => /\ failurePolicy = "abort_team"
                              /\ \E u \in Step : mate'[u] = "left" /\ contribution'[u] = "failed"
    BY <1>1, <1>3, <2>1, <2>2 DEF Crew
  <2> QED
    BY <1>1, <1>3, <1>4, <2>1, <2>2, <2>3 DEF Crew, Missing, Gone
<1> QED
  BY <1>5, <1>6, <1>7, <1>8, <1>9 DEF MateStep

\* The lead's turn comes when nobody was cut short.
LEMMA CrewInformed ==
  ASSUME Crew, Together, "outside" \notin group, ~(Failed /\ failurePolicy = "abort_team")
  PROVE  \A t \in Step : /\ contribution[t] \in {"finished", "failed"}
                         /\ mate[t] = "left"
                         /\ contribution[t] = "failed" => failurePolicy = "isolate"
<1>1. group = {}
  BY DEF Crew, Failed
<1>2. spawned = N
  BY <1>1 DEF Together
<1> SUFFICES ASSUME NEW t \in Step
             PROVE  /\ contribution[t] \in {"finished", "failed"}
                    /\ mate[t] = "left"
                    /\ contribution[t] = "failed" => failurePolicy = "isolate"
  OBVIOUS
<1>3. mate[t] \in Gone \cup {"unborn"} /\ mate[t] # "unborn"
  BY <1>2, StepsAssumption DEF Together, Crew, Step
<1>4. mate[t] = "left"
  BY <1>1, <1>3 DEF Crew, Gone
<1> QED
  BY <1>4 DEF Crew, Missing, Failed

LEMMA TeamStep ==
  ASSUME TeamInv, PhaseFits, mode = "team", FanNext
  PROVE  TeamInv'
<1>0. Crew /\ (~Ends => result = "none")
  BY DEF TeamInv, PhaseFits
<1>1. ASSUME NEW t \in Step, MateStep(t) PROVE TeamInv'
  <2>1. mate[t] \notin Gone \cup {"unborn"} /\ UNCHANGED flowVars
    BY <1>1, MateMoves
  <2>2. phase \notin {"lead", "end", "over"}
    BY <2>1 DEF TeamInv
  <2>3. phase \notin {"opening", "begin"}
    BY <1>0, <2>1, StepsAssumption DEF TeamInv, Crew, Step
  <2>4. Crew'
    BY <1>0, <1>1, CrewStep
  <2> QED
    BY <1>0, <2>1, <2>2, <2>3, <2>4 DEF TeamInv, Ends, flowVars
<1>2. CASE StartTeam
  <2>1. phase = "begin" /\ phase' = "spawn" /\ UNCHANGED <<mode, result, fanVars>>
    BY <1>2 DEF StartTeam, Announce
  <2>2. Crew'
    BY <1>0, <2>1 DEF Crew, Missing, fanVars
  <2> QED
    BY <1>0, <2>1, <2>2 DEF TeamInv, Ends
<1>3. CASE Spawn
  <2>1. /\ phase = "spawn" /\ spawned < N /\ spawned' = spawned + 1
        /\ mate' = [mate EXCEPT ![spawned + 1] = "waits"]
        /\ UNCHANGED <<flowVars, failurePolicy, contribution, group>>
    BY <1>3 DEF Spawn
  <2>2. spawned \in 0..N /\ spawned' \in 0..N /\ spawned + 1 \in Step
    BY <1>0, <2>1, StepsAssumption DEF Crew, Step
  <2>3. /\ DOMAIN mate' = Step /\ mate'[spawned + 1] = "waits"
        /\ \A t \in Step : t # spawned + 1 => mate'[t] = mate[t]
    BY <1>0, <2>1, <2>2 DEF Crew
  <2>4. ASSUME NEW t \in Step PROVE mate'[t] = "unborn" <=> t > spawned'
    BY <1>0, <2>1, <2>2, <2>3, <2>4, StepsAssumption DEF Crew, Step
  <2>5. "abort" \in group' => /\ failurePolicy' = "abort_team"
                              /\ \E t \in Step : mate'[t] = "left" /\ contribution'[t] = "failed"
    <3>1. ~(mate[spawned + 1] = "left")
      BY <1>0, <2>1, <2>2 DEF Crew
    <3> QED
      BY <1>0, <2>1, <2>3, <3>1 DEF Crew
  <2>6. Crew'
    BY <1>0, <2>1, <2>2, <2>3, <2>4, <2>5 DEF Crew, Missing
  <2> QED
    BY <1>0, <2>1, <2>6 DEF TeamInv, Ends, flowVars
<1>4. CASE CancelTeam
  <2>1. /\ phase = "spawn" /\ group' = group \cup {"outside"}
        /\ UNCHANGED <<flowVars, failurePolicy, spawned, mate, contribution>>
    BY <1>4 DEF CancelTeam
  <2>2. Crew'
    BY <1>0, <2>1 DEF Crew, Missing
  <2> QED
    BY <1>0, <2>1, <2>2 DEF TeamInv, Ends, flowVars
<1>5. CASE TeamCancelled \/ TeamFails
  <2>1. /\ phase = "spawn" /\ UNCHANGED <<mode, fanVars>> /\ phase' \in {"end", "over"}
        /\ result' = "finished" => result = "finished"
        /\ \A t \in Step : mate[t] \in Gone \cup {"unborn"}
    BY <1>5 DEF TeamCancelled, TeamFails, Together, Conclude, Proceed
  <2>2. Crew'
    BY <1>0, <2>1 DEF Crew, Missing, fanVars
  <2> QED
    BY <1>0, <2>1, <2>2 DEF TeamInv, Ends, fanVars
<1>6. CASE LeadTurn
  <2>1. phase = "spawn" /\ UNCHANGED <<mode, result, fanVars>> /\ phase' = "lead"
    BY <1>6 DEF LeadTurn, Together, Proceed
  <2>2. Crew'
    BY <1>0, <2>1 DEF Crew, Missing, fanVars
  <2>3. \A t \in Step : /\ contribution[t] \in {"finished", "failed"}
                        /\ mate[t] = "left"
                        /\ contribution[t] = "failed" => failurePolicy = "isolate"
    BY <1>0, <1>6, CrewInformed DEF LeadTurn
  <2>4. LeadInformed'
    BY <2>1, <2>3 DEF LeadInformed, fanVars
  <2> QED
    BY <1>0, <2>1, <2>2, <2>3, <2>4 DEF TeamInv, Ends, fanVars, Gone
<1>7. CASE LeadReturns
  <2>1. phase = "lead" /\ UNCHANGED <<mode, fanVars>> /\ phase' = "end"
    BY <1>7 DEF LeadReturns, Conclude
  <2>2. Crew'
    BY <1>0, <2>1 DEF Crew, Missing, fanVars
  <2>3. \A t \in Step : mate[t] = "left"
    BY <2>1 DEF TeamInv, LeadInformed
  <2> QED
    BY <1>0, <2>1, <2>2, <2>3 DEF TeamInv, Ends, fanVars, Gone
<1> QED
  BY <1>1, <1>2, <1>3, <1>4, <1>5, <1>6, <1>7 DEF FanNext

\* The life cycle of a run does not touch its teammates.
LEMMA TeamRest ==
  ASSUME TeamInv, PhaseFits, mode = "team", UNCHANGED <<mode, fanVars>>,
         \/ UNCHANGED <<phase, result>>
         \/ phase' \in {"begin", "over"} /\ phase = "opening" /\ result' = result
         \/ phase' = "end" /\ phase = "begin" /\ result' = "failed"
         \/ phase' = "over" /\ phase # "spawn" /\ result' = result
  PROVE  TeamInv'
<1>1. Crew /\ Crew'
  BY DEF TeamInv, Crew, Missing, fanVars
<1>2. phase \in {"opening", "begin"} => \A t \in Step : mate[t] = "unborn"
  BY <1>1, StepsAssumption DEF TeamInv, Crew, Step
<1>3. UNCHANGED <<mate, contribution, failurePolicy, spawned>>
  BY DEF fanVars
<1>4. CASE UNCHANGED <<phase, result>>
  BY <1>1, <1>3, <1>4 DEF TeamInv, LeadInformed
<1>5. CASE phase' \in {"begin", "over"} /\ phase = "opening" /\ result' = result
  BY <1>1, <1>2, <1>3, <1>5 DEF TeamInv
<1>6. CASE phase' = "end" /\ phase = "begin" /\ result' = "failed"
  BY <1>1, <1>2, <1>3, <1>6 DEF TeamInv
<1>7. CASE phase' = "over" /\ phase # "spawn" /\ result' = result
  <2>1. phase \in {"opening", "begin", "lead", "end", "over"}
    BY <1>7 DEF PhaseFits, Workflow
  <2> QED
    BY <1>1, <1>2, <1>3, <1>7, <2>1 DEF TeamInv
<1> QED
  BY <1>4, <1>5, <1>6, <1>7

LEMMA TeamKeeps == TeamInv /\ PhaseFits /\ FreeInv /\ SuperInv /\ [Next]_vars => TeamInv'
<1> SUFFICES ASSUME TeamInv, PhaseFits, FreeInv, SuperInv, [Next]_vars PROVE TeamInv'
  OBVIOUS
<1>0. mode' = mode
  BY ModeStays
<1>1. CASE mode = "team"
  <2>1. CASE FanNext
    BY <1>1, <2>1, TeamStep
  <2>2. CASE phase = "opening" /\ Open
    <3>1. /\ phase' \in {"begin", "over"} /\ result' = result /\ UNCHANGED fanVars
      BY <2>2 DEF Open, Proceed, Say
    <3> QED
      BY <1>0, <1>1, <2>2, <3>1, TeamRest
  <2>3. CASE Invalid \/ Close
    <3>1. /\ UNCHANGED fanVars
          /\ \/ phase' = "end" /\ phase = "begin" /\ result' = "failed"
             \/ phase' = "over" /\ phase = "end" /\ result' = result
      BY <2>3 DEF Invalid, Close, Proceed, Say
    <3> QED
      BY <1>0, <1>1, <3>1, TeamRest
  <2>4. CASE phase # "spawn" /\ Proceed("over") /\ UNCHANGED fanVars
    BY <1>0, <1>1, <2>4, TeamRest DEF Proceed
  <2>5. CASE UNCHANGED <<flowVars, fanVars>>
    BY <1>0, <1>1, <2>5, TeamRest DEF flowVars
  <2> QED
    BY <1>1, <2>1, <2>2, <2>3, <2>4, <2>5, TeamMoves
<1>2. CASE mode # "team"
  <2>1. \A t \in Step : ~MateStep(t)
    BY <1>2, MateMoves DEF TeamInv
  <2>2. ~FanNext
    BY <1>2, <2>1, FanMode
  <2>3. UNCHANGED fanVars
    BY <2>2 DEF Next, Runs, Open, Invalid, Close, BranchesCancelled, CancelFlow, CancelBranches,
                Restore, SlideAny, vars
  <2> QED
    BY <1>0, <1>2, <2>3 DEF TeamInv, fanVars
<1> QED
  BY <1>1, <1>2

-----------------------------------------------------------------------------
(* Loops.                                                                    *)

\* At most one call is under way.
Lone == \A c, d \in Caller : c # d => call[c].at \notin Active \/ call[d].at \notin Active

LEMMA CancelEnds ==
  ASSUME SuperInv, CancelFlow, Lone
  PROVE  NoneActive' /\ phase' = "over" /\ UNCHANGED <<mode, result>>
<1>1. phase' = "over" /\ UNCHANGED <<mode, result>>
  BY DEF CancelFlow, Proceed
<1>2. ASSUME NEW c \in Caller, Cancel(c) PROVE NoneActive'
  BY <1>2, CancelQuiet DEF Lone, NoneActive, Active
<1>3. CASE UNCHANGED superVars /\ \A c \in Caller : call[c].at \notin Active
  <2>1. call' = call
    BY <1>3 DEF superVars
  <2> QED
    BY <1>1, <1>3, <2>1 DEF NoneActive, Active
<1> QED
  BY <1>1, <1>2, <1>3 DEF CancelFlow

\* Steps of the life cycle that touch no call.
LEMMA Ceremonies ==
  ASSUME Open \/ Invalid \/ Close
  PROVE  /\ UNCHANGED <<mode, call>>
         /\ \/ phase = "opening" /\ phase' \in {"begin", "over"} /\ result' = result
            \/ phase = "begin" /\ phase' = "end" /\ result' = "failed"
            \/ phase = "end" /\ phase' = "over" /\ result' = result
BY DEF Open, Invalid, Close, Proceed, Say, superVars

LEMMA LoopMoves ==
  ASSUME PhaseFits, mode = "loop", [Next]_vars
  PROVE  \/ LoopNext
         \/ Open \/ Invalid \/ Close \/ CancelFlow
         \/ UNCHANGED <<flowVars, call>>
<1>1. CASE Runs
  <2>1. ~(WorkNext \/ TalkNext)
    BY WorkMode, TalkMode DEF Workflow
  <2>2. PipeNext \/ FanNext => UNCHANGED <<flowVars, call>>
    BY PipeMode, FanMode, FanCalls, PipeCalls DEF superVars
  <2> QED
    BY <1>1, <2>1, <2>2 DEF Runs, BranchesCancelled, AtBranch
<1>2. ~Restore
  BY DEF Restore
<1> QED
  BY <1>1, <1>2 DEF Next, CancelBranches, SlideAny, Slide, vars, superVars

LEMMA LoopStep ==
  ASSUME LoopInv, SuperInv, mode = "loop", LoopNext
  PROVE  LoopInv'
<1> USE Callers
<1>0. mode = "loop" /\ "free" \notin Active /\ "cancelled" \notin Active /\ "refused" \notin Active
  BY DEF Active
<1>1. CASE StartLoop \/ TurnsOver \/ RouteMisread \/ RouteEnds
  <2>1. call' = call /\ phase \in {"begin", "route"} /\ phase' \in {"route", "end"}
    BY <1>1 DEF StartLoop, TurnsOver, RouteMisread, RouteEnds, Announce, Stop, Crumble, Conclude,
                superVars
  <2> QED
    BY <1>0, <2>1 DEF LoopInv, AllFree, NoneActive, Ends
<1>2. CASE Route
  <2>1. /\ phase = "route"
        /\ \/ phase' = "end" /\ call' = call
           \/ phase' = "reply" /\ \E i : Begin(Main, i)
    BY <1>2 DEF Route, Stop, Conclude, Proceed, superVars
  <2>2. ASSUME NEW i, Begin(Main, i) PROVE \A d \in Caller : d # Main => call'[d] = call[d]
    BY <2>2, BeginQuiet
  <2> QED
    BY <1>0, <2>1, <2>2 DEF LoopInv, AllFree, NoneActive, Ends
<1>3. CASE LoopTimesOut
  <2>1. phase' = "end" /\ phase \in {"route", "reply"}
    BY <1>3 DEF LoopTimesOut, TimeOut
  <2>2. CASE phase = "route"
    <3>1. call' = call
      BY <1>3, <2>2 DEF LoopTimesOut, superVars
    <3> QED
      BY <1>0, <2>1, <2>2, <3>1 DEF LoopInv, AllFree, NoneActive, Ends
  <2>3. CASE phase = "reply"
    <3>1. Cancel(Main)
      BY <1>3, <2>3 DEF LoopTimesOut
    <3>2. call'[Main].at = "cancelled" /\ \A d \in Caller : d # Main => call'[d] = call[d]
      BY <3>1, CancelQuiet
    <3> QED
      BY <1>0, <2>1, <2>3, <3>2 DEF LoopInv, NoneActive, Ends
  <2> QED
    BY <2>1, <2>2, <2>3
<1>4. CASE Reply \/ ReplyMissing
  <2>1. phase = "reply" /\ phase' \in {"route", "end"} /\ Reset(Main)
    BY <1>4 DEF Reply, ReplyMissing, Proceed, Crumble
  <2>2. call'[Main].at = "free" /\ \A d \in Caller : d # Main => call'[d] = call[d]
    BY <2>1, ResetQuiet
  <2> QED
    BY <1>0, <2>1, <2>2 DEF LoopInv, AllFree, NoneActive, Ends
<1>5. CASE ReplyFails \/ JudgeReply \/ RetryReply
  <2>1. /\ phase = "reply" /\ phase' = "reply"
        /\ \/ \E e \in Error : Raise(Main, e)
           \/ Judge(Main, {"restart"})
           \/ Retry(Main)
    BY <1>5 DEF ReplyFails, JudgeReply, RetryReply, flowVars
  <2>2. \A d \in Caller : d # Main => call'[d] = call[d]
    BY <2>1, RaiseMoves, JudgeMoves, RetryQuiet
  <2> QED
    BY <2>1, <2>2 DEF LoopInv, Ends
<1>6. CASE ReplyRefused
  <2>1. phase = "reply" /\ phase' = "end" /\ call' = call /\ call[Main].at = "refused"
    BY <1>6 DEF ReplyRefused, TimeOut, Crumble, superVars
  <2> QED
    BY <1>0, <2>1 DEF LoopInv, NoneActive, Ends
<1> QED
  BY <1>1, <1>2, <1>3, <1>4, <1>5, <1>6 DEF LoopNext

LEMMA LoopKeeps == LoopInv /\ PhaseFits /\ SuperInv /\ [Next]_vars => LoopInv'
<1> SUFFICES ASSUME LoopInv, PhaseFits, SuperInv, [Next]_vars, mode = "loop" PROVE LoopInv'
  BY ModeStays DEF LoopInv
<1>1. CASE LoopNext
  BY <1>1, LoopStep
<1>2. CASE Open \/ Invalid \/ Close
  BY <1>2, Ceremonies DEF LoopInv, AllFree, NoneActive, Active, Ends
<1>3. CASE CancelFlow
  <2>1. Lone
    <3>1. CASE phase = "reply"
      BY <3>1 DEF LoopInv, Lone, Active
    <3>2. CASE phase \in {"opening", "begin", "route"}
      BY <3>2 DEF LoopInv, AllFree, Lone, Active
    <3>3. CASE Ends
      BY <3>3 DEF LoopInv, NoneActive, Lone
    <3> QED
      BY <3>1, <3>2, <3>3 DEF PhaseFits, Workflow, Ends
  <2> QED
    BY <1>3, <2>1, CancelEnds DEF LoopInv, Ends
<1>4. CASE UNCHANGED <<flowVars, call>>
  BY <1>4 DEF LoopInv, AllFree, NoneActive, Ends, flowVars
<1> QED
  BY <1>1, <1>2, <1>3, <1>4, LoopMoves

-----------------------------------------------------------------------------
(* Branches.                                                                 *)

LEMMA CancelNobody ==
  ASSUME SuperInv, CancelFlow, NoneActive
  PROVE  /\ call' = call /\ UNCHANGED <<mode, result>> /\ phase' = "over"
         /\ mode = "fan-out" => phase # "steps"
<1>1. ASSUME NEW c \in Caller, Cancel(c) PROVE FALSE
  BY <1>1, CancelQuiet DEF NoneActive
<1> QED
  BY <1>1 DEF CancelFlow, superVars, Proceed

LEMMA BranchMoves ==
  ASSUME PhaseFits, mode = "fan-out", [Next]_vars
  PROVE  \/ WorkNext
         \/ Open \/ Invalid \/ Close \/ BranchesCancelled \/ CancelFlow
         \/ UNCHANGED <<flowVars, call>>
<1>1. CASE Runs
  <2>1. ~(TalkNext \/ LoopNext)
    BY LoopMode, TalkMode
  <2>2. PipeNext \/ FanNext => UNCHANGED <<flowVars, call>>
    BY PipeMode, FanMode, FanCalls, PipeCalls DEF superVars
  <2> QED
    BY <1>1, <2>1, <2>2 DEF Runs
<1>2. ~Restore
  BY DEF Restore
<1> QED
  BY <1>1, <1>2 DEF Next, CancelBranches, SlideAny, Slide, vars, superVars

LEMMA BranchWork ==
  ASSUME BranchInv, PhaseFits, SuperInv, mode = "fan-out", WorkNext
  PROVE  BranchInv'
<1> USE Callers
<1>1. CASE \/ phase' = "steps" /\ result' = result
  BY <1>1, WorkMode DEF BranchInv, PhaseFits, Ends
<1>2. CASE StepsOver
  <2>1. call' = call /\ \A c \in Caller : call[c].at = "done"
    BY <1>2 DEF StepsOver, superVars
  <2>2. phase' \in {"synthesis", "end"}
    BY <1>2 DEF StepsOver, Proceed, Conclude
  <2> QED
    BY <2>1, <2>2 DEF BranchInv, NoneActive, Active, Ends
<1>3. CASE StepsFail
  <2>1. call' = call /\ \A c \in Caller : call[c].at \in Ended
    BY <1>3 DEF StepsFail, superVars
  <2>2. phase' = "end" /\ result' \in {"timed_out", "failed"}
    BY <1>3 DEF StepsFail, Verdict, Conclude
  <2> QED
    BY <2>1, <2>2 DEF BranchInv, NoneActive, Active, Ended, Ends
<1>4. CASE Synthesize
  <2>1. call' = call /\ phase = "synthesis" /\ phase' = "end"
    BY <1>4 DEF Synthesize, superVars, Verdict, Conclude
  <2> QED
    BY <2>1 DEF BranchInv, NoneActive, Active, Ends
<1>5. WorkNext => \/ phase' = "steps" /\ result' = result
                  \/ StepsOver \/ StepsFail \/ Synthesize
  <2>1. CASE StartSequence \/ LoadFails \/ StartBranches \/ HaltBranches
    BY <2>1 DEF StartSequence, LoadFails, StartBranches, HaltBranches, Announce, AtBranch, flowVars
  <2>2. ASSUME NEW s \in Step, SequenceStep(s) \/ BranchStep(s)
        PROVE  phase' = "steps" /\ result' = result
    BY <2>2 DEF SequenceStep, PassThrough, EnterStep, StepAnswers, KeepStep, StepFails, JudgeStep,
                RetryStep, AtStep, BranchStep, BranchAnswers, BranchFails, BranchRetries,
                BranchCancelled, AtBranch, flowVars
  <2> QED
    BY <2>1, <2>2 DEF WorkNext
<1> QED
  BY <1>1, <1>2, <1>3, <1>4, <1>5

LEMMA BranchKeeps == BranchInv /\ PhaseFits /\ SuperInv /\ [Next]_vars => BranchInv'
<1> SUFFICES ASSUME BranchInv, PhaseFits, SuperInv, [Next]_vars, mode = "fan-out"
             PROVE  BranchInv'
  BY ModeStays DEF BranchInv
<1>1. CASE WorkNext
  BY <1>1, BranchWork
<1>2. CASE Open \/ Invalid \/ Close
  BY <1>2, Ceremonies DEF BranchInv, AllFree, NoneActive, Active, Ends, PhaseFits
<1>3. CASE BranchesCancelled
  <2>1. /\ call' = call /\ \A c \in Caller : call[c].at \in {"done", "cancelled"}
        /\ phase = "steps" /\ phase' = "over" /\ result' = result
    BY <1>3, Callers DEF BranchesCancelled, Proceed, superVars, AtBranch
  <2> QED
    BY <2>1 DEF BranchInv, NoneActive, Active, Ends, PhaseFits
<1>4. CASE CancelFlow
  <2>1. NoneActive
    <3>1. phase # "steps"
      BY <1>4 DEF CancelFlow
    <3>2. CASE phase \in {"opening", "begin"}
      BY <3>2 DEF BranchInv, AllFree, NoneActive, Active
    <3>3. CASE phase = "synthesis"
      BY <3>3 DEF BranchInv, NoneActive, Active
    <3>4. CASE Ends
      BY <3>4 DEF BranchInv
    <3> QED
      BY <3>1, <3>2, <3>3, <3>4 DEF PhaseFits, Workflow, Ends
  <2> QED
    BY <1>4, <2>1, CancelNobody DEF BranchInv, NoneActive, Ends
<1>5. CASE UNCHANGED <<flowVars, call>>
  BY <1>5 DEF BranchInv, AllFree, NoneActive, Ends, flowVars
<1> QED
  BY <1>1, <1>2, <1>3, <1>4, <1>5, BranchMoves

-----------------------------------------------------------------------------
(* Deliberations.                                                            *)

LEMMA TalkMoves ==
  ASSUME PhaseFits, mode = "deliberation", [Next]_vars
  PROVE  \/ TalkNext
         \/ (Open \/ Invalid \/ Close \/ CancelFlow) /\ UNCHANGED <<onTimeout, talkVars>>
         \/ UNCHANGED <<flowVars, call, talkVars>>
<1>1. CASE Runs
  <2>1. ~(WorkNext \/ LoopNext)
    BY LoopMode, WorkMode DEF Workflow
  <2>2. PipeNext \/ FanNext => UNCHANGED <<flowVars, call>>
    BY PipeMode, FanMode, FanCalls, PipeCalls DEF superVars
  <2>3. Open \/ Invalid \/ Close => UNCHANGED <<onTimeout, talkVars>>
    BY DEF Open, Invalid, Close, Proceed, Say
  <2> QED
    BY <1>1, <2>1, <2>2, <2>3 DEF Runs, BranchesCancelled, AtBranch
<1>2. ~Restore
  BY DEF Restore
<1>3. CASE CancelFlow
  BY <1>3 DEF CancelFlow, Proceed
<1> QED
  BY <1>1, <1>2, <1>3 DEF Next, CancelBranches, SlideAny, Slide, vars, superVars

LEMMA TalkCallsStep ==
  ASSUME TalkCalls, SuperInv, PhaseFits, who \in 1..(N + 1), TalkNext
  PROVE  TalkCalls'
<1> USE Callers
<1>0. /\ "free" \notin Active /\ "refused" \notin Active
      /\ phase \in {"contribute", "review", "consolidate", "document"} => ~Ends
  BY DEF Active, Ends
<1>1. CASE StartDeliberation \/ Consolidate
  <2>1. /\ call' = call /\ phase \in {"begin", "consolidate"}
        /\ phase' \in {"contribute", "document"}
    BY <1>1 DEF StartDeliberation, Consolidate, Consolidated, Announce, Proceed, superVars
  <2> QED
    BY <2>1 DEF TalkCalls, AllFree, Ends
<1>2. CASE AskContribution \/ AskReview
  <2>1. /\ phase \in {"contribute", "review"} /\ who <= N /\ UNCHANGED <<phase, who>>
        /\ \E i : Begin(Main, i)
    BY <1>2 DEF AskContribution, AskReview, Reviewing, flowVars, talkVars
  <2>2. \A d \in Caller : d # Main => call'[d] = call[d]
    BY <2>1, BeginQuiet
  <2> QED
    BY <2>1, <2>2 DEF TalkCalls, Ends
<1>3. CASE Contribute \/ Review
  <2>1. phase \in {"contribute", "review"} /\ phase' = phase /\ Reset(Main)
    BY <1>3 DEF Contribute, Review, flowVars
  <2>2. call'[Main].at = "free" /\ \A d \in Caller : d # Main => call'[d] = call[d]
    BY <2>1, ResetQuiet
  <2> QED
    BY <2>1, <2>2 DEF TalkCalls, Ends
<1>4. CASE ReviewsBegin \/ SkipReview
  <2>1. /\ phase \in {"contribute", "review"} /\ phase' = "review" /\ call' = call
        /\ phase = "contribute" => who > N
        /\ phase = "review" => call[Main].at = "free"
    BY <1>4 DEF ReviewsBegin, SkipReview, Reviewing, Proceed, flowVars, superVars
  <2>2. call[Main].at = "free"
    BY <2>1, StepsAssumption DEF TalkCalls
  <2> QED
    BY <2>1, <2>2 DEF TalkCalls, Ends
<1>5. CASE TalkFails \/ TalkMisread \/ JudgeTalk \/ RetryTalk
  <2>1. /\ phase \in {"contribute", "review"} /\ UNCHANGED <<phase, who>>
        /\ \/ \E e \in Error : Raise(Main, e)
           \/ Judge(Main, {"restart"})
           \/ Retry(Main)
    BY <1>5 DEF TalkFails, TalkMisread, JudgeTalk, RetryTalk, Talking, Misreading, Error, flowVars,
                talkVars
  <2>2. call[Main].at # "free" /\ \A d \in Caller : d # Main => call'[d] = call[d]
    BY <2>1, RaiseMoves, JudgeMoves, RetryQuiet
  <2> QED
    BY <2>1, <2>2 DEF TalkCalls, Ends
<1>6. CASE TalkRefused
  <2>1. /\ phase \in {"contribute", "review"} /\ phase' = "end" /\ call' = call
        /\ call[Main].at = "refused"
    BY <1>6 DEF TalkRefused, Talking, Conclude, superVars
  <2> QED
    BY <1>0, <2>1 DEF TalkCalls, NoneActive, Active, Ends
<1>7. CASE ReviewsOver
  <2>1. /\ phase = "review" /\ phase' = "consolidate" /\ call' = call /\ who > N
    BY <1>7 DEF ReviewsOver, Proceed, superVars
  <2>2. call[Main].at = "free"
    BY <2>1, StepsAssumption DEF TalkCalls
  <2> QED
    BY <2>1, <2>2 DEF TalkCalls, AllFree, Ends
<1>8. CASE ProduceDocument \/ LeaderFails
  <2>1. phase \in {"consolidate", "document"} /\ phase' = "end" /\ call' = call
    BY <1>8 DEF ProduceDocument, LeaderFails, Conclude, superVars
  <2> QED
    BY <1>0, <2>1 DEF TalkCalls, AllFree, NoneActive, Active, Ends
<1> QED
  BY <1>1, <1>2, <1>3, <1>4, <1>5, <1>6, <1>7, <1>8 DEF TalkNext

\* A call under way belongs to a participant.
LEMMA Participates ==
  ASSUME TalkCalls, SuperInv, phase \in {"contribute", "review"}, call[Main].at = "calling"
  PROVE  who <= N
BY DEF TalkCalls

LEMMA TalkTyped ==
  ASSUME TalkCalls, SuperInv, TalkNext,
         who \in 1..(N + 1), about \in Nat \ {0}, contributions \in Seq(Step)
  PROVE  /\ who' \in 1..(N + 1) /\ about' \in Nat \ {0} /\ contributions' \in Seq(Step)
<1> USE StepsAssumption
<1>1. CASE \/ StartDeliberation \/ AskContribution \/ AskReview \/ TalkFails \/ TalkMisread
           \/ JudgeTalk \/ RetryTalk \/ TalkRefused \/ ReviewsOver \/ ProduceDocument \/ LeaderFails
  BY <1>1 DEF StartDeliberation, AskContribution, AskReview, TalkFails, TalkMisread, JudgeTalk,
              RetryTalk, TalkRefused, ReviewsOver, ProduceDocument, LeaderFails, talkVars
<1>2. CASE Contribute
  <2>1. who <= N /\ who' = who + 1 /\ about' = about
    BY <1>2, Participates DEF Contribute
  <2>2. contributions' = contributions \/ contributions' = Append(contributions, who)
    BY <1>2 DEF Contribute
  <2>3. who \in Step
    BY <2>1 DEF Step
  <2> QED
    BY <2>1, <2>2, <2>3
<1>3. CASE ReviewsBegin
  BY <1>3 DEF ReviewsBegin
<1>5. CASE Consolidate
  <2>1. about' = about /\ \E verdict : Consolidated(verdict)
    BY <1>5 DEF Consolidate
  <2>2. \/ who' = who /\ contributions' = contributions
        \/ who' = 1 /\ contributions' = <<>>
    BY <2>1 DEF Consolidated
  <2>3. who' \in 1..(N + 1)
    BY <2>2
  <2>4. contributions' \in Seq(Step)
    <3>1. <<>> \in Seq(Step)
      OBVIOUS
    <3> QED
      BY <2>2, <3>1
  <2> QED
    BY <2>1, <2>3, <2>4
<1>4. CASE SkipReview \/ Review
  <2>1. who <= N /\ NextReview /\ contributions' = contributions
    BY <1>4, Participates DEF SkipReview, Review, Reviewing
  <2> QED
    BY <2>1 DEF NextReview
<1> QED
  BY <1>1, <1>2, <1>3, <1>4, <1>5 DEF TalkNext

LEMMA TalkDone ==
  ASSUME TalkNext, ~Ends => result = "none",
         phase = "document" \/ result = "finished" => sufficient \/ round = MaxRounds
  PROVE  phase' = "document" \/ result' = "finished" => sufficient' \/ round' = MaxRounds
<1>1. CASE Consolidate
  BY <1>1 DEF Consolidate, Consolidated, Proceed, Ends
<1>2. CASE ProduceDocument
  BY <1>2 DEF ProduceDocument, Conclude, talkVars
<1>3. CASE LeaderFails \/ TalkRefused
  BY <1>3 DEF LeaderFails, TalkRefused, Conclude
<1>4. CASE StartDeliberation \/ AskContribution \/ Contribute \/ ReviewsBegin
  BY <1>4 DEF StartDeliberation, AskContribution, Contribute, ReviewsBegin, Announce, Proceed,
              flowVars, Ends
<1>5. CASE SkipReview \/ AskReview \/ Review \/ ReviewsOver
  BY <1>5 DEF SkipReview, AskReview, Review, ReviewsOver, Reviewing, Proceed, flowVars, Ends
<1>6. CASE TalkFails \/ TalkMisread \/ JudgeTalk \/ RetryTalk
  BY <1>6 DEF TalkFails, TalkMisread, JudgeTalk, RetryTalk, flowVars, talkVars
<1> QED
  BY <1>1, <1>2, <1>3, <1>4, <1>5, <1>6 DEF TalkNext

\* The reviews still to come, one by one.
LEMMA BeforeNext ==
  ASSUME NEW w \in Step, NEW a \in Step, NEW i \in Step, NEW j \in Step
  PROVE  /\ a < N => (Before(i, j, w, a + 1) <=> Before(i, j, w, a) \/ <<i, j>> = <<w, a>>)
         /\ a = N => (Before(i, j, w + 1, 1) <=> Before(i, j, w, a) \/ <<i, j>> = <<w, a>>)
<1>1. <<i, j>> = <<w, a>> <=> i = w /\ j = a
  OBVIOUS
<1> QED
  BY <1>1, StepsAssumption DEF Before, Step

LEMMA NextReviewed ==
  ASSUME who \in Step, about \in Step, Len(contributions) = N, NextReview
  PROVE  /\ about' \in Step /\ who' \in 1..(N + 1) /\ (who' > N => about' = 1)
         /\ Reviewed' = Reviewed \cup (IF about = who THEN {} ELSE {<<who, about>>})
<1>1. /\ about' \in Step /\ who' \in 1..(N + 1) /\ (who' > N => about' = 1)
      /\ \/ about < N /\ about' = about + 1 /\ who' = who
         \/ about = N /\ about' = 1 /\ who' = who + 1
  BY StepsAssumption DEF NextReview, Step
<1>2. ASSUME NEW i \in Step, NEW j \in Step
      PROVE  Before(i, j, who', about')
               <=> Before(i, j, who, about) \/ <<i, j>> = <<who, about>>
  BY <1>1, BeforeNext
<1>3. ASSUME NEW pair \in Step \X Step
      PROVE  pair \in Reviewed'
               <=> pair \in Reviewed \cup (IF about = who THEN {} ELSE {<<who, about>>})
  <2>1. PICK i \in Step, j \in Step : pair = <<i, j>> /\ pair[1] = i /\ pair[2] = j
    OBVIOUS
  <2>2. <<i, j>> = <<who, about>> <=> i = who /\ j = about
    OBVIOUS
  <2>3. pair \in Reviewed' <=> i # j /\ Before(i, j, who', about')
    BY <2>1 DEF Reviewed
  <2>4. pair \in Reviewed <=> i # j /\ Before(i, j, who, about)
    BY <2>1 DEF Reviewed
  <2> QED
    BY <1>2, <2>1, <2>2, <2>3, <2>4
<1>4. Reviewed' \subseteq Step \X Step /\ Reviewed \subseteq Step \X Step
  BY DEF Reviewed
<1> QED
  BY <1>1, <1>3, <1>4

LEMMA TalkSaidStep ==
  ASSUME TalkSaid, TalkCalls, SuperInv, PhaseFits, onTimeout = "abort", TalkNext,
         who \in 1..(N + 1), about \in Nat \ {0}, contributions \in Seq(Step),
         phase \in {"opening", "begin"} => who = 1 /\ contributions = <<>> /\ reviews = {}
  PROVE  TalkSaid'
<1> USE StepsAssumption, Callers
<1>0. ~Skippable
  BY DEF Skippable
<1>1. CASE StartDeliberation
  <2>1. phase' = "contribute" /\ who = 1 /\ contributions = <<>> /\ reviews = {}
        /\ UNCHANGED <<who, contributions, reviews>>
    BY <1>1 DEF StartDeliberation, Announce
  <2> QED
    BY <2>1 DEF TalkSaid, Contributed
<1>2. CASE AskContribution
  BY <1>2 DEF AskContribution, TalkSaid, Contributed, flowVars, talkVars
<1>3. CASE Contribute
  <2>1. /\ phase = "contribute" /\ phase' = "contribute" /\ who <= N
        /\ contributions' = Append(contributions, who) /\ who' = who + 1 /\ reviews' = reviews
    BY <1>0, <1>3, Participates DEF Contribute, flowVars
  <2>2. Len(contributions) = who - 1 /\ \A i \in 1..(who - 1) : contributions[i] = i
    BY <2>1 DEF TalkSaid, Contributed
  <2>3. /\ Len(contributions') = who /\ contributions'[who] = who
        /\ \A i \in 1..(who - 1) : contributions'[i] = i
    BY <2>1, <2>2 DEF Step
  <2>4. Contributed(who - 1)'
    BY <2>1, <2>3 DEF Contributed
  <2> QED
    BY <2>1, <2>4 DEF TalkSaid
<1>4. CASE ReviewsBegin
  <2>1. /\ phase = "contribute" /\ phase' = "review" /\ who = N + 1
        /\ who' = 1 /\ about' = 1 /\ UNCHANGED <<contributions, reviews, call>>
    BY <1>4 DEF ReviewsBegin, Proceed, superVars
  <2>2. Contributed(N) /\ reviews = {} /\ call[Main].at = "free"
    BY <2>1 DEF TalkSaid, TalkCalls
  <2>3. Reviewed' = {}
    BY <2>1 DEF Reviewed, Before, Step
  <2>4. Contributed(N)'
    BY <2>1, <2>2 DEF Contributed
  <2> QED
    BY <2>1, <2>2, <2>3, <2>4 DEF TalkSaid
<1>5. CASE SkipReview
  <2>1. /\ phase = "review" /\ phase' = "review" /\ who \in Step /\ call[Main].at = "free"
        /\ ~ToReview /\ NextReview /\ UNCHANGED <<contributions, reviews, call>>
    BY <1>5 DEF SkipReview, Reviewing, Step, flowVars, superVars
  <2>2. Contributed(N) /\ reviews = Reviewed /\ about \in Step /\ Len(contributions) = N
    BY <2>1 DEF TalkSaid, Contributed, Step
  <2>3. about = who
    BY <2>1, <2>2 DEF ToReview, Target, Contributed, Step
  <2>4. Contributed(N)'
    BY <2>1, <2>2 DEF Contributed
  <2>5. /\ about' \in Step /\ (who' > N => about' = 1) /\ Reviewed' = Reviewed
    BY <2>1, <2>2, <2>3, NextReviewed
  <2> QED
    BY <2>1, <2>2, <2>4, <2>5 DEF TalkSaid, Step
<1>6. CASE AskReview
  <2>1. /\ phase = "review" /\ ToReview /\ UNCHANGED <<flowVars, talkVars>>
    BY <1>6 DEF AskReview, Reviewing
  <2>2. Contributed(N) /\ reviews = Reviewed /\ about \in 1..N /\ (who > N => about = 1)
    BY <2>1 DEF TalkSaid
  <2>3. about # who
    BY <2>1, <2>2 DEF ToReview, Target, Contributed
  <2>4. Contributed(N)' /\ Reviewed' = Reviewed
    BY <2>1, <2>2 DEF Contributed, Reviewed, Before, talkVars
  <2> QED
    BY <2>1, <2>2, <2>3, <2>4 DEF TalkSaid, flowVars, talkVars
<1>7. CASE Review
  <2>1. /\ phase = "review" /\ phase' = "review" /\ call[Main].at = "calling" /\ Reset(Main)
        /\ reviews' = reviews \cup {<<who, Target>>}
        /\ NextReview /\ contributions' = contributions
    BY <1>0, <1>7 DEF Review, flowVars
  <2>2. /\ Contributed(N) /\ reviews = Reviewed /\ about \in Step /\ Len(contributions) = N
        /\ about # who /\ who \in Step
    BY <2>1, Participates DEF TalkSaid, Contributed, Step
  <2>3. Target = about
    BY <2>2 DEF Target, Contributed, Step
  <2>4. Contributed(N)'
    BY <2>1, <2>2 DEF Contributed
  <2>5. /\ about' \in Step /\ (who' > N => about' = 1) /\ Reviewed' = Reviewed \cup {<<who, about>>}
    BY <2>1, <2>2, NextReviewed
  <2>6. call'[Main].at = "free"
    BY <2>1, ResetQuiet
  <2> QED
    BY <2>1, <2>2, <2>3, <2>4, <2>5, <2>6 DEF TalkSaid, Step
<1>8. CASE TalkFails \/ TalkMisread \/ JudgeTalk \/ RetryTalk
  <2>1. /\ phase \in {"contribute", "review"} /\ UNCHANGED <<flowVars, talkVars>>
        /\ \/ \E e \in Error : Raise(Main, e)
           \/ Judge(Main, {"restart"})
           \/ Retry(Main)
    BY <1>8 DEF TalkFails, TalkMisread, JudgeTalk, RetryTalk, Talking, Misreading, Error
  <2>2. call[Main].at # "free"
    BY <2>1, RaiseMoves, JudgeMoves, RetryQuiet
  <2> QED
    BY <2>1, <2>2 DEF TalkSaid, Contributed, Reviewed, Before, flowVars, talkVars
<1>9. CASE ReviewsOver
  <2>1. /\ phase = "review" /\ phase' = "consolidate" /\ who = N + 1
        /\ UNCHANGED <<contributions, reviews>>
    BY <1>9 DEF ReviewsOver, Proceed, talkVars
  <2>2. Contributed(N) /\ reviews = Reviewed /\ about = 1
    BY <2>1 DEF TalkSaid
  <2>3. Reviewed = {pair \in Step \X Step : pair[1] # pair[2]}
    BY <2>1, <2>2 DEF Reviewed, Before, Step
  <2>4. Contributed(N)'
    BY <2>1, <2>2 DEF Contributed
  <2> QED
    BY <2>1, <2>2, <2>3, <2>4 DEF TalkSaid
<1>10. CASE Consolidate
  <2>1. phase = "consolidate" /\ \E verdict : Consolidated(verdict)
    BY <1>10 DEF Consolidate
  <2>2. Contributed(N) /\ reviews = {pair \in Step \X Step : pair[1] # pair[2]}
    BY <2>1 DEF TalkSaid
  <2>3. CASE phase' = "document" /\ UNCHANGED <<contributions, reviews>>
    <3>1. Contributed(N)'
      BY <2>2, <2>3 DEF Contributed
    <3> QED
      BY <2>2, <2>3, <3>1 DEF TalkSaid
  <2>4. CASE phase' = "contribute" /\ who' = 1 /\ contributions' = <<>> /\ reviews' = {}
    BY <2>4 DEF TalkSaid, Contributed
  <2> QED
    BY <2>1, <2>3, <2>4 DEF Consolidated, Proceed
<1>11. CASE TalkRefused \/ ProduceDocument \/ LeaderFails
  <2>1. phase' = "end"
    BY <1>11 DEF TalkRefused, ProduceDocument, LeaderFails, Conclude
  <2> QED
    BY <2>1 DEF TalkSaid
<1> QED
  BY <1>1, <1>2, <1>3, <1>4, <1>5, <1>6, <1>7, <1>8, <1>9, <1>10, <1>11 DEF TalkNext

LEMMA TalkQuietPolicy == TalkNext => onTimeout' = onTimeout
BY DEF TalkNext, StartDeliberation, AskContribution, Contribute, ReviewsBegin, SkipReview,
       AskReview, Review, TalkFails, TalkMisread, JudgeTalk, RetryTalk, TalkRefused, ReviewsOver,
       Consolidate, Consolidated, ProduceDocument, LeaderFails, Announce, Proceed, Conclude,
        flowVars

LEMMA TalkKeeps == TalkInv /\ PhaseFits /\ SuperInv /\ [Next]_vars => TalkInv'
<1> SUFFICES ASSUME TalkInv, PhaseFits, SuperInv, [Next]_vars, mode = "deliberation"
             PROVE  TalkInv'
  BY ModeStays DEF TalkInv
<1>0. mode' = mode /\ (~Ends => result = "none")
  BY ModeStays DEF PhaseFits
<1>1. CASE TalkNext
  <2>1. TalkCalls'
    BY <1>1, TalkCallsStep DEF TalkInv
  <2>2. who' \in 1..(N + 1) /\ about' \in Nat \ {0} /\ contributions' \in Seq(Step)
    BY <1>1, TalkTyped DEF TalkInv
  <2>3. phase' = "document" \/ result' = "finished" => sufficient' \/ round' = MaxRounds
    BY <1>0, <1>1, TalkDone DEF TalkInv
  <2>4. onTimeout' = onTimeout
    BY <1>1, TalkQuietPolicy
  <2>5. onTimeout = "abort" => TalkSaid'
    BY <1>1, TalkSaidStep DEF TalkInv
  <2>6. phase' \notin {"opening", "begin"}
    BY <1>1, TalkMode
  <2> QED
    BY <2>1, <2>2, <2>3, <2>4, <2>5, <2>6 DEF TalkInv
<1>2. CASE (Open \/ Invalid \/ Close) /\ UNCHANGED <<onTimeout, talkVars>>
  <2>1. /\ call' = call /\ UNCHANGED <<onTimeout, talkVars>>
        /\ phase \in {"opening", "begin", "end"} /\ phase' \in {"begin", "end", "over"}
        /\ phase' = "begin" => phase = "opening"
        /\ result' = result \/ result' = "failed"
    BY <1>2, Ceremonies
  <2>2. TalkCalls'
    BY <2>1 DEF TalkInv, TalkCalls, AllFree, NoneActive, Active, Ends
  <2>3. TalkSaid'
    BY <2>1 DEF TalkSaid
  <2> QED
    BY <2>1, <2>2, <2>3 DEF TalkInv, talkVars
<1>3. CASE CancelFlow /\ UNCHANGED <<onTimeout, talkVars>>
  <2>1. Lone
    <3>1. CASE phase \in {"contribute", "review"}
      BY <3>1 DEF TalkInv, TalkCalls, Lone, Active
    <3>2. CASE phase \in {"opening", "begin", "consolidate", "document"}
      BY <3>2 DEF TalkInv, TalkCalls, AllFree, Lone, Active
    <3>3. CASE Ends
      BY <3>3 DEF TalkInv, TalkCalls, NoneActive, Lone
    <3> QED
      BY <3>1, <3>2, <3>3 DEF PhaseFits, Workflow, Ends
  <2>2. NoneActive' /\ phase' = "over" /\ result' = result
    BY <1>3, <2>1, CancelEnds
  <2>3. TalkCalls' /\ TalkSaid'
    BY <2>2 DEF TalkCalls, TalkSaid, Ends
  <2> QED
    BY <1>3, <2>2, <2>3 DEF TalkInv, talkVars
<1>4. CASE UNCHANGED <<flowVars, call, talkVars>>
  <2>1. TalkCalls' <=> TalkCalls
    BY <1>4 DEF TalkCalls, AllFree, NoneActive, Ends, flowVars, talkVars
  <2>2. TalkSaid' <=> TalkSaid
    BY <1>4 DEF TalkSaid, Contributed, Reviewed, Before, flowVars, talkVars
  <2> QED
    BY <1>4, <2>1, <2>2 DEF TalkInv, flowVars, talkVars
<1> QED
  BY <1>1, <1>2, <1>3, <1>4, TalkMoves

-----------------------------------------------------------------------------
(* Sequences.                                                                *)

LEMMA RangeAppend ==
  ASSUME NEW q \in Seq(Step), NEW s \in Step
  PROVE  Range(Append(q, s)) = Range(q) \cup {s}
<1>1. /\ Len(Append(q, s)) = Len(q) + 1 /\ Append(q, s)[Len(q) + 1] = s
      /\ \A i \in 1..Len(q) : Append(q, s)[i] = q[i]
      /\ DOMAIN q = 1..Len(q) /\ DOMAIN Append(q, s) = 1..(Len(q) + 1) /\ Len(q) \in Nat
  OBVIOUS
<1>2. 1..(Len(q) + 1) = 1..Len(q) \cup {Len(q) + 1}
  BY <1>1
<1> QED
  BY <1>1, <1>2 DEF Range

LEMMA RangeSteps == \A q \in Seq(Step) : Range(q) \subseteq Step
BY DEF Range

LEMMA PrefixSelf == \A q \in Seq(Step) : IsPrefix(q, q) /\ IsPrefix(<<>>, q)
BY DEF IsPrefix

LEMMA PrefixAppend ==
  ASSUME NEW q \in Seq(Step), NEW r \in Seq(Step), NEW s \in Step, IsPrefix(q, r)
  PROVE  IsPrefix(q, Append(r, s))
<1>1. Len(q) <= Len(r) /\ SubSeq(q, 1, Len(q)) = SubSeq(r, 1, Len(q)) /\ Len(q) \in Nat
  BY DEF IsPrefix
<1>2. SubSeq(Append(r, s), 1, Len(q)) = SubSeq(r, 1, Len(q))
  BY <1>1
<1> QED
  BY <1>1, <1>2 DEF IsPrefix

LEMMA SeqMoves ==
  ASSUME PhaseFits, mode = "sequence", [Next]_vars
  PROVE  \/ StartSequence \/ LoadFails \/ StepsOver \/ StepsFail \/ Synthesize
         \/ \E s \in Step : SequenceStep(s)
         \/ (Open \/ Invalid \/ Close \/ CancelFlow) /\ UNCHANGED workVars
         \/ Restore
         \/ UNCHANGED <<flowVars, call, workVars>>
<1>1. CASE Runs
  <2>1. ~(TalkNext \/ LoopNext)
    BY LoopMode, TalkMode
  <2>2. PipeNext \/ FanNext => UNCHANGED <<flowVars, call>>
    BY PipeMode, FanMode, FanCalls, PipeCalls DEF superVars
  <2>3. Open \/ Invalid \/ Close => UNCHANGED workVars
    BY DEF Open, Invalid, Close
  <2>4. ~(StartBranches \/ HaltBranches \/ BranchesCancelled)
    BY DEF StartBranches, HaltBranches, BranchesCancelled, AtBranch, Announce
  <2>5. \A s \in Step : ~BranchStep(s)
    BY DEF BranchStep, BranchAnswers, BranchFails, BranchRetries, BranchCancelled, AtBranch
  <2>6. WorkNext => \/ StartSequence \/ LoadFails \/ StepsOver \/ StepsFail \/ Synthesize
                    \/ \E s \in Step : SequenceStep(s)
    BY <2>4, <2>5 DEF WorkNext
  <2> QED
    BY <1>1, <2>1, <2>2, <2>3, <2>4, <2>6 DEF Runs
<1>2. CASE CancelFlow
  BY <1>2 DEF CancelFlow
<1>3. ~CancelBranches
  BY DEF CancelBranches, AtBranch
<1>4. CASE SlideAny \/ UNCHANGED vars
  BY <1>4 DEF SlideAny, Slide, vars, superVars
<1> QED
  BY <1>1, <1>2, <1>3, <1>4 DEF Next

\* The call of the step at hand goes on.
LEMMA CallGoesOn ==
  ASSUME SeqInv, mode = "sequence", phase = "steps", phase' = "steps",
         UNCHANGED <<mode, result, pass, cursor>>, cursor \in Caller, cursor \notin pass,
         \A c \in Caller : c # cursor => call'[c] = call[c]
  PROVE  SeqCalls'
BY Callers DEF SeqInv, SeqCalls, Ends, SeqKept

\* A step that is passed through, or whose output is in the state, is behind.
LEMMA CoversNext ==
  ASSUME cursor \in Step, chain \in Seq(Step), Covers(chain, cursor),
         cursor \in pass \/ cursor \in Range(chain)
  PROVE  Covers(chain, cursor + 1) /\ cursor + 1 \notin Range(chain)
<1>1. Range(chain) \subseteq Step
  BY RangeSteps
<1>2. \A s \in Step : s < cursor + 1 => s < cursor \/ s = cursor
  BY StepsAssumption DEF Step
<1>3. \A s \in Range(chain) : s <= cursor + 1 /\ s # cursor + 1
  BY <1>1, StepsAssumption DEF Covers, Step
<1> QED
  BY <1>2, <1>3 DEF Covers

\* The flow goes on to the next step, with or without a checkpoint.
LEMMA GoesOn ==
  ASSUME SeqInv, mode = "sequence", phase = "steps", result = "none",
         UNCHANGED <<mode, phase, result, pass, chain, lapses>>, cursor \in Step,
         cursor \in pass \/ cursor \in Range(chain),
         cursor' = cursor + 1, saved' \in {saved, [state |-> chain, index |-> cursor + 1]},
         \A c \in Caller : c # cursor => call'[c] = call[c],
         call'[cursor].at \in {"free", "done"}, cursor \in pass => call'[cursor].at = "free"
  PROVE  SeqInv'
<1> USE StepsAssumption, Callers
<1>1. /\ chain \in Seq(Step) /\ SeqKept /\ SeqCalls /\ SeqWork
      /\ Covers(chain, cursor + 1) /\ cursor + 1 \notin Range(chain)
  BY CoversNext DEF SeqInv, SeqWork
<1>2. cursor' \in 1..(N + 1) /\ cursor' # cursor
  BY DEF Step
<1>3. SeqKept'
  <2>1. CASE saved' = saved
    BY <1>1, <2>1 DEF SeqKept, Covers
  <2>2. CASE saved' = [state |-> chain, index |-> cursor + 1]
    BY <1>1, <1>2, <2>2 DEF SeqKept, Covers
  <2> QED
    BY <2>1, <2>2
<1>4. SeqCalls'
  BY <1>1, <1>2 DEF SeqCalls, SeqKept, Ends
<1>5. ~Answered'
  BY <1>1, <1>2 DEF Answered, SeqCalls
<1>6. IsPrefix(saved'.state, chain)
  BY <1>1, PrefixSelf DEF SeqWork
<1>7. SeqWork'
  BY <1>1, <1>5, <1>6 DEF SeqWork, Covers
<1> QED
  BY <1>1, <1>2, <1>3, <1>4, <1>7 DEF SeqInv

\* A run ends with a call that is over.
LEMMA StepsEnd ==
  ASSUME SeqInv, mode = "sequence", phase = "steps",
         UNCHANGED <<mode, pass, cursor, chain, saved>>, lapses' \in {lapses, lapses + 1},
         phase' = "end", result' # "finished",
         \A c \in Caller : c # cursor => call'[c] = call[c],
         cursor \in Caller => call'[cursor].at \notin Active,
         cursor \in pass => call'[cursor].at = "free"
  PROVE  SeqInv'
<1> USE StepsAssumption, Callers
<1>1. SeqKept /\ SeqCalls
  BY DEF SeqInv
<1>2. SeqKept'
  BY <1>1 DEF SeqKept, Covers
<1>3. SeqCalls'
  BY <1>1 DEF SeqCalls, SeqKept, NoneActive, Active, Ends
<1> QED
  BY <1>2, <1>3 DEF SeqInv

LEMMA SeqStepKeeps ==
  ASSUME SeqInv, PhaseFits, SuperInv, mode = "sequence", NEW s \in Step, SequenceStep(s)
  PROVE  SeqInv'
<1> USE Callers
<1>0. /\ mode' = mode /\ phase = "steps" /\ result = "none"
      /\ cursor \in 1..(N + 1) /\ chain \in Seq(Step) /\ SeqKept /\ SeqCalls /\ SeqWork
  BY DEF SeqInv, PhaseFits, Ends, SequenceStep, PassThrough, EnterStep, StepAnswers, KeepStep,
         StepFails, JudgeStep, RetryStep, AtStep, Conclude, flowVars
<1>1. CASE PassThrough(s)
  <2>1. /\ cursor = s /\ s \in pass /\ UNCHANGED <<pass, chain, call>>
        /\ call[s].at = "free" /\ "free" \notin Active
    BY <1>0, <1>1 DEF PassThrough, AtStep, planVars, superVars, SeqCalls, Active
  <2>2. CASE /\ IF durable THEN Save(chain, s + 1) ELSE UNCHANGED <<saved, lapses>>
             /\ cursor' = s + 1
             /\ UNCHANGED <<flowVars, superVars>>
    BY <1>0, <2>1, <2>2, GoesOn DEF Save, flowVars
  <2>3. CASE Lapse /\ Conclude("RUN_FAILED", "failed") /\ UNCHANGED <<cursor, superVars>>
    BY <1>0, <2>1, <2>3, StepsEnd DEF Lapse, Conclude
  <2> QED
    BY <1>1, <2>2, <2>3 DEF PassThrough
<1>2. CASE KeepStep(s)
  <2>1. /\ cursor = s /\ Move(s, "answered", "done") /\ UNCHANGED <<flowVars, planVars, chain>>
        /\ cursor' = s + 1
        /\ IF durable THEN Save(chain, s + 1) ELSE UNCHANGED <<saved, lapses>>
    BY <1>2 DEF KeepStep, AtStep, Settle
  <2>2. /\ call[s].at = "answered" /\ call'[s].at = "done"
        /\ \A d \in Caller : d # s => call'[d] = call[d]
    BY <2>1, MoveQuiet
  <2>3. cursor \in Range(chain) /\ cursor \notin pass
    BY <1>0, <2>1, <2>2 DEF SeqWork, SeqCalls, Answered
  <2> QED
    BY <1>0, <2>1, <2>2, <2>3, GoesOn DEF Save, flowVars, planVars
<1>3. CASE EnterStep(s)
  <2>1. /\ cursor = s /\ s \notin pass /\ Begin(s, name[s]) /\ UNCHANGED <<flowVars, workVars>>
    BY <1>3 DEF EnterStep, AtStep
  <2>2. /\ call[s].at = "free" /\ call'[s].at = "calling"
        /\ \A d \in Caller : d # s => call'[d] = call[d]
    BY <2>1, BeginQuiet
  <2>3. SeqCalls'
    BY <1>0, <2>1, <2>2, CallGoesOn DEF flowVars, workVars, planVars
  <2>4. SeqWork'
    BY <1>0, <2>1, <2>2 DEF SeqWork, Answered, Covers, workVars, planVars
  <2> QED
    BY <1>0, <2>1, <2>3, <2>4 DEF SeqInv, SeqKept, Covers, flowVars, workVars, planVars
<1>4. CASE StepAnswers(s)
  <2>1. /\ cursor = s /\ Move(s, "calling", "answered") /\ chain' = Append(chain, s)
        /\ UNCHANGED <<flowVars, pass, cursor, saved, lapses>>
    BY <1>4 DEF StepAnswers, AtStep, Answer, planVars
  <2>2. /\ call[s].at = "calling" /\ call'[s].at = "answered"
        /\ \A d \in Caller : d # s => call'[d] = call[d]
    BY <2>1, MoveQuiet
  <2>3. s \notin pass
    BY <1>0, <2>2 DEF SeqCalls
  <2>4. SeqCalls'
    BY <1>0, <2>1, <2>2, <2>3, CallGoesOn DEF flowVars
  <2>5. /\ Range(chain') = Range(chain) \cup {s} /\ chain' \in Seq(Step)
    BY <1>0, <2>1, RangeAppend
  <2>6. IsPrefix(saved'.state, chain')
    BY <1>0, <2>1, PrefixAppend DEF SeqWork, SeqKept
  <2>7. Covers(chain, cursor)' /\ Answered'
    BY <1>0, <2>1, <2>2, <2>5, StepsAssumption DEF SeqWork, Covers, Answered, Step
  <2>8. SeqWork'
    BY <2>1, <2>5, <2>6, <2>7 DEF SeqWork
  <2>9. SeqKept'
    BY <1>0, <2>1 DEF SeqKept, Covers
  <2> QED
    BY <1>0, <2>1, <2>4, <2>5, <2>8, <2>9 DEF SeqInv, flowVars
<1>5. CASE StepFails(s)
  <2>1. /\ cursor = s /\ \E e \in Error : Raise(s, e)
        /\ UNCHANGED <<flowVars, pass, cursor, chain, saved>>
        /\ IF call[s].at = "answered" THEN lapses' = lapses + 1 ELSE lapses' = lapses
    BY <1>5 DEF StepFails, AtStep, Lapse, planVars
  <2>2. /\ call[s].at \in {"calling", "answered"} /\ call'[s].at \in {"refused", "judged"}
        /\ \A d \in Caller : d # s => call'[d] = call[d]
    BY <2>1, RaiseMoves
  <2>3. s \notin pass
    BY <1>0, <2>2 DEF SeqCalls
  <2>4. SeqCalls'
    BY <1>0, <2>1, <2>2, <2>3, CallGoesOn DEF flowVars
  <2>5. lapses \in Nat /\ lapses' \in Nat /\ lapses' >= lapses
    BY <1>0, <2>1 DEF SeqKept
  <2>6. SeqKept'
    BY <1>0, <2>1, <2>5 DEF SeqKept, Covers
  <2>7. cursor \in Range(chain) => lapses' > 0
    BY <1>0, <2>1, <2>5 DEF SeqWork, Answered
  <2>8. ~Answered'
    BY <2>1, <2>2 DEF Answered
  <2>9. SeqWork'
    BY <1>0, <2>1, <2>7, <2>8 DEF SeqWork, Covers
  <2> QED
    BY <1>0, <2>1, <2>4, <2>6, <2>9 DEF SeqInv, flowVars
<1>6. CASE JudgeStep(s)
  <2>1. Judge(s, {"restart", "resume"}) /\ UNCHANGED <<flowVars, workVars>>
    BY <1>6 DEF JudgeStep
  <2>2. /\ call[s].at = "judged" /\ call'[s].at \in {"granted", "refused"}
        /\ \A d \in Caller : d # s => call'[d] = call[d]
    BY <2>1, JudgeMoves
  <2>3. s = cursor /\ s \notin pass
    BY <1>0, <2>2 DEF SeqCalls
  <2>4. SeqCalls'
    BY <1>0, <2>1, <2>2, <2>3, CallGoesOn DEF flowVars, workVars, planVars
  <2>5. SeqWork'
    BY <1>0, <2>1, <2>2, <2>3 DEF SeqWork, Answered, Covers, workVars, planVars
  <2> QED
    BY <1>0, <2>1, <2>4, <2>5 DEF SeqInv, SeqKept, Covers, flowVars, workVars, planVars
<1>7. CASE RetryStep(s)
  <2>1. /\ cursor = s /\ UNCHANGED <<pass, cursor, chain>>
    BY <1>7 DEF RetryStep, AtStep, planVars
  <2>2. CASE /\ Retry(s)
             /\ IF strategy = "resume" /\ durable THEN Save(chain, s)
                                                  ELSE UNCHANGED <<saved, lapses>>
             /\ UNCHANGED flowVars
    <3>1. /\ call[s].at = "granted" /\ call'[s].at = "calling"
          /\ \A d \in Caller : d # s => call'[d] = call[d]
      BY <2>2, RetryQuiet
    <3>2. s \notin pass
      BY <1>0, <3>1 DEF SeqCalls
    <3>3. SeqCalls'
      BY <1>0, <2>1, <2>2, <3>1, <3>2, CallGoesOn DEF flowVars
    <3>4. lapses' = lapses /\ saved' \in {saved, [state |-> chain, index |-> s]}
      BY <2>2 DEF Save
    <3>5. cursor \in Range(chain) => lapses > 0
      BY <1>0, <2>1, <3>1 DEF SeqWork, Answered
    <3>6. SeqKept'
      <4>1. CASE saved' = saved
        BY <1>0, <2>1, <3>4, <4>1 DEF SeqKept, Covers
      <4>2. CASE saved' = [state |-> chain, index |-> s]
        BY <1>0, <2>1, <3>4, <3>5, <4>2 DEF SeqKept, SeqWork, Covers
      <4> QED
        BY <3>4, <4>1, <4>2
    <3>7. IsPrefix(saved'.state, chain)
      BY <1>0, <3>4, PrefixSelf DEF SeqWork
    <3>8. ~Answered'
      BY <2>1, <3>1 DEF Answered
    <3>9. SeqWork'
      BY <1>0, <2>1, <3>4, <3>5, <3>7, <3>8 DEF SeqWork, Covers
    <3> QED
      BY <1>0, <2>1, <2>2, <3>3, <3>6, <3>9 DEF SeqInv, flowVars
  <2>3. CASE strategy = "resume" /\ Lapse /\ Move(s, "granted", "refused")
             /\ Conclude("RUN_FAILED", "failed")
    <3>1. /\ call[s].at = "granted" /\ call'[s].at = "refused"
          /\ \A d \in Caller : d # s => call'[d] = call[d]
      BY <2>3, MoveQuiet
    <3>2. s \notin pass /\ "refused" \notin Active
      BY <1>0, <3>1 DEF SeqCalls, Active
    <3> QED
      BY <1>0, <2>1, <2>3, <3>1, <3>2, StepsEnd DEF Lapse, Conclude
  <2> QED
    BY <1>7, <2>2, <2>3 DEF RetryStep
<1> QED
  BY <1>1, <1>2, <1>3, <1>4, <1>5, <1>6, <1>7 DEF SequenceStep

LEMMA SeqKeeps == SeqInv /\ PhaseFits /\ SuperInv /\ [Next]_vars => SeqInv'
<1> SUFFICES ASSUME SeqInv, PhaseFits, SuperInv, [Next]_vars, mode = "sequence" PROVE SeqInv'
  BY ModeStays DEF SeqInv
<1> USE Callers
<1>0. /\ mode' = mode /\ (~Ends => result = "none")
      /\ cursor \in 1..(N + 1) /\ chain \in Seq(Step) /\ SeqKept /\ SeqCalls
      /\ "free" \notin Active /\ "done" \notin Active
  BY ModeStays DEF PhaseFits, SeqInv, Active
<1>1. ASSUME NEW s \in Step, SequenceStep(s) PROVE SeqInv'
  BY <1>1, SeqStepKeeps
<1>2. CASE StartSequence
  <2>1. /\ phase = "begin" /\ phase' = "steps" /\ UNCHANGED <<result, call, pass, saved, lapses>>
        /\ chain' = saved.state /\ cursor' = saved.index
    BY <1>2 DEF StartSequence, Announce, superVars, planVars
  <2>2. SeqKept' /\ AllFree
    BY <1>0, <2>1 DEF SeqKept, Covers, SeqCalls
  <2>3. SeqCalls'
    BY <1>0, <2>1, <2>2 DEF SeqCalls, SeqKept, AllFree, Ends
  <2>4. IsPrefix(saved'.state, chain')
    BY <1>0, <2>1, PrefixSelf DEF SeqKept
  <2>5. SeqWork'
    BY <1>0, <2>1, <2>2, <2>4 DEF SeqWork, SeqKept, Covers, Answered, AllFree
  <2> QED
    BY <1>0, <2>1, <2>2, <2>3, <2>5 DEF SeqInv, SeqKept, Ends
<1>3. CASE LoadFails
  <2>1. /\ phase = "begin" /\ phase' = "end" /\ result' = "failed" /\ lapses' = lapses + 1
        /\ UNCHANGED <<call, pass, saved, cursor, chain>>
    BY <1>3 DEF LoadFails, superVars, planVars
  <2>2. SeqKept'
    BY <1>0, <2>1 DEF SeqKept, Covers
  <2>3. SeqCalls'
    BY <1>0, <2>1 DEF SeqCalls, AllFree, NoneActive, Active, Ends
  <2> QED
    BY <1>0, <2>1, <2>2, <2>3 DEF SeqInv
<1>4. CASE StepsOver \/ Synthesize
  <2>1. /\ UNCHANGED <<call, workVars>> /\ cursor = N + 1
        /\ phase \in {"steps", "synthesis"} /\ phase' \in {"synthesis", "end"}
    BY <1>4 DEF StepsOver, Synthesize, Verdict, Proceed, Conclude, superVars, SeqInv
  <2>2. SeqCalls'
    BY <1>0, <2>1, StepsAssumption
       DEF SeqCalls, NoneActive, Active, Ends, Step, workVars, planVars
  <2>3. SeqWork /\ SeqWork'
    BY <2>1 DEF SeqInv, SeqWork, Covers, Answered, workVars, planVars
  <2>4. SeqKept'
    BY <1>0, <2>1 DEF SeqKept, Covers, workVars, planVars
  <2> QED
    BY <1>0, <2>1, <2>2, <2>3, <2>4 DEF SeqInv, workVars
<1>5. CASE StepsFail
  <2>1. /\ UNCHANGED <<call, workVars>> /\ phase = "steps" /\ phase' = "end"
        /\ result' \in {"timed_out", "failed"} /\ \E s \in Step : call[s].at = "refused"
    BY <1>5 DEF StepsFail, Refused, Verdict, Conclude, superVars
  <2>2. cursor \in Caller /\ call[cursor].at = "refused" /\ "refused" \notin Active
    BY <1>0, <2>1 DEF SeqCalls, Active
  <2>3. cursor \notin pass
    BY <1>0, <2>2 DEF SeqCalls
  <2> QED
    BY <1>0, <2>1, <2>2, <2>3, StepsEnd DEF workVars, planVars
<1>6. CASE (Open \/ Invalid \/ Close) /\ UNCHANGED workVars
  <2>1. /\ call' = call /\ UNCHANGED <<pass, cursor, chain, saved, lapses>>
        /\ phase \in {"opening", "begin", "end"} /\ phase' \in {"begin", "end", "over"}
        /\ phase' = "begin" => phase = "opening"
        /\ phase' = "end" => phase = "begin"
        /\ result' = result \/ result' = "failed"
    BY <1>6, Ceremonies DEF workVars, planVars
  <2>2. SeqKept'
    BY <1>0, <2>1 DEF SeqKept, Covers
  <2>3. SeqCalls'
    BY <1>0, <2>1 DEF SeqCalls, AllFree, NoneActive, Active, Ends
  <2>4. result = "finished" => SeqWork'
    BY <2>1 DEF SeqInv, SeqWork, Covers, Answered
  <2> QED
    BY <1>0, <2>1, <2>2, <2>3, <2>4 DEF SeqInv
<1>7. CASE CancelFlow /\ UNCHANGED workVars
  <2>1. Lone
    BY <1>0 DEF SeqCalls, Lone, Active
  <2>2. NoneActive' /\ phase' = "over" /\ result' = result
    BY <1>7, <2>1, CancelEnds
  <2>3. SeqKept'
    BY <1>0, <1>7 DEF SeqKept, Covers, workVars, planVars
  <2>4. SeqCalls'
    <3>1. ASSUME NEW c \in Caller, Cancel(c) PROVE SeqCalls'
      <4>1. /\ call[c].at \in Active /\ call'[c].at = "cancelled"
            /\ \A d \in Caller : d # c => call'[d] = call[d]
        BY <3>1, CancelQuiet
      <4>2. c \notin pass /\ c = cursor
        BY <1>0, <4>1 DEF SeqCalls, Active
      <4> QED
        BY <1>0, <1>7, <2>2, <4>1, <4>2 DEF SeqCalls, SeqKept, Ends, workVars, planVars
    <3>2. CASE UNCHANGED superVars
      BY <1>0, <1>7, <2>2, <3>2 DEF SeqCalls, Ends, superVars, workVars, planVars
    <3> QED
      BY <1>7, <3>1, <3>2 DEF CancelFlow
  <2>5. result = "finished" => SeqWork'
    <3>1. SUFFICES ASSUME result = "finished" PROVE SeqWork'
      OBVIOUS
    <3>2. Ends
      BY <1>0, <3>1
    <3>3. call' = call
      BY <1>0, <1>7, <3>2, CancelNobody DEF SeqCalls
    <3> QED
      BY <1>7, <3>1, <3>3 DEF SeqInv, SeqWork, Covers, Answered, workVars, planVars
  <2> QED
    BY <1>0, <1>7, <2>2, <2>3, <2>4, <2>5 DEF SeqInv, workVars
<1>8. CASE Restore
  <2>1. /\ phase' = "opening" /\ result' = "none" /\ UNCHANGED <<pass, saved, lapses>>
        /\ cursor' = 1 /\ chain' = <<>> /\ call' = [c \in Caller |-> NoCall]
    BY <1>8 DEF Restore, Renew, planVars
  <2>2. AllFree'
    <3>1. NoCall.at = "free"
      BY DEF NoCall
    <3> QED
      BY <2>1, <3>1 DEF AllFree
  <2>3. SeqKept'
    BY <1>0, <2>1 DEF SeqKept, Covers
  <2>4. SeqCalls'
    BY <1>0, <2>1, <2>2 DEF SeqCalls, SeqKept, AllFree, Ends
  <2> QED
    BY <1>0, <2>1, <2>3, <2>4, StepsAssumption DEF SeqInv
<1>9. CASE UNCHANGED <<flowVars, call, workVars>>
  <2>1. UNCHANGED <<phase, result, call, pass, cursor, chain, saved, lapses>>
    BY <1>9 DEF flowVars, workVars, planVars
  <2>2. SeqKept' /\ SeqCalls'
    BY <1>0, <2>1 DEF SeqKept, Covers, SeqCalls, AllFree, NoneActive, Ends
  <2>3. SeqWork' <=> SeqWork
    BY <2>1 DEF SeqWork, Covers, Answered
  <2> QED
    BY <1>0, <2>1, <2>2, <2>3 DEF SeqInv
<1> QED
  BY <1>1, <1>2, <1>3, <1>4, <1>5, <1>6, <1>7, <1>8, <1>9, SeqMoves

-----------------------------------------------------------------------------
(* All together.                                                             *)

LEMMA FlowStart == FlowInit => FlowInv
<1> SUFFICES ASSUME FlowInit PROVE FlowInv
  OBVIOUS
<1> USE StepsAssumption
<1>1. SuperInv /\ PhaseFits /\ GateInv /\ BookInv /\ RecordInv /\ AllFree
  BY SuperStart, PhasesStart, PipeStart, AllFreeStart DEF FlowInit
<1>2. /\ phase = "opening" /\ result = "none"
      /\ WorkInit /\ TalkInit /\ FanInit
  BY DEF FlowInit
<1>3. SeqInv
  <2>1. /\ pass \subseteq Step /\ cursor = 1 /\ chain = <<>> /\ lapses = 0
        /\ saved.state = <<>> /\ saved.index = 1
    BY <1>2 DEF WorkInit, NoCheckpoint
  <2>2. Range(<<>>) = {}
    BY DEF Range
  <2>3. SeqKept
    BY <2>1, <2>2 DEF SeqKept, Covers, Step
  <2>4. SeqCalls
    BY <1>1, <1>2, <2>1, Callers DEF SeqCalls, AllFree, Ends
  <2> QED
    BY <1>2, <2>1, <2>3, <2>4 DEF SeqInv
<1>4. BranchInv /\ LoopInv
  BY <1>1, <1>2 DEF BranchInv, LoopInv, Ends
<1>5. TalkInv
  BY <1>1, <1>2 DEF TalkInv, TalkCalls, TalkSaid, TalkInit, Ends
<1>6. TeamInv
  <2>1. /\ spawned = 0 /\ group = {} /\ failurePolicy \in {"isolate", "abort_team"}
        /\ DOMAIN mate = Step /\ DOMAIN contribution = Step
        /\ \A t \in Step : mate[t] = "unborn" /\ t > 0
    BY <1>2 DEF FanInit, Step
  <2>2. Crew
    BY <2>1 DEF Crew
  <2> QED
    BY <1>2, <2>1, <2>2 DEF TeamInv
<1>7. FreeInv
  BY <1>1 DEF FreeInv
<1> QED
  BY <1>1, <1>3, <1>4, <1>5, <1>6, <1>7 DEF FlowInv

LEMMA FlowKeeps == FlowInv /\ [Next]_vars => FlowInv'
<1> SUFFICES ASSUME FlowInv, [Next]_vars PROVE FlowInv'
  OBVIOUS
<1>1. /\ SuperInv /\ PhaseFits
      /\ SeqInv /\ BranchInv /\ TalkInv /\ LoopInv /\ TeamInv /\ FreeInv
      /\ GateInv /\ BookInv /\ RecordInv
  BY DEF FlowInv
<1>2. SuperInv'
  BY <1>1, SuperKeeps, Supervised DEF SuperStep, vars
<1> HIDE DEF Next
<1>3. PhaseFits'
  BY <1>1, PhasesKeep
<1>4. SeqInv'
  BY <1>1, SeqKeeps
<1>5. BranchInv'
  BY <1>1, BranchKeeps
<1>6. TalkInv'
  BY <1>1, TalkKeeps
<1>7. LoopInv'
  BY <1>1, LoopKeeps
<1>8. TeamInv'
  BY <1>1, TeamKeeps
<1>9. FreeInv'
  BY <1>1, FreeKeeps
<1>10. GateInv' /\ BookInv' /\ RecordInv'
  BY <1>1, PipeKeeps
<1> QED
  BY <1>2, <1>3, <1>4, <1>5, <1>6, <1>7, <1>8, <1>9, <1>10 DEF FlowInv

LEMMA FlowSafe == Spec => []FlowInv
<1>1. FlowInit => FlowInv
  BY FlowStart
<1>2. FlowInv /\ [Next]_vars => FlowInv'
  BY FlowKeeps
<1> QED
  BY <1>1, <1>2, PTL DEF Spec

\* At the end of a run no call and no teammate is left.
LEMMA EndsQuiet == FlowInv => NothingLeftRunning
<1> SUFFICES ASSUME FlowInv, phase \in {"end", "over"} PROVE NothingLeftRunning
  BY DEF NothingLeftRunning
<1>1. /\ Ends /\ PhaseFits
      /\ SeqInv /\ BranchInv /\ TalkInv /\ LoopInv /\ TeamInv /\ FreeInv
  BY DEF FlowInv, Ends
<1>2. \A c \in Caller : call[c].at \notin Active
  <2>1. CASE mode \in {"pipeline", "team"}
    BY <1>1, <2>1 DEF FreeInv, AllFree, Active
  <2>2. CASE mode = "sequence"
    BY <1>1, <2>2 DEF SeqInv, SeqCalls, NoneActive
  <2>3. CASE mode = "fan-out"
    BY <1>1, <2>3 DEF BranchInv, NoneActive
  <2>4. CASE mode = "deliberation"
    BY <1>1, <2>4 DEF TalkInv, TalkCalls, NoneActive
  <2>5. CASE mode = "loop"
    BY <1>1, <2>5 DEF LoopInv, NoneActive
  <2> QED
    BY <1>1, <2>1, <2>2, <2>3, <2>4, <2>5 DEF PhaseFits, Mode
<1>3. \A t \in Step : mate[t] \in Gone \cup {"unborn"}
  BY <1>1 DEF TeamInv
<1> QED
  BY <1>2, <1>3 DEF NothingLeftRunning

\* A step before the end of a sequence is in its output, or has no agent.
LEMMA ChainWhole ==
  ASSUME SeqInv, mode = "sequence", result = "finished"
  PROVE  cursor = N + 1 /\ Step \ pass \subseteq Range(chain)
<1>1. cursor = N + 1 /\ Covers(chain, cursor)
  BY DEF SeqInv, SeqWork
<1>2. \A s \in Step : s < N + 1
  BY StepsAssumption DEF Step
<1> QED
  BY <1>1, <1>2 DEF Covers

\* A coordination that returns FINISHED has done the work of its mode, and no
\* run leaves a call of an agent or a teammate behind: for every team size,
\* plan, policy and interleaving of failures, retries and cancellations in
\* WorkflowRuntime, DeliberationRuntime, AgenticLoopRuntime and TeamRuntime.
THEOREM EndsMeanDone == Spec => []EndMeansDone
<1>1. FlowInv => EndMeansDone
  <2> SUFFICES ASSUME FlowInv PROVE EndMeansDone
    OBVIOUS
  <2>1. NothingLeftRunning
    BY EndsQuiet
  <2>2. SeqInv /\ BranchInv /\ TalkInv /\ TeamInv
    BY DEF FlowInv
  <2>3. FinishedMeansDone
    <3> SUFFICES ASSUME result = "finished" PROVE FinishedMeansDone
      BY DEF FinishedMeansDone
    <3>1. mode = "sequence" => cursor = N + 1 /\ Step \ pass \subseteq Range(chain)
      BY <2>2, ChainWhole
    <3>2. mode = "fan-out" => \A s \in Step : call[s].at = "done"
      BY <2>2, Callers DEF BranchInv
    <3>3. mode = "deliberation" => sufficient \/ round = MaxRounds
      BY <2>2 DEF TalkInv
    <3>4. mode = "team" => \A t \in Step : mate[t] = "left"
      BY <2>2 DEF TeamInv
    <3> QED
      BY <3>1, <3>2, <3>3, <3>4 DEF FinishedMeansDone
  <2> QED
    BY <2>1, <2>3 DEF EndMeansDone
<1> QED
  BY <1>1, FlowSafe, PTL

\* The leader of a deliberation has every review of every contribution when
\* turns are not skipped, and the lead of a team every contribution.
THEOREM EndsAreInformed == Spec => []InformedEnd
<1>1. FlowInv => InformedEnd
  <2> SUFFICES ASSUME FlowInv PROVE InformedEnd
    OBVIOUS
  <2>1. PhaseFits /\ TalkInv /\ TeamInv
    BY DEF FlowInv
  <2>2. LeadInformed
    BY <2>1 DEF TeamInv, LeadInformed
  <2>3. ASSUME phase \in {"consolidate", "document"}, onTimeout = "abort"
        PROVE  /\ Range(contributions) = Step
               /\ reviews = {pair \in Step \X Step : pair[1] # pair[2]}
    <3>1. mode = "deliberation"
      BY <2>1, <2>3 DEF PhaseFits, PipelinePhase, Workflow
    <3>2. /\ contributions \in Seq(Step) /\ Contributed(N)
          /\ reviews = {pair \in Step \X Step : pair[1] # pair[2]}
      BY <2>1, <2>3, <3>1 DEF TalkInv, TalkSaid
    <3>3. DOMAIN contributions = Step /\ \A i \in Step : contributions[i] = i
      BY <3>2 DEF Contributed, Step
    <3> QED
      BY <3>2, <3>3 DEF Range
  <2> QED
    BY <2>2, <2>3 DEF InformedEnd, PeersReviewed
<1> QED
  BY <1>1, FlowSafe, PTL

-----------------------------------------------------------------------------
(* A sequence of steps implements StepChain.                                 *)

Work == IF chain = <<>> THEN saved.state ELSE chain
Success == mode = "sequence" /\ result = "finished"

\* The state of StepChain stays: written out, to be met by every other step.
ChainStays ==
  /\ UNCHANGED <<mode, pass>>
  /\ Work' = Work /\ saved'.state = saved.state
  /\ lapses' = lapses
  /\ Success' <=> Success

LEMMA StaysStutters == ChainStays => UNCHANGED Sequence!vars
<1> SUFFICES ASSUME ChainStays PROVE UNCHANGED Sequence!vars
  OBVIOUS
<1>1. Success' = Success
  BY DEF ChainStays, Success
<1>2. (IF mode' = "sequence" THEN Step \ pass' ELSE {})
        = IF mode = "sequence" THEN Step \ pass ELSE {}
  BY DEF ChainStays
<1>3. (lapses' > 0) = (lapses > 0)
  BY DEF ChainStays
<1> QED
  BY <1>1, <1>2, <1>3 DEF ChainStays, Success, Work, Sequence!vars

\* On the way, and after a success, the state is the chain itself.
LEMMA WorkIsChain ==
  ASSUME SeqInv, mode = "sequence", SeqWork
  PROVE  Work = chain
<1>1. /\ chain \in Seq(Step) /\ saved.state \in Seq(Step) /\ IsPrefix(saved.state, chain)
  BY DEF SeqInv, SeqKept, SeqWork
<1>2. CASE chain = <<>>
  <2>1. Len(saved.state) <= 0
    BY <1>1, <1>2 DEF IsPrefix
  <2>2. saved.state = <<>>
    BY <1>1, <2>1
  <2> QED
    BY <1>2, <2>2 DEF Work
<1> QED
  BY <1>2 DEF Work

LEMMA ChainDoes ==
  ASSUME SeqInv, PhaseFits, SuperInv, mode = "sequence", NEW s \in Step, StepAnswers(s)
  PROVE  Sequence!Do(s) /\ s \in Step \ pass
<1>1. /\ mode' = mode /\ phase = "steps" /\ result = "none" /\ cursor = s
      /\ chain \in Seq(Step) /\ SeqCalls /\ SeqWork /\ Work = chain
  BY WorkIsChain DEF SeqInv, PhaseFits, Ends, StepAnswers, AtStep, flowVars
<1>2. /\ Move(s, "calling", "answered") /\ chain' = Append(chain, s)
      /\ UNCHANGED <<mode, result, pass, saved, lapses>>
  BY DEF StepAnswers, Answer, planVars, flowVars
<1>3. call[s].at = "calling" /\ s \notin pass
  BY <1>1, <1>2, Callers DEF Move, SeqCalls
<1>4. Work' = Append(Work, s)
  <2>1. chain' # <<>>
    BY <1>1, <1>2
  <2> QED
    BY <1>1, <1>2, <2>1 DEF Work
<1>5. \A r \in Step : Sequence!Done(r) <=> r \in Range(chain)
  BY <1>1 DEF Sequence!Done, Range, Work
<1>6. /\ \A r \in Step \ pass : r < s => r \in Range(chain)
      /\ \A r \in Step : r > s => r \notin Range(chain)
      /\ s \in Range(chain) => lapses > 0
  BY <1>1, <1>3, StepsAssumption DEF SeqWork, Covers, Answered, Step
<1> QED
  BY <1>1, <1>2, <1>3, <1>4, <1>5, <1>6 DEF Sequence!Do, Work

\* A checkpoint is written.
LEMMA ChainKept ==
  ASSUME SeqInv, mode = "sequence", SeqWork, saved'.state = chain, chain' = chain,
         UNCHANGED <<mode, result, pass, lapses>>
  PROVE  Sequence!Keep
<1>1. Work = chain /\ IsPrefix(saved.state, chain)
  BY WorkIsChain DEF SeqWork
<1>2. Work' = Work
  BY <1>1 DEF Work
<1>3. IsPrefix(saved.state, Work) /\ saved'.state = Work
  BY <1>1
<1>4. Sequence!IsPrefix(saved.state, Work)
  BY <1>3 DEF IsPrefix, Sequence!IsPrefix
<1> QED
  BY <1>2, <1>3, <1>4 DEF Sequence!Keep, Work

\* A checkpoint is not written, or not read.
LEMMA ChainSlips ==
  ASSUME SeqInv, mode = "sequence", lapses' = lapses + 1, Success' <=> Success,
         UNCHANGED <<mode, pass, chain, saved>>
  PROVE  Sequence!Slip
<1>1. lapses' > 0
  BY DEF SeqInv, SeqKept
<1>2. Success' = Success
  BY DEF Success
<1> QED
  BY <1>1, <1>2 DEF Sequence!Slip, Success

LEMMA ChainStep ==
  ASSUME SeqInv, PhaseFits, SuperInv, mode = "sequence", NEW s \in Step, SequenceStep(s)
  PROVE  Sequence!Next \/ ChainStays
<1>0. /\ phase = "steps" /\ result = "none" /\ SeqWork
      /\ mode' = mode /\ result' # "finished" /\ pass' = pass
  BY DEF SeqInv, PhaseFits, Ends, SequenceStep, PassThrough, EnterStep, StepAnswers, KeepStep,
         StepFails, JudgeStep, RetryStep, AtStep, Conclude, flowVars, workVars, planVars
<1>1. CASE StepAnswers(s)
  BY <1>1, ChainDoes DEF Sequence!Next
<1>2. CASE EnterStep(s) \/ JudgeStep(s)
  BY <1>0, <1>2 DEF EnterStep, JudgeStep, ChainStays, Work, Success, workVars, planVars, flowVars
<1>3. ASSUME NEW i, chain' = chain, result' = result,
             Save(chain, i) \/ UNCHANGED <<saved, lapses>>
      PROVE  Sequence!Next \/ ChainStays
  <2>1. CASE Save(chain, i)
    BY <1>0, <1>3, <2>1, ChainKept DEF Save, Sequence!Next
  <2>2. CASE UNCHANGED <<saved, lapses>>
    BY <1>0, <1>3, <2>2 DEF ChainStays, Work, Success
  <2> QED
    BY <1>3, <2>1, <2>2
<1>4. ASSUME Lapse, chain' = chain
      PROVE  Sequence!Next
  BY <1>0, <1>4, ChainSlips DEF Lapse, Success, Sequence!Next
<1>5. CASE PassThrough(s)
  BY <1>3, <1>4, <1>5 DEF PassThrough, flowVars
<1>6. CASE KeepStep(s)
  BY <1>3, <1>6 DEF KeepStep, flowVars
<1>7. CASE StepFails(s)
  <2>1. chain' = chain /\ result' = result
    BY <1>7 DEF StepFails, flowVars
  <2>2. Lapse \/ UNCHANGED <<saved, lapses>>
    BY <1>7 DEF StepFails
  <2> QED
    BY <1>3, <1>4, <2>1, <2>2
<1>8. CASE RetryStep(s)
  BY <1>3, <1>4, <1>8 DEF RetryStep, flowVars
<1> QED
  BY <1>1, <1>2, <1>5, <1>6, <1>7, <1>8 DEF SequenceStep

\* In the other modes nothing of a sequence changes.
LEMMA NoChain == PhaseFits /\ mode # "sequence" /\ [Next]_vars => ChainStays
<1> SUFFICES ASSUME PhaseFits, mode # "sequence", [Next]_vars PROVE ChainStays
  OBVIOUS
<1>1. mode' = mode
  BY ModeStays
<1>2. UNCHANGED <<pass, chain, saved, lapses>>
  <2>1. ASSUME NEW s \in Step PROVE ~PassThrough(s) /\ ~StepAnswers(s) /\ ~KeepStep(s)
                                    /\ ~StepFails(s) /\ ~RetryStep(s)
    BY DEF PassThrough, StepAnswers, KeepStep, StepFails, RetryStep, AtStep
  <2>2. ASSUME NEW s \in Step, EnterStep(s) \/ JudgeStep(s) \/ BranchStep(s)
        PROVE  UNCHANGED <<pass, chain, saved, lapses>>
    BY <2>2 DEF EnterStep, JudgeStep, BranchStep, BranchAnswers, BranchFails, BranchRetries,
                BranchCancelled, workVars, planVars
  <2>3. ~StartSequence /\ ~LoadFails /\ ~Restore
    BY DEF StartSequence, LoadFails, Restore, Announce
  <2>4. CASE StartBranches \/ HaltBranches \/ StepsOver \/ StepsFail \/ Synthesize
    BY <2>4 DEF StartBranches, HaltBranches, StepsOver, StepsFail, Synthesize, workVars, planVars
  <2>5. CASE WorkNext
    BY <2>1, <2>2, <2>3, <2>4, <2>5 DEF WorkNext, SequenceStep
  <2>6. CASE Runs /\ ~WorkNext
    BY <2>6 DEF Runs, Open, Invalid, Close, BranchesCancelled, workVars, planVars
  <2>7. CASE CancelFlow \/ CancelBranches \/ SlideAny \/ UNCHANGED vars
    BY <2>7 DEF CancelFlow, CancelBranches, SlideAny, vars, workVars, planVars
  <2> QED
    BY <2>3, <2>5, <2>6, <2>7 DEF Next
<1> QED
  BY <1>1, <1>2 DEF ChainStays, Work, Success

LEMMA ChainMoves == FlowInv /\ [Next]_vars => Sequence!Next \/ ChainStays
<1> SUFFICES ASSUME FlowInv, [Next]_vars, mode = "sequence" PROVE Sequence!Next \/ ChainStays
  BY NoChain DEF FlowInv
<1>0. /\ SeqInv /\ PhaseFits /\ SuperInv /\ mode' = mode
      /\ ~Ends => result = "none"
  BY ModeStays DEF FlowInv, PhaseFits
<1>1. ASSUME NEW s \in Step, SequenceStep(s) PROVE Sequence!Next \/ ChainStays
  BY <1>0, <1>1, ChainStep
<1>2. CASE StartSequence
  BY <1>0, <1>2 DEF StartSequence, Announce, ChainStays, Work, Success, SeqInv, planVars
<1>3. CASE LoadFails
  <2>1. result' = "failed" /\ result = "none" /\ UNCHANGED <<pass, chain, saved>>
        /\ lapses' = lapses + 1
    BY <1>0, <1>3 DEF LoadFails, Ends, planVars
  <2> QED
    BY <1>0, <2>1, ChainSlips DEF Success, Sequence!Next
<1>4. CASE StepsOver \/ Synthesize
  <2>1. /\ UNCHANGED <<pass, chain, saved, lapses>>
        /\ phase \in {"steps", "synthesis"} /\ result = "none" /\ SeqWork /\ cursor = N + 1
    BY <1>0, <1>4 DEF StepsOver, Synthesize, workVars, planVars, SeqInv, Ends
  <2>2. CASE result' # "finished"
    BY <1>0, <2>1, <2>2 DEF ChainStays, Work, Success
  <2>3. CASE result' = "finished"
    <3>1. Work = chain
      BY <1>0, <2>1, WorkIsChain
    <3>2. \A r \in Step \ pass : r \in Range(chain)
      BY <2>1, StepsAssumption DEF SeqWork, Covers, Step
    <3>3. \A r \in Step \ pass : Sequence!Done(r)
      BY <3>1, <3>2 DEF Sequence!Done, Range, Work
    <3>4. Sequence!Succeed
      BY <1>0, <2>1, <2>3, <3>3 DEF Sequence!Succeed
    <3> QED
      BY <3>4 DEF Sequence!Next
  <2> QED
    BY <2>2, <2>3
<1>5. CASE StepsFail
  BY <1>0, <1>5 DEF StepsFail, Verdict, Conclude, ChainStays, Work, Success, Ends,
                      workVars, planVars
<1>6. CASE (Open \/ Invalid \/ Close) /\ UNCHANGED workVars
  <2>1. result' = result \/ (result = "none" /\ result' = "failed")
    BY <1>0, <1>6, Ceremonies DEF Ends
  <2> QED
    BY <1>0, <1>6, <2>1 DEF ChainStays, Work, Success, workVars, planVars
<1>7. CASE CancelFlow /\ UNCHANGED workVars
  BY <1>0, <1>7 DEF CancelFlow, Proceed, ChainStays, Work, Success, workVars, planVars
<1>8. CASE Restore
  <2>1. /\ result # "finished" /\ result' = "none" /\ UNCHANGED <<pass, saved, lapses>>
        /\ chain' = <<>>
    BY <1>8 DEF Restore, planVars
  <2>2. Sequence!Recover
    BY <1>0, <2>1 DEF Sequence!Recover
  <2> QED
    BY <2>2 DEF Sequence!Next
<1>9. CASE UNCHANGED <<flowVars, call, workVars>>
  BY <1>9 DEF ChainStays, Work, Success, flowVars, workVars, planVars
<1> QED
  BY <1>0, <1>1, <1>2, <1>3, <1>4, <1>5, <1>6, <1>7, <1>8, <1>9, SeqMoves

\* Steps in sequence take effect one after the other, none is skipped, a
\* checkpoint never falls behind the one before, a resumed run starts from
\* what was kept, and no step takes effect twice unless a save has failed:
\* WorkflowRuntime's loop of steps implements StepChain, for every number of
\* steps and restarts.
THEOREM SequencesAreChains == Spec => SequenceIsChain
<1>1. FlowInit => Sequence!Init
  <2> SUFFICES ASSUME FlowInit PROVE Sequence!Init
    OBVIOUS
  <2>1. /\ chain = <<>> /\ saved.state = <<>> /\ lapses = 0 /\ result = "none"
    BY DEF FlowInit, WorkInit, NoCheckpoint
  <2>2. Step \ pass \subseteq Nat
    BY StepsAssumption DEF Step
  <2> QED
    BY <2>1, <2>2 DEF Sequence!Init
<1>2. FlowInv /\ [Next]_vars => [Sequence!Next]_Sequence!vars
  BY ChainMoves, StaysStutters
<1> QED
  BY <1>1, <1>2, FlowSafe, PTL DEF Spec, SequenceIsChain, Sequence!Spec
=============================================================================
