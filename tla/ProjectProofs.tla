---------------------------- MODULE ProjectProofs ----------------------------
(***************************************************************************)
(* What holds of the parts of a project that outlive a single call: the    *)
(* life of its agents for any runs, turns and faults, the files of its     *)
(* workspace for any names, and conversations of any length.               *)
(***************************************************************************)
EXTENDS AgentLife, Workspace, ChatSession, SequenceTheorems, TLAPS

-----------------------------------------------------------------------------
(* Agents and their memory.                                                 *)

\* A turn is taken while its run is under way; from its announcement to its
\* end it owes one event.
TurnInv ==
  \A r \in Run, a \in Agent :
     /\ turn[r][a] # "none" => pc[r] = "running"
     /\ turn[r][a] \in {"asking", "ending", "lamenting"} => owed[r][a] = 1

LifeInv == LifeTypeOK /\ TurnInv

\* The type invariant in parts.
PlaceType ==
  /\ faults \in SUBSET Fault
  /\ pc \in [Run -> Active \cup {"idle", "over", "dead"}] /\ at \in [Run -> Agent]

StoreType ==
  /\ store \in [Run -> [Agent -> Memory]] /\ disk \in [Agent -> Memory \cup {Torn}]
  /\ taken \in [Run -> [Agent -> 0..MaxTurns]]

SessionType == session \in [Run -> [Agent -> BOOLEAN]] /\ unsaved \in [Run -> SUBSET Agent]

TurnType ==
  /\ turn \in [Run -> [Agent -> {"none", "announcing", "asking", "ending", "lamenting"}]]
  /\ owed \in [Run -> [Agent -> -1..1]]

LEMMA TypeParts == LifeTypeOK <=> PlaceType /\ StoreType /\ SessionType /\ TurnType
  BY DEF LifeTypeOK, PlaceType, StoreType, SessionType, TurnType

LEMMA PlaceStep == PlaceType /\ [LifeNext]_lifeVars => PlaceType'
<1> SUFFICES ASSUME PlaceType, [LifeNext]_lifeVars PROVE PlaceType'
  OBVIOUS
<1> USE LifeAssumption DEF PlaceType, Agent, Starting, Closing, Active
<1>1. ASSUME NEW r \in Run, Begin(r) PROVE PlaceType'
  BY <1>1 DEF Begin
<1>2. ASSUME NEW r \in Run, SessionRefused(r) \/ CancelEarly(r) \/ FlowOver(r) PROVE PlaceType'
  BY <1>2 DEF SessionRefused, CancelEarly, FlowOver, Leave
<1>3. ASSUME NEW r \in Run, StartSession(r) \/ LoadFromDisk(r) \/ OpenFile(r) \/ WriteFile(r) \/ Crash(r)
      PROVE PlaceType'
  BY <1>3 DEF StartSession, LoadFromDisk, OpenFile, WriteFile, Crash
<1>4. ASSUME NEW r \in Run, Greet(r) PROVE PlaceType'
  BY <1>4 DEF Greet
<1>5. ASSUME NEW r \in Run, PersistFails(r) \/ CloseSession(r) PROVE PlaceType'
  BY <1>5 DEF PersistFails, CloseSession, NextRuntime
<1>6. ASSUME NEW r \in Run, NEW a \in Agent, Turn(r, a) PROVE PlaceType'
  BY <1>6 DEF Turn, TurnStarts, Announced, Answered, TurnRaises, Completed, CancelTurn, Rest
<1>7. CASE UNCHANGED lifeVars
  BY <1>7 DEF lifeVars
<1> QED
  BY <1>1, <1>2, <1>3, <1>4, <1>5, <1>6, <1>7 DEF LifeNext, Life

LEMMA StoreStep == PlaceType /\ StoreType /\ [LifeNext]_lifeVars => StoreType'
<1> SUFFICES ASSUME PlaceType, StoreType, [LifeNext]_lifeVars PROVE StoreType'
  OBVIOUS
<1> at \in [Run -> Agent]
  BY DEF PlaceType
<1> USE LifeAssumption DEF StoreType
<1>1. ASSUME NEW r \in Run, Begin(r) PROVE StoreType'
  BY <1>1 DEF Begin, Nothing, Memory
<1>2. ASSUME NEW r \in Run, LoadFromDisk(r) PROVE StoreType'
  BY <1>2 DEF LoadFromDisk
<1>3. ASSUME NEW r \in Run, OpenFile(r) \/ WriteFile(r) PROVE StoreType'
  BY <1>3 DEF OpenFile, WriteFile
<1>4. ASSUME NEW r \in Run, NEW a \in Agent, Answered(r, a) PROVE StoreType'
  <2>1. store[r][a] \in Memory /\ taken[r][a] \in 0..MaxTurns
    OBVIOUS
  <2>2. [store[r][a] EXCEPT ![r] = @ + 1] \in Memory /\ taken[r][a] + 1 \in 0..MaxTurns
    BY <1>4, <2>1 DEF Answered, Memory
  <2>3. store' = [store EXCEPT ![r] = [@ EXCEPT ![a] = [store[r][a] EXCEPT ![r] = @ + 1]]]
    BY <1>4 DEF Answered
  <2>4. store' \in [Run -> [Agent -> Memory]]
    BY <2>2, <2>3
  <2>5. taken' \in [Run -> [Agent -> 0..MaxTurns]]
    BY <1>4, <2>2 DEF Answered
  <2> QED
    BY <1>4, <2>4, <2>5 DEF Answered, Rest
<1>5. ASSUME UNCHANGED <<store, disk, taken>> PROVE StoreType'
  BY <1>5
<1>6. ASSUME NEW r \in Run,
             StartSession(r) \/ SessionRefused(r) \/ Greet(r) \/ CancelEarly(r) \/ FlowOver(r)
               \/ PersistFails(r) \/ CloseSession(r) \/ Crash(r)
      PROVE StoreType'
  BY <1>5, <1>6 DEF StartSession, SessionRefused, Greet, CancelEarly, FlowOver, PersistFails,
     CloseSession, Crash
<1>7. ASSUME NEW r \in Run, NEW a \in Agent,
             TurnStarts(r, a) \/ Announced(r, a) \/ TurnRaises(r, a) \/ Completed(r, a)
               \/ CancelTurn(r, a)
      PROVE StoreType'
  BY <1>5, <1>7 DEF TurnStarts, Announced, TurnRaises, Completed, CancelTurn, Rest
<1>8. CASE UNCHANGED lifeVars
  BY <1>5, <1>8 DEF lifeVars
<1> QED
  BY <1>1, <1>2, <1>3, <1>4, <1>6, <1>7, <1>8 DEF LifeNext, Life, Turn

LEMMA SessionStep == PlaceType /\ SessionType /\ [LifeNext]_lifeVars => SessionType'
<1> SUFFICES ASSUME PlaceType, SessionType, [LifeNext]_lifeVars PROVE SessionType'
  OBVIOUS
<1> at \in [Run -> Agent]
  BY DEF PlaceType
<1> USE DEF SessionType
<1>1. ASSUME NEW r \in Run, Begin(r) PROVE SessionType'
  BY <1>1 DEF Begin
<1>2. ASSUME NEW r \in Run, StartSession(r) PROVE SessionType'
  BY <1>2 DEF StartSession
<1>8. ASSUME NEW r \in Run, CloseSession(r) PROVE SessionType'
  BY <1>8 DEF CloseSession
<1>3. ASSUME NEW r \in Run, PersistFails(r) PROVE SessionType'
  BY <1>3 DEF PersistFails
<1>4. ASSUME UNCHANGED <<session, unsaved>> PROVE SessionType'
  BY <1>4
<1>5. ASSUME NEW r \in Run,
             SessionRefused(r) \/ LoadFromDisk(r) \/ Greet(r) \/ CancelEarly(r) \/ FlowOver(r)
               \/ OpenFile(r) \/ WriteFile(r) \/ Crash(r)
      PROVE SessionType'
  BY <1>4, <1>5 DEF SessionRefused, LoadFromDisk, Greet, CancelEarly, FlowOver, OpenFile,
     WriteFile, Crash
<1>6. ASSUME NEW r \in Run, NEW a \in Agent, Turn(r, a) PROVE SessionType'
  BY <1>4, <1>6 DEF Turn, TurnStarts, Announced, Answered, TurnRaises, Completed, CancelTurn, Rest
<1>7. CASE UNCHANGED lifeVars
  BY <1>4, <1>7 DEF lifeVars
<1> QED
  BY <1>1, <1>2, <1>3, <1>5, <1>6, <1>7, <1>8 DEF LifeNext, Life

LEMMA TurnStep == TurnType /\ TurnInv /\ PlaceType /\ [LifeNext]_lifeVars => TurnType' /\ TurnInv'
<1> SUFFICES ASSUME TurnType, TurnInv, PlaceType, [LifeNext]_lifeVars PROVE TurnType' /\ TurnInv'
  OBVIOUS
<1> pc \in [Run -> Active \cup {"idle", "over", "dead"}]
  BY DEF PlaceType
<1> USE DEF TurnType, TurnInv, Starting, Closing, Active
<1>1. ASSUME NEW r \in Run, Begin(r) PROVE TurnType' /\ TurnInv'
  BY <1>1 DEF Begin
<1>2. ASSUME NEW r \in Run, NEW a \in Agent, TurnStarts(r, a) PROVE TurnType' /\ TurnInv'
  BY <1>2 DEF TurnStarts, Rest
<1>3. ASSUME NEW r \in Run, NEW a \in Agent, Announced(r, a) PROVE TurnType' /\ TurnInv'
  BY <1>3 DEF Announced, Rest
<1>4. ASSUME NEW r \in Run, NEW a \in Agent, Answered(r, a) PROVE TurnType' /\ TurnInv'
  BY <1>4 DEF Answered, Rest
<1>12. ASSUME NEW r \in Run, NEW a \in Agent, TurnRaises(r, a) PROVE TurnType' /\ TurnInv'
  BY <1>12 DEF TurnRaises, Rest
<1>5. ASSUME NEW r \in Run, NEW a \in Agent, Completed(r, a) PROVE TurnType' /\ TurnInv'
  <2>1. owed[r][a] - 1 = 0
    BY <1>5 DEF Completed
  <2> QED
    BY <1>5, <2>1 DEF Completed, Rest
<1>6. ASSUME NEW r \in Run, NEW a \in Agent, CancelTurn(r, a) PROVE TurnType' /\ TurnInv'
  BY <1>6 DEF CancelTurn, OwedAfter, Rest
<1>7. ASSUME NEW r \in Run, Crash(r) PROVE TurnType' /\ TurnInv'
  BY <1>7 DEF Crash
\* elsewhere no turn is under way and none begins
<1>8. ASSUME NEW r \in Run, UNCHANGED <<turn, owed>>,
             \A q \in Run : pc[q] = "running" => pc'[q] = "running" \/ \A a \in Agent : turn[q][a] = "none"
      PROVE TurnType' /\ TurnInv'
  BY <1>8
<1>9. ASSUME NEW r \in Run,
             SessionRefused(r) \/ CancelEarly(r) \/ FlowOver(r) \/ Greet(r) \/ StartSession(r)
               \/ LoadFromDisk(r) \/ OpenFile(r) \/ WriteFile(r)
      PROVE TurnType' /\ TurnInv'
  BY <1>8, <1>9 DEF SessionRefused, CancelEarly, FlowOver, Leave, Greet, StartSession,
     LoadFromDisk, OpenFile, WriteFile
<1>10. ASSUME NEW r \in Run, PersistFails(r) \/ CloseSession(r) PROVE TurnType' /\ TurnInv'
  BY <1>8, <1>10 DEF PersistFails, CloseSession, NextRuntime
<1>11. CASE UNCHANGED lifeVars
  BY <1>11 DEF lifeVars
<1> QED
  BY <1>1, <1>2, <1>3, <1>4, <1>5, <1>6, <1>7, <1>9, <1>10, <1>11, <1>12
     DEF LifeNext, Life, Turn

(* Every step keeps the types and what a turn owes.                         *)
LEMMA LifeStep == LifeInv /\ [LifeNext]_lifeVars => LifeInv'
<1>1. LifeTypeOK' <=> PlaceType' /\ StoreType' /\ SessionType' /\ TurnType'
  BY DEF LifeTypeOK, PlaceType, StoreType, SessionType, TurnType
<1> QED
  BY <1>1, TypeParts, PlaceStep, StoreStep, SessionStep, TurnStep DEF LifeInv

LEMMA LifeStart == LifeInit => LifeInv
  BY LifeAssumption DEF LifeInit, LifeInv, LifeTypeOK, TurnInv, Nothing, Memory, Agent

(* Runs, agents, turns, stores and files keep their types.                  *)
THEOREM LifeTyped == LifeSpec => []LifeTypeOK
<1>1. LifeInv => LifeTypeOK
  BY DEF LifeInv
<1> QED
  BY <1>1, LifeStart, LifeStep, PTL DEF LifeSpec

-----------------------------------------------------------------------------
(* Announcements.  Only a publication that can be cut off upsets the count. *)

LEMMA AnnouncedStep ==
  LifeInv /\ TurnsAnnounced /\ [LifeNext]_lifeVars => TurnsAnnounced'
<1> SUFFICES ASSUME LifeInv, TurnsAnnounced, [LifeNext]_lifeVars PROVE TurnsAnnounced'
  OBVIOUS
<1> /\ pc \in [Run -> Active \cup {"idle", "over", "dead"}]
    /\ turn \in [Run -> [Agent -> {"none", "announcing", "asking", "ending", "lamenting"}]]
    /\ owed \in [Run -> [Agent -> -1..1]]
    /\ TurnInv
  BY DEF LifeInv, LifeTypeOK
<1> USE DEF TurnInv, TurnsAnnounced, Starting, Closing, Active
<1>1. ASSUME NEW r \in Run, Begin(r) PROVE TurnsAnnounced'
  BY <1>1 DEF Begin
<1>2. ASSUME NEW r \in Run,
             StartSession(r) \/ SessionRefused(r) \/ LoadFromDisk(r) \/ Greet(r)
               \/ CancelEarly(r) \/ FlowOver(r)
      PROVE TurnsAnnounced'
  BY <1>2 DEF StartSession, SessionRefused, LoadFromDisk, Greet, CancelEarly, FlowOver, Leave
<1>3. ASSUME NEW r \in Run, NEW a \in Agent,
             TurnStarts(r, a) \/ Announced(r, a) \/ Answered(r, a) \/ TurnRaises(r, a)
               \/ Completed(r, a)
      PROVE TurnsAnnounced'
  BY <1>3 DEF TurnStarts, Announced, Answered, TurnRaises, Completed, Rest
<1>4. ASSUME NEW r \in Run, NEW a \in Agent, CancelTurn(r, a) PROVE TurnsAnnounced'
  BY <1>4 DEF CancelTurn, OwedAfter, Rest
<1>5. ASSUME NEW r \in Run, OpenFile(r) \/ WriteFile(r) PROVE TurnsAnnounced'
  BY <1>5 DEF OpenFile, WriteFile
<1>6. ASSUME NEW r \in Run, PersistFails(r) \/ CloseSession(r) PROVE TurnsAnnounced'
  BY <1>6 DEF PersistFails, CloseSession, NextRuntime
<1>7. ASSUME NEW r \in Run, Crash(r) PROVE TurnsAnnounced'
  BY <1>7 DEF Crash
<1>8. CASE UNCHANGED lifeVars
  BY <1>8 DEF lifeVars
<1> QED
  BY <1>1, <1>2, <1>3, <1>4, <1>5, <1>6, <1>7, <1>8 DEF LifeNext, Life, Turn

(* Over a sink that takes events at once, every announced turn is announced *)
(* completed exactly once, whatever ends it.                                *)
THEOREM EveryTurnIsAnnounced == LifeSpec => []TurnsAnnounced
<1>1. LifeInit => TurnsAnnounced
  BY DEF LifeInit, TurnsAnnounced
<1> QED
  BY <1>1, LifeStart, LifeStep, AnnouncedStep, PTL DEF LifeSpec

-----------------------------------------------------------------------------
(* Sessions.  The closing loop has dealt with the agents before at[r].      *)

ClosedSoFar ==
  \A r \in Run, a \in Agent :
     /\ pc[r] \in Closing /\ a < at[r] /\ session[r][a] => a \in unsaved[r]
     /\ pc[r] = "over" /\ session[r][a] => a \in unsaved[r]

LEMMA ClosedStep == LifeInv /\ ClosedSoFar /\ [LifeNext]_lifeVars => ClosedSoFar'
<1> SUFFICES ASSUME LifeInv, ClosedSoFar, [LifeNext]_lifeVars PROVE ClosedSoFar'
  OBVIOUS
<1> /\ pc \in [Run -> Active \cup {"idle", "over", "dead"}] /\ at \in [Run -> 1..N]
    /\ session \in [Run -> [1..N -> BOOLEAN]] /\ unsaved \in [Run -> SUBSET (1..N)]
    /\ N \in Nat
  BY LifeAssumption DEF LifeInv, LifeTypeOK, Agent
<1> USE DEF ClosedSoFar, Agent, Starting, Closing, Active
<1>1. ASSUME NEW r \in Run, Begin(r) PROVE ClosedSoFar'
  BY <1>1 DEF Begin
<1>2. ASSUME NEW r \in Run, StartSession(r) PROVE ClosedSoFar'
  BY <1>2 DEF StartSession
<1>3. ASSUME NEW r \in Run, SessionRefused(r) \/ CancelEarly(r) \/ FlowOver(r)
      PROVE ClosedSoFar'
  <2>1. /\ pc' = [pc EXCEPT ![r] = "persisting"] /\ at' = [at EXCEPT ![r] = 1]
        /\ UNCHANGED <<session, unsaved>>
    BY <1>3 DEF SessionRefused, CancelEarly, FlowOver, Leave
  <2> QED
    BY <2>1
<1>4. ASSUME NEW r \in Run, LoadFromDisk(r) \/ Greet(r) PROVE ClosedSoFar'
  BY <1>4 DEF LoadFromDisk, Greet
<1>5. ASSUME NEW r \in Run, NEW a \in Agent, Turn(r, a) PROVE ClosedSoFar'
  BY <1>5 DEF Turn, TurnStarts, Announced, Answered, TurnRaises, Completed, CancelTurn, Rest
<1>6. ASSUME NEW r \in Run, OpenFile(r) \/ WriteFile(r) \/ Crash(r) PROVE ClosedSoFar'
  BY <1>6 DEF OpenFile, WriteFile, Crash
<1>7. ASSUME NEW r \in Run, PersistFails(r) PROVE ClosedSoFar'
  BY <1>7 DEF PersistFails, NextRuntime
<1>8. ASSUME NEW r \in Run, CloseSession(r) PROVE ClosedSoFar'
  BY <1>8 DEF CloseSession, NextRuntime
<1>9. CASE UNCHANGED lifeVars
  BY <1>9 DEF lifeVars
<1> QED
  BY <1>1, <1>2, <1>3, <1>4, <1>5, <1>6, <1>7, <1>8, <1>9 DEF LifeNext, Life

(* A run that is over has ended every session it opened, save those of      *)
(* agents whose memory could not be written.                                *)
THEOREM NoSessionIsLeft == LifeSpec => []SessionsClosed
<1>1. LifeInit => ClosedSoFar
  BY DEF LifeInit, ClosedSoFar, Closing
<1>2. ClosedSoFar => SessionsClosed
  BY DEF ClosedSoFar, SessionsClosed
<1> QED
  BY <1>1, <1>2, LifeStart, LifeStep, ClosedStep, PTL DEF LifeSpec

(* A run leaves neither turns nor sessions in the air.                      *)
THEOREM NothingStaysOpen == LifeSpec => []LeavesNothingOpen
  BY EveryTurnIsAnnounced, NoSessionIsLeft, PTL DEF LeavesNothingOpen

-----------------------------------------------------------------------------
(* Memory.  In calm weather one run is active at a time; an agent that has  *)
(* read its file knows all turns ever taken, and a file lacks at most the   *)
(* turns of the run whose close has not reached it.                         *)

Loaded(r, a) ==
  \/ pc[r] \in {"opening", "loading"} /\ a < at[r]
  \/ pc[r] = "greeting" /\ a <= at[r]
  \/ pc[r] \in Closing \cup {"running"}

Behind(r, a) ==
  \/ pc[r] = "running"
  \/ pc[r] \in {"persisting", "writing"} /\ at[r] <= a
  \/ pc[r] = "closing" /\ at[r] < a

Alone == \A q, r \in Run : pc[q] \in Active /\ pc[r] \in Active => q = r

Known(r, a) == \A q \in Run : store[r][a][q] = taken[q][a]

Kept(a, q) == disk[a][q] = taken[q][a]

Missing(a, q) ==
  \E r \in Run : Behind(r, a) /\ (r = q \/ (pc[r] = "writing" /\ at[r] = a))

AllKnown == \A r \in Run, a \in Agent : Loaded(r, a) => Known(r, a)
AllKept  == \A a \in Agent, q \in Run : Missing(a, q) \/ Kept(a, q)

CalmInv == Calm => Alone /\ AllKnown /\ AllKept

(* What may go wrong is settled at the start.                               *)
LEMMA FaultsFixed == [LifeNext]_lifeVars => faults' = faults
<1> SUFFICES ASSUME [LifeNext]_lifeVars PROVE faults' = faults
  OBVIOUS
<1>1. ASSUME NEW r \in Run, NEW a \in Agent, Turn(r, a) PROVE faults' = faults
  BY <1>1 DEF Turn, TurnStarts, Announced, Answered, TurnRaises, Completed, CancelTurn, Rest
<1>2. ASSUME NEW r \in Run,
             Begin(r) \/ StartSession(r) \/ SessionRefused(r) \/ LoadFromDisk(r) \/ Greet(r)
               \/ CancelEarly(r) \/ FlowOver(r)
      PROVE faults' = faults
  BY <1>2 DEF Begin, StartSession, SessionRefused, LoadFromDisk, Greet, CancelEarly, FlowOver
<1>3. ASSUME NEW r \in Run,
             OpenFile(r) \/ WriteFile(r) \/ PersistFails(r) \/ CloseSession(r) \/ Crash(r)
      PROVE faults' = faults
  BY <1>3 DEF OpenFile, WriteFile, PersistFails, CloseSession, Crash
<1>4. CASE UNCHANGED lifeVars
  BY <1>4 DEF lifeVars
<1> QED
  BY <1>1, <1>2, <1>3, <1>4 DEF LifeNext, Life

(* A run that moves on without touching stores or files: what is loaded was *)
(* loaded, and a file that lacked turns is still to be written.             *)
LEMMA MoveOn ==
  ASSUME Alone, AllKnown, AllKept, UNCHANGED <<store, disk, taken>>,
         \A q \in Run : pc'[q] \in Active => pc[q] \in Active,
         \A q \in Run, a \in Agent : Loaded(q, a)' => Loaded(q, a),
         \A q \in Run, a \in Agent : Behind(q, a) => Behind(q, a)',
         \A q \in Run, a \in Agent : pc[q] = "writing" /\ at[q] = a => pc'[q] = "writing" /\ at'[q] = a
  PROVE  Alone' /\ AllKnown' /\ AllKept'
<1>1. Alone'
  BY DEF Alone
<1>2. AllKnown'
  BY DEF AllKnown, Known
<1>3. ASSUME NEW q \in Run, NEW a \in Agent, Missing(a, q) PROVE Missing(a, q)'
  <2>1. PICK r \in Run : Behind(r, a) /\ (r = q \/ (pc[r] = "writing" /\ at[r] = a))
    BY <1>3 DEF Missing
  <2>2. Behind(r, a)' /\ (r = q \/ (pc'[r] = "writing" /\ at'[r] = a))
    BY <2>1
  <2> QED
    BY <2>2 DEF Missing
<1>4. \A q \in Run, a \in Agent : Kept(a, q)' <=> Kept(a, q)
  BY DEF Kept
<1>5. AllKept'
  BY <1>3, <1>4 DEF AllKept
<1> QED
  BY <1>1, <1>2, <1>5

LEMMA CalmStep == LifeInv /\ CalmInv /\ [LifeNext]_lifeVars => CalmInv'
<1> SUFFICES ASSUME LifeInv, Alone, AllKnown, AllKept, [LifeNext]_lifeVars,
                    faults \subseteq {"slowSink"}
             PROVE  Alone' /\ AllKnown' /\ AllKept'
  BY FaultsFixed DEF CalmInv, Calm
<1> /\ pc \in [Run -> Active \cup {"idle", "over", "dead"}] /\ at \in [Run -> Agent]
    /\ N \in Nat \ {0}
  BY LifeAssumption DEF LifeInv, LifeTypeOK
<1> USE DEF Agent, Starting, Closing, Active
<1>1. ASSUME NEW r \in Run, Begin(r) PROVE Alone' /\ AllKnown' /\ AllKept'
  <2>1. /\ \A q \in Run : pc[q] \notin Active
        /\ pc' = [pc EXCEPT ![r] = "opening"] /\ at' = [at EXCEPT ![r] = 1]
        /\ UNCHANGED <<disk, taken>>
    BY <1>1 DEF Begin
  <2>2. Alone'
    BY <2>1 DEF Alone
  <2>3. AllKnown'
    BY <2>1 DEF AllKnown, Loaded
  <2>4. AllKept'
    BY <2>1 DEF AllKept, Missing, Behind, Kept
  <2> QED
    BY <2>2, <2>3, <2>4
<1>2. ASSUME NEW r \in Run, StartSession(r) PROVE Alone' /\ AllKnown' /\ AllKept'
  BY <1>2, MoveOn DEF StartSession, Loaded, Behind
<1>3. ASSUME NEW r \in Run, Greet(r) PROVE Alone' /\ AllKnown' /\ AllKept'
  <2>1. \A q \in Run : pc'[q] \in Active => pc[q] \in Active
    BY <1>3 DEF Greet
  <2>2. \A q \in Run, a \in Agent : Loaded(q, a)' => Loaded(q, a)
    BY <1>3 DEF Greet, Loaded
  <2>3. \A q \in Run, a \in Agent : Behind(q, a) => Behind(q, a)'
    BY <1>3 DEF Greet, Behind
  <2>4. \A q \in Run, a \in Agent : pc[q] = "writing" /\ at[q] = a => pc'[q] = "writing" /\ at'[q] = a
    BY <1>3 DEF Greet
  <2> QED
    BY <1>3, <2>1, <2>2, <2>3, <2>4, MoveOn DEF Greet
<1>4. ASSUME NEW r \in Run, FlowOver(r) PROVE Alone' /\ AllKnown' /\ AllKept'
  BY <1>4, MoveOn DEF FlowOver, Leave, Loaded, Behind
<1>5. ASSUME NEW r \in Run, NEW a \in Agent,
             TurnStarts(r, a) \/ Announced(r, a) \/ TurnRaises(r, a) \/ Completed(r, a)
               \/ CancelTurn(r, a)
      PROVE Alone' /\ AllKnown' /\ AllKept'
  <2>1. UNCHANGED <<pc, at, store, disk, taken>>
    BY <1>5 DEF TurnStarts, Announced, TurnRaises, Completed, CancelTurn, Rest
  <2> QED
    BY <2>1, MoveOn DEF Loaded, Behind
<1>6. ASSUME NEW r \in Run, CloseSession(r) PROVE Alone' /\ AllKnown' /\ AllKept'
  <2>1. \A q \in Run : pc'[q] \in Active => pc[q] \in Active
    BY <1>6 DEF CloseSession, NextRuntime
  <2>2. \A q \in Run, a \in Agent : Loaded(q, a)' => Loaded(q, a)
    BY <1>6 DEF CloseSession, NextRuntime, Loaded
  <2>3. \A q \in Run, a \in Agent : Behind(q, a) => Behind(q, a)'
    BY <1>6 DEF CloseSession, NextRuntime, Behind
  <2>4. \A q \in Run, a \in Agent : pc[q] = "writing" /\ at[q] = a => pc'[q] = "writing" /\ at'[q] = a
    BY <1>6 DEF CloseSession, NextRuntime
  <2> QED
    BY <1>6, <2>1, <2>2, <2>3, <2>4, MoveOn DEF CloseSession
\* the agent's file holds every turn there was, and nobody else is active
<1>7. ASSUME NEW r \in Run, LoadFromDisk(r) PROVE Alone' /\ AllKnown' /\ AllKept'
  <2>1. pc[r] = "loading" /\ pc' = [pc EXCEPT ![r] = "greeting"] /\ UNCHANGED <<at, disk, taken>>
    BY <1>7 DEF LoadFromDisk
  <2>2. \A q \in Run : disk[at[r]][q] = taken[q][at[r]]
    BY <2>1 DEF Alone, AllKept, Missing, Behind, Kept
  <2>3. disk[at[r]][r] \in 0..MaxTurns
    <3>1. at[r] \in Agent
      OBVIOUS
    <3>2. taken[r][at[r]] \in 0..MaxTurns
      BY <3>1 DEF LifeInv, LifeTypeOK
    <3> QED
      BY <2>2, <3>2
  <2>4. disk[at[r]] # Torn
    BY <2>3, LifeAssumption DEF Torn
  <2>5. store' = [store EXCEPT ![r][at[r]] = disk[at[r]]]
    BY <1>7, <2>4 DEF LoadFromDisk
  <2>6. /\ store'[r][at[r]] = disk[at[r]]
        /\ \A a \in Agent : a # at[r] => store'[r][a] = store[r][a]
    BY <2>5 DEF LifeInv, LifeTypeOK
  <2>7. AllKnown'
    BY <2>1, <2>2, <2>6 DEF Alone, AllKnown, Loaded, Known
  <2>8. Alone' /\ AllKept'
    BY <2>1 DEF Alone, AllKept, Missing, Behind, Kept
  <2> QED
    BY <2>7, <2>8
<1>8. ASSUME NEW r \in Run, NEW a \in Agent, Answered(r, a) PROVE Alone' /\ AllKnown' /\ AllKept'
  <2>1. pc[r] = "running" /\ UNCHANGED <<pc, at, disk>>
    BY <1>8 DEF Answered, Rest, LifeInv, TurnInv
  <2>2. \A q \in Run, b \in Agent :
           taken'[q][b] = IF q = r /\ b = a THEN taken[q][b] + 1 ELSE taken[q][b]
    BY <1>8 DEF Answered, LifeInv, LifeTypeOK
  <2>3. \A q \in Run, b \in Agent :
           store'[r][b][q] = IF q = r /\ b = a THEN store[r][b][q] + 1 ELSE store[r][b][q]
    <3>1. store' = [store EXCEPT ![r] = [@ EXCEPT ![a] = [store[r][a] EXCEPT ![r] = @ + 1]]]
      BY <1>8 DEF Answered
    <3>2. store \in [Run -> [Agent -> Memory]]
      BY DEF LifeInv, LifeTypeOK
    <3>3. store[r] \in [Agent -> Memory] /\ store[r][a] \in [Run -> 0..MaxTurns]
      BY <3>2 DEF Memory
    <3>4. store'[r] = [store[r] EXCEPT ![a] = [store[r][a] EXCEPT ![r] = @ + 1]]
      BY <3>1, <3>2
    <3>5. store'[r][a] = [store[r][a] EXCEPT ![r] = @ + 1]
      BY <3>3, <3>4
    <3>6. \A b \in Agent : b # a => store'[r][b] = store[r][b]
      BY <3>3, <3>4
    <3> QED
      BY <3>3, <3>5, <3>6
  <2>4. AllKnown'
    BY <2>1, <2>2, <2>3 DEF Alone, AllKnown, Loaded, Known
  <2>5. ASSUME NEW b \in Agent, NEW q \in Run PROVE Missing(b, q)' \/ Kept(b, q)'
    <3>1. CASE q = r
      <4>1. Behind(r, b)'
        BY <2>1 DEF Behind
      <4> QED
        BY <3>1, <4>1 DEF Missing
    <3>2. CASE q # r
      <4>1. Kept(b, q)' <=> Kept(b, q)
        BY <2>1, <2>2, <3>2 DEF Kept
      <4>2. Missing(b, q) => Missing(b, q)'
        BY <2>1 DEF Missing, Behind
      <4> QED
        BY <4>1, <4>2 DEF AllKept
    <3> QED
      BY <3>1, <3>2
  <2>6. Alone' /\ AllKept'
    BY <2>1, <2>5 DEF Alone, AllKept
  <2> QED
    BY <2>4, <2>6
<1>9. ASSUME NEW r \in Run, OpenFile(r) PROVE Alone' /\ AllKnown' /\ AllKept'
  <2>1. /\ pc[r] = "persisting" /\ pc' = [pc EXCEPT ![r] = "writing"]
        /\ UNCHANGED <<at, store, taken>>
        /\ \A b \in Agent : b # at[r] => disk'[b] = disk[b]
    BY <1>9 DEF OpenFile, LifeInv, LifeTypeOK
  <2>2. Alone' /\ AllKnown'
    BY <2>1 DEF Alone, AllKnown, Loaded, Known
  <2>3. AllKept'
    BY <2>1 DEF AllKept, Missing, Behind, Kept
  <2> QED
    BY <2>2, <2>3
\* the store written has every turn
<1>10. ASSUME NEW r \in Run, WriteFile(r) PROVE Alone' /\ AllKnown' /\ AllKept'
  <2>1. /\ pc[r] = "writing" /\ pc' = [pc EXCEPT ![r] = "closing"]
        /\ UNCHANGED <<at, store, taken>>
        /\ disk'[at[r]] = store[r][at[r]]
        /\ \A b \in Agent : b # at[r] => disk'[b] = disk[b]
    BY <1>10 DEF WriteFile, LifeInv, LifeTypeOK
  <2>2. Alone' /\ AllKnown'
    BY <2>1 DEF Alone, AllKnown, Loaded, Known
  <2>3. \A q \in Run : store[r][at[r]][q] = taken[q][at[r]]
    BY <2>1 DEF AllKnown, Loaded, Known
  <2>4. ASSUME NEW b \in Agent, NEW q \in Run PROVE Missing(b, q)' \/ Kept(b, q)'
    <3>1. CASE b = at[r]
      BY <2>1, <2>3, <3>1 DEF Kept
    <3>2. CASE b # at[r]
      <4>1. Kept(b, q)' <=> Kept(b, q)
        BY <2>1, <3>2 DEF Kept
      <4>2. Missing(b, q) => Missing(b, q)'
        BY <2>1, <3>2 DEF Missing, Behind
      <4> QED
        BY <4>1, <4>2 DEF AllKept
    <3> QED
      BY <3>1, <3>2
  <2>5. AllKept'
    BY <2>4 DEF AllKept
  <2> QED
    BY <2>2, <2>5
<1>11. ASSUME NEW r \in Run,
              SessionRefused(r) \/ CancelEarly(r) \/ PersistFails(r) \/ Crash(r)
       PROVE FALSE
  BY <1>11 DEF SessionRefused, CancelEarly, PersistFails, Crash
<1>12. CASE UNCHANGED lifeVars
  <2>1. UNCHANGED <<pc, at, store, disk, taken>>
    BY <1>12 DEF lifeVars
  <2> QED
    BY <2>1, MoveOn DEF Loaded, Behind
<1> QED
  BY <1>1, <1>2, <1>3, <1>4, <1>5, <1>6, <1>7, <1>8, <1>9, <1>10, <1>11, <1>12
     DEF LifeNext, Life, Turn

(* In calm weather no turn is ever forgotten: what an agent completed in a  *)
(* run that is over stays in its file, through any number of later runs.    *)
THEOREM AgentsRemember == LifeSpec => []Remembered
<1>1. LifeInit => CalmInv
  BY DEF LifeInit, CalmInv, Alone, AllKnown, AllKept, Active, Starting, Closing, Loaded, Kept,
     Nothing
<1>2. LifeInv /\ CalmInv => Remembered
  <2> SUFFICES ASSUME LifeInv, CalmInv, Calm, NEW r \in Run, NEW a \in Agent, pc[r] = "over",
                      \A q \in Run : pc[q] = "writing" => at[q] # a
               PROVE  disk[a] # Torn /\ disk[a][r] = taken[r][a]
    BY DEF Remembered
  <2>1. ~Missing(a, r)
    BY DEF Missing, Behind
  <2>2. disk[a][r] = taken[r][a] /\ taken[r][a] \in 0..MaxTurns
    BY <2>1 DEF CalmInv, AllKept, Kept, LifeInv, LifeTypeOK
  <2> QED
    BY <2>2, LifeAssumption DEF Torn
<1> QED
  BY <1>1, <1>2, LifeStart, LifeStep, CalmStep, PTL DEF LifeSpec

-----------------------------------------------------------------------------
(* The workspace.  Neither its consistency nor its refinement of Registry  *)
(* is inductive as it stands: between its checks and the moment its file   *)
(* is put in place a command only holds a draft, and a failed `init'       *)
(* removes what is there by then.  DraftLegal says that the draft is one   *)
(* legal operation away from the files, FreshInv that a directory about to *)
(* be removed holds nothing but what `init' brought.                       *)

Files   == [AgentName -> EngineName \cup {None}]
JobType == [at : Stage, config : Configs, agents : Files,
            flow : FlowName \cup {None}, fresh : BOOLEAN]

\* The text of miniautogen.yaml and the agent files a draft would leave, one
\* operation of the registry from those that are there.
EngineDraft(text, files) ==
  /\ files = agents /\ text.flows = config.flows
  /\ \E e \in EngineName :
        \/ text.engines = config.engines \cup {e}
        \/ /\ \A a \in AgentName : agents[a] # e
           /\ text.engines = config.engines \ {e}

AgentDraft(text, files) ==
  /\ text = config
  /\ \E a \in AgentName, e \in EngineName :
        /\ e \in config.engines \cup {DefaultEngine}
        /\ files = [agents EXCEPT ![a] = e]

FlowDraft(text, files) ==
  /\ files = agents /\ text.engines = config.engines
  /\ \E f \in FlowName, flow \in FlowText :
        /\ flow.here /\ flow.members \subseteq Agents
        /\ flow.leader \in Agents \cup {None} /\ flow.chain \subseteq Flows
        /\ text.flows = [config.flows EXCEPT ![f] = flow]

FlowGone(text, files) ==
  /\ files = agents /\ text.engines = config.engines
  /\ \E f \in FlowName :
        /\ \A g \in Flows \ {f} : f \notin config.flows[g].chain
        /\ text.flows = [config.flows EXCEPT ![f] = NoFlow]

Legal(text, files) ==
  /\ text.text = "whole"
  /\ \/ text = config /\ files = agents
     \/ EngineDraft(text, files) \/ AgentDraft(text, files)
     \/ FlowDraft(text, files) \/ FlowGone(text, files)

DraftLegal ==
  /\ job.at \in {"checked", "open"} => Legal(job.config, job.agents)
  /\ job.at = "module" => job.flow # None

\* A file that is not there, or not yet, has no entries.
AbsentInv == config.text # "whole" => config = Broken(config.text)

\* A directory that is about to be removed, and one that is not there.
FreshInv ==
  /\ job.at \in {"config", "agent", "main"} /\ job.fresh /\ template = "project" =>
       /\ config.engines \subseteq {DefaultEngine}
       /\ Flows \subseteq {MainFlow} /\ Agents \subseteq {Sample}
  /\ template = "quickstart" /\ job.at = "config" => agents[Sample] # None
  /\ ~root => config = Broken("absent") /\ agents = NoAgents /\ job.at = "idle"

WorkspaceInv ==
  WorkspaceTypeOK /\ AbsentInv /\ Consistent /\ DraftLegal /\ FreshInv

-----------------------------------------------------------------------------
\* A service that accepts its request drafts a legal change.

Drafting ==
  \E text \in Configs, files \in Files, flow \in FlowName \cup {None} :
     /\ job.at = "idle" /\ config.text = "whole"
     /\ Legal(text, files) /\ Draft(text, files, flow, "checked")

LEMMA EngineServices ==
  ASSUME WorkspaceInv, NEW e \in EngineName,
         CreateEngine(e) \/ UpdateEngine(e) \/ DeleteEngine(e)
  PROVE  Drafting
<1> USE DEF WorkspaceInv, WorkspaceTypeOK, Files
<1>1. config \in Configs /\ agents \in Files
  OBVIOUS
<1>2. CASE CreateEngine(e)
  <2> DEFINE text == [config EXCEPT !.engines = @ \cup {e}]
  <2>1. text \in Configs /\ text.text = config.text /\ text.flows = config.flows
        /\ text.engines = config.engines \cup {e}
    BY <1>1 DEF Configs
  <2>2. Legal(text, agents)
    BY <1>2, <2>1 DEF Legal, EngineDraft, CreateEngine, Ready
  <2>3. Draft(text, agents, None, "checked")
    BY <1>2 DEF CreateEngine, DraftConfig
  <2> HIDE DEF text
  <2> QED
    BY <1>1, <1>2, <2>1, <2>2, <2>3 DEF Drafting, CreateEngine, Ready
<1>3. CASE UpdateEngine(e)
  BY <1>1, <1>3 DEF UpdateEngine, Ready, DraftConfig, Drafting, Legal
<1>4. CASE DeleteEngine(e)
  <2> DEFINE text == [config EXCEPT !.engines = @ \ {e}]
  <2>1. text \in Configs /\ text.text = config.text /\ text.flows = config.flows
        /\ text.engines = config.engines \ {e}
    BY <1>1 DEF Configs
  <2>2. Legal(text, agents)
    BY <1>4, <2>1 DEF Legal, EngineDraft, DeleteEngine, Ready
  <2>3. Draft(text, agents, None, "checked")
    BY <1>4 DEF DeleteEngine, DraftConfig
  <2> HIDE DEF text
  <2> QED
    BY <1>1, <1>4, <2>1, <2>2, <2>3 DEF Drafting, DeleteEngine, Ready
<1> QED
  BY <1>2, <1>3, <1>4

LEMMA AgentServices ==
  ASSUME WorkspaceInv, NEW a \in AgentName, NEW e \in EngineName \cup {None},
         CreateAgent(a, e) \/ UpdateAgent(a, e)
  PROVE  Drafting
<1>1. config \in Configs /\ agents \in Files /\ config.engines \subseteq EngineName
  BY DEF WorkspaceInv, WorkspaceTypeOK, Files, Configs
<1>2. PICK d \in EngineName :
        /\ d \in config.engines \cup {DefaultEngine}
        /\ Ready /\ Draft(config, [agents EXCEPT ![a] = d], None, "checked")
  <2>1. CASE CreateAgent(a, e)
    BY <1>1, <2>1 DEF CreateAgent, DraftAgent
  <2>2. CASE UpdateAgent(a, e) /\ e # None
    BY <1>1, <2>2 DEF UpdateAgent, DraftAgent
  <2>3. CASE UpdateAgent(a, e) /\ e = None
    <3>1. agents[a] \in config.engines \cup {DefaultEngine} /\ agents[a] \in EngineName
      BY <1>1, <2>3 DEF UpdateAgent, WorkspaceInv, Consistent, CheckAgents,
           CheckPipelineParticipants, ChainsResolve, Agents, Files
    <3> QED
      BY <2>3, <3>1 DEF UpdateAgent, DraftAgent
  <2> QED
    BY <2>1, <2>2, <2>3
<1>3. [agents EXCEPT ![a] = d] \in Files
  BY <1>1 DEF Files
<1>4. Legal(config, [agents EXCEPT ![a] = d])
  BY <1>2 DEF Legal, AgentDraft, Ready
<1> QED
  BY <1>1, <1>2, <1>3, <1>4 DEF Drafting, Ready

LEMMA FlowPut ==
  ASSUME WorkspaceInv, NEW f \in FlowName, NEW flow \in FlowText,
         NEW made \in FlowName \cup {None}, Ready,
         flow.here, flow.members \subseteq Agents,
         flow.leader \in Agents \cup {None}, flow.chain \subseteq Flows,
         Draft([config EXCEPT !.flows[f] = flow], agents, made, "checked")
  PROVE  Drafting
<1> DEFINE text == [config EXCEPT !.flows[f] = flow]
<1>1. config \in Configs /\ agents \in Files
  BY DEF WorkspaceInv, WorkspaceTypeOK, Files
<1>2. text \in Configs /\ text.text = config.text /\ text.engines = config.engines
      /\ text.flows = [config.flows EXCEPT ![f] = flow]
  BY <1>1 DEF Configs
<1>3. Legal(text, agents)
  BY <1>2 DEF Legal, FlowDraft, Ready
<1>4. Draft(text, agents, made, "checked")
  OBVIOUS
<1> HIDE DEF text
<1> QED
  BY <1>1, <1>2, <1>3, <1>4 DEF Drafting, Ready

LEMMA FlowCreated ==
  ASSUME WorkspaceInv, NEW f \in FlowName, NEW members \in SUBSET AgentName,
         NEW leader \in AgentName \cup {None}, NEW chain \in SUBSET FlowName,
         CreateFlow(f, members, leader, chain)
  PROVE  Drafting
<1> DEFINE flow == [here |-> TRUE, members |-> members, leader |-> leader,
                    chain |-> chain, built |-> TRUE]
<1>1. flow \in FlowText
  BY DEF FlowText
<1>2. /\ Ready /\ members \subseteq Agents /\ leader \in Agents \cup {None} /\ chain \subseteq Flows
      /\ Draft([config EXCEPT !.flows[f] = flow], agents, f, "checked")
  BY DEF CreateFlow
<1>3. flow.here /\ flow.members = members /\ flow.leader = leader /\ flow.chain = chain
  OBVIOUS
<1> HIDE DEF flow
<1> QED
  BY <1>1, <1>2, <1>3, FlowPut

LEMMA FlowUpdated ==
  ASSUME WorkspaceInv, NEW f \in FlowName,
         NEW add \in AgentName \cup {None}, NEW remove \in AgentName \cup {None},
         NEW given \in SUBSET SUBSET AgentName, NEW leader \in AgentName \cup {None},
         NEW target \in BOOLEAN, UpdateFlow(f, add, remove, given, leader, target)
  PROVE  Drafting
<1> DEFINE old     == config.flows[f]
           members == Replaced(old.members, add, remove, given)
           flow    == [old EXCEPT !.members = members,
                                  !.leader = IF leader = None THEN @ ELSE leader,
                                  !.built = @ \/ target]
<1>1. config \in Configs /\ old \in FlowText
  BY DEF WorkspaceInv, WorkspaceTypeOK, Configs
<1>2. /\ old.here /\ {add, leader} \subseteq Agents \cup {None} /\ UNION given \subseteq Agents
      /\ Ready /\ Draft([config EXCEPT !.flows[f] = flow], agents, None, "checked")
  BY DEF UpdateFlow, DraftConfig
<1>3. /\ old.members \subseteq Agents /\ old.leader \in Agents \cup {None}
      /\ old.chain \subseteq Flows
  BY <1>2 DEF WorkspaceInv, Consistent, CheckAgents, CheckPipelineParticipants,
       ChainsResolve, Flows
<1>4. members \subseteq Agents
  BY <1>2, <1>3 DEF Replaced
<1>5. Agents \subseteq AgentName
  BY DEF Agents
<1> HIDE DEF members, old
<1>6. /\ flow \in FlowText
      /\ flow.here = old.here /\ flow.members = members /\ flow.chain = old.chain
      /\ flow.leader = IF leader = None THEN old.leader ELSE leader
  BY <1>1, <1>4, <1>5 DEF FlowText
<1> HIDE DEF flow
<1>7. flow.leader \in Agents \cup {None}
  BY <1>2, <1>3, <1>6
<1> QED
  BY <1>2, <1>3, <1>4, <1>6, <1>7, FlowPut

LEMMA FlowDeleted ==
  ASSUME WorkspaceInv, NEW f \in FlowName, DeleteFlow(f)
  PROVE  Drafting
<1> DEFINE text == [config EXCEPT !.flows[f] = NoFlow]
<1>1. config \in Configs /\ agents \in Files /\ NoFlow \in FlowText
  BY DEF WorkspaceInv, WorkspaceTypeOK, Files, NoFlow, FlowText
<1>2. text \in Configs /\ text.text = config.text /\ text.engines = config.engines
      /\ text.flows = [config.flows EXCEPT ![f] = NoFlow]
  BY <1>1 DEF Configs
<1>3. Legal(text, agents)
  BY <1>2 DEF Legal, FlowGone, DeleteFlow, Ready
<1>4. Draft(text, agents, None, "checked")
  BY DEF DeleteFlow, DraftConfig
<1> HIDE DEF text
<1> QED
  BY <1>1, <1>2, <1>3, <1>4 DEF Drafting, DeleteFlow, Ready

\* Whoever asks, a command drafts a legal change, removes an agent's file, or
\* is a step of `init'.
LEMMA CommandCases ==
  ASSUME WorkspaceInv, Commands
  PROVE  Drafting \/ (\E a \in AgentName : DeleteAgent(a)) \/ InitCommand
<1>1. ASSUME AgentTools \/ AgentRoutes \/ AgentsPane \/ AgentForm
             \/ CreateAgentCommand \/ ChangeAgentCommands
      PROVE  Drafting \/ \E a \in AgentName : DeleteAgent(a)
  <2>1. PICK a \in AgentName :
           \/ DeleteAgent(a)
           \/ \E e \in EngineName \cup {None} : CreateAgent(a, e) \/ UpdateAgent(a, e)
    BY <1>1 DEF AgentTools, AgentRoutes, AgentsPane, AgentForm,
                CreateAgentCommand, ChangeAgentCommands
  <2> QED
    BY <2>1, AgentServices
<1>2. ASSUME EngineRoutes \/ EnginesPane \/ CreateEngineCommand \/ ChangeEngineCommands
      PROVE  Drafting
  BY <1>2, EngineServices DEF EngineRoutes, EnginesPane, CreateEngineCommand,
                              ChangeEngineCommands
<1>3. ASSUME FlowTools \/ FlowsPane \/ DeleteFlowCommand PROVE Drafting
  BY <1>3, FlowDeleted, FlowCreated DEF FlowTools, FlowsPane, DeleteFlowCommand
<1>4. ASSUME FlowRoutes PROVE Drafting
  <2>1. PICK f \in FlowName, l \in AgentName \cup {None} :
           \/ DeleteFlow(f)
           \/ \E ms \in SUBSET AgentName : CreateFlow(f, ms, l, {})
           \/ \E given \in SUBSET SUBSET AgentName, target \in BOOLEAN :
                 UpdateFlow(f, None, None, given, l, target)
    BY <1>4 DEF FlowRoutes
  <2>2. None \in AgentName \cup {None}
    OBVIOUS
  <2> QED
    BY <2>1, <2>2, FlowDeleted, FlowCreated, FlowUpdated
<1>5. ASSUME CreateFlowCommand PROVE Drafting
  BY <1>5, FlowCreated DEF CreateFlowCommand
<1>6. ASSUME UpdateFlowCommand PROVE Drafting
  BY <1>6, FlowUpdated DEF UpdateFlowCommand
<1>7. ASSUME NewCommands PROVE Drafting
  BY <1>7, EngineServices, AgentServices, FlowCreated DEF NewCommands
<1> QED
  BY <1>1, <1>2, <1>3, <1>4, <1>5, <1>6, <1>7 DEF Commands

-----------------------------------------------------------------------------
\* The template's configuration.
LEMMA TemplateFacts ==
  ASSUME template \in {"project", "quickstart"}
  PROVE  /\ TemplateConfig \in Configs /\ TemplateConfig.text = "whole"
         /\ TemplateConfig.engines = {DefaultEngine}
         /\ \E flow \in FlowText :
               /\ flow.here /\ flow.leader = None /\ flow.chain = {}
               /\ flow.members = IF template = "project" THEN {} ELSE {Sample}
               /\ TemplateConfig.flows =
                    [f \in FlowName |-> IF f = MainFlow THEN flow ELSE NoFlow]
<1> DEFINE flow == [NoFlow EXCEPT !.here = TRUE, !.built = (template = "project"),
                         !.members = IF template = "project" THEN {} ELSE {Sample}]
<1>1. NoFlow \in FlowText
  BY DEF NoFlow, FlowText
<1>2. /\ flow \in FlowText /\ flow.here /\ flow.leader = None /\ flow.chain = {}
      /\ flow.members = IF template = "project" THEN {} ELSE {Sample}
  BY NameAssumption DEF NoFlow, FlowText
<1>3. TemplateConfig = [text |-> "whole", engines |-> {DefaultEngine},
         flows |-> [f \in FlowName |-> IF f # MainFlow THEN NoFlow ELSE flow]]
  BY DEF TemplateConfig
<1> HIDE DEF flow
<1>4. TemplateConfig.flows = [f \in FlowName |-> IF f = MainFlow THEN flow ELSE NoFlow]
  BY <1>3
<1>5. TemplateConfig \in Configs
  BY <1>1, <1>2, <1>3, NameAssumption DEF Configs
<1> QED
  BY <1>2, <1>3, <1>4, <1>5

LEMMA EmptyFacts ==
  /\ Idle \in JobType /\ Idle.at = "idle" /\ NoAgents \in Files
  /\ NoFlow.here = FALSE
  /\ \A text \in {"absent", "whole", "torn"} :
        /\ Broken(text) \in Configs /\ Broken(text).text = text
        /\ Broken(text).engines = {} /\ Broken(text).flows = [f \in FlowName |-> NoFlow]
<1>1. NoFlow \in FlowText /\ NoFlow.here = FALSE
  BY DEF NoFlow, FlowText
<1>2. ASSUME NEW text \in {"absent", "whole", "torn"}
      PROVE  /\ Broken(text) \in Configs /\ Broken(text).text = text
             /\ Broken(text).engines = {} /\ Broken(text).flows = [f \in FlowName |-> NoFlow]
  BY <1>1, <1>2 DEF Broken, Configs
<1>3. NoAgents \in Files
  BY DEF NoAgents, Files
<1>4. Idle \in JobType /\ Idle.at = "idle"
  BY <1>2, <1>3 DEF Idle, JobType, Stage
<1> QED
  BY <1>1, <1>2, <1>3, <1>4

LEMMA FileParts ==
  WorkspaceTypeOK <=> /\ template \in {"project", "quickstart"} /\ root \in BOOLEAN
                      /\ config \in Configs /\ agents \in Files
                      /\ modules \subseteq FlowName /\ job \in JobType
  BY DEF WorkspaceTypeOK, Files, JobType

\* The step after one file of `init'.
LEMMA FurnishedJob ==
  ASSUME template \in {"project", "quickstart"}, job \in JobType,
         NEW place \in {"start", "config", "agent", "main"}, Furnished(place)
  PROVE  /\ job' \in JobType
         /\ \/ job' = Idle
            \/ /\ job' = [job EXCEPT !.at = After(place)]
               /\ After(place) \in {"config", "agent", "main"}
         /\ job'.at = "config" => place \in {"start", "agent"}
         /\ job'.at = "config" /\ template = "quickstart" => place = "agent"
<1>1. /\ After(place) \in {"config", "agent", "main", "idle"}
      /\ After(place) = "config" => place \in {"start", "agent"}
      /\ After(place) = "config" /\ template = "quickstart" => place = "agent"
  BY DEF After
<1> QED
  BY <1>1, EmptyFacts DEF Furnished, JobType, Stage

LEMMA TypeStep ==
  ASSUME WorkspaceInv, [WorkspaceNext]_workspaceVars
  PROVE  WorkspaceTypeOK'
<1>1. /\ template \in {"project", "quickstart"} /\ root \in BOOLEAN
      /\ config \in Configs /\ agents \in Files
      /\ modules \subseteq FlowName /\ job \in JobType
  BY FileParts DEF WorkspaceInv
<1> SUFFICES /\ template' \in {"project", "quickstart"} /\ root' \in BOOLEAN
             /\ config' \in Configs /\ agents' \in Files
             /\ modules' \subseteq FlowName /\ job' \in JobType
  BY FileParts DEF WorkspaceTypeOK, Files, JobType
<1>2. CASE Drafting
  BY <1>1, <1>2 DEF Drafting, Draft, JobType, Stage
<1>3. ASSUME NEW a \in AgentName, DeleteAgent(a)
      PROVE  config' \in Configs /\ agents' \in Files /\ UNCHANGED <<template, root, modules, job>>
  BY <1>1, <1>3 DEF DeleteAgent, Files
<1>4. CASE OpenDraft
  BY <1>1, <1>4 DEF OpenDraft, JobType, Stage
<1>5. CASE ReplaceFile
  <2>1. job' \in JobType
    BY <1>1, <1>5, EmptyFacts DEF ReplaceFile, JobType, Stage
  <2>2. job.config \in Configs /\ job.agents \in Files
    BY <1>1 DEF JobType
  <2> QED
    BY <1>1, <1>5, <2>1, <2>2 DEF ReplaceFile
<1>6. CASE WriteModule
  <2>1. job.flow \in FlowName
    BY <1>1, <1>6 DEF WorkspaceInv, DraftLegal, WriteModule, JobType
  <2> QED
    BY <1>1, <1>6, <2>1, EmptyFacts DEF WriteModule
<1>7. CASE GiveUp
  BY <1>1, <1>7, EmptyFacts DEF GiveUp
<1>8. CASE Scaffold
  BY <1>1, <1>8, EmptyFacts DEF Scaffold, After, Idle, JobType, Stage
<1>9. CASE FurnishConfig
  BY <1>1, <1>9, FurnishedJob, TemplateFacts DEF FurnishConfig
<1>10. CASE FurnishAgent
  BY <1>1, <1>10, FurnishedJob, NameAssumption DEF FurnishAgent, Files
<1>11. CASE FurnishModule
  BY <1>1, <1>11, FurnishedJob, NameAssumption DEF FurnishModule
<1>12. CASE ScaffoldFails
  BY <1>1, <1>12, EmptyFacts DEF ScaffoldFails, CutShort
<1>13. CASE ScaffoldDies
  BY <1>1, <1>13, EmptyFacts DEF ScaffoldDies, CutShort
<1>14. CASE UNCHANGED workspaceVars
  BY <1>1, <1>14 DEF workspaceVars
<1> QED
  BY <1>1, <1>2, <1>3, <1>4, <1>5, <1>6, <1>7, <1>8, <1>9, <1>10, <1>11, <1>12, <1>13, <1>14,
     CommandCases DEF WorkspaceNext, InitCommand

LEMMA AbsentStep ==
  ASSUME WorkspaceInv, [WorkspaceNext]_workspaceVars
  PROVE  AbsentInv'
<1>1. AbsentInv /\ template \in {"project", "quickstart"}
  BY DEF WorkspaceInv, WorkspaceTypeOK
<1> SUFFICES \/ config' = config \/ config'.text = "whole"
             \/ config' = Broken("absent") \/ config' = Broken("torn")
  BY <1>1, EmptyFacts DEF AbsentInv
<1>2. CASE Drafting
  BY <1>2 DEF Drafting, Draft
<1>3. ASSUME NEW a \in AgentName, DeleteAgent(a) PROVE config' = config
  BY <1>3 DEF DeleteAgent
<1>4. CASE ReplaceFile
  BY <1>4 DEF ReplaceFile, WorkspaceInv, DraftLegal, Legal
<1>5. CASE OpenDraft \/ WriteModule \/ GiveUp
  BY <1>5 DEF OpenDraft, WriteModule, GiveUp
<1>6. CASE FurnishConfig
  BY <1>1, <1>6, TemplateFacts DEF FurnishConfig
<1>7. CASE ScaffoldFails \/ ScaffoldDies
  BY <1>7 DEF ScaffoldFails, ScaffoldDies, CutShort
<1>8. CASE Scaffold \/ FurnishAgent \/ FurnishModule
  BY <1>8 DEF Scaffold, FurnishAgent, FurnishModule
<1>9. CASE UNCHANGED workspaceVars
  BY <1>9 DEF workspaceVars
<1> QED
  BY <1>2, <1>3, <1>4, <1>5, <1>6, <1>7, <1>8, <1>9, CommandCases DEF WorkspaceNext, InitCommand

\* A draft stays legal while the files stay as they are.
LEMMA LegalKept ==
  ASSUME NEW text, NEW files, Legal(text, files), config' = config, agents' = agents,
         job'.config = text, job'.agents = files
  PROVE  Legal(job.config, job.agents)'
<1>1. Agents' = Agents /\ Flows' = Flows
  BY DEF Agents, Flows
<1>2. CASE EngineDraft(text, files)
  BY <1>2 DEF Legal, EngineDraft
<1>3. CASE AgentDraft(text, files)
  BY <1>3 DEF Legal, AgentDraft
<1>4. CASE FlowDraft(text, files)
  BY <1>1, <1>4 DEF Legal, FlowDraft
<1>5. CASE FlowGone(text, files)
  BY <1>1, <1>5 DEF Legal, FlowGone
<1> QED
  BY <1>2, <1>3, <1>4, <1>5 DEF Legal

LEMMA DraftStep ==
  ASSUME WorkspaceInv, [WorkspaceNext]_workspaceVars
  PROVE  DraftLegal'
<1>1. DraftLegal /\ template \in {"project", "quickstart"} /\ job \in JobType
  BY FileParts DEF WorkspaceInv, WorkspaceTypeOK
<1>2. CASE Drafting
  <2>1. PICK text \in Configs, files \in Files, flow \in FlowName \cup {None} :
           Legal(text, files) /\ Draft(text, files, flow, "checked")
    BY <1>2 DEF Drafting
  <2>2. config' = config /\ agents' = agents /\ job'.at = "checked"
        /\ job'.config = text /\ job'.agents = files
    BY <2>1 DEF Draft
  <2>3. Legal(job.config, job.agents)'
    BY <2>1, <2>2, LegalKept
  <2> QED
    BY <2>2, <2>3 DEF DraftLegal
<1>3. ASSUME NEW a \in AgentName, DeleteAgent(a) PROVE job' = job /\ job.at = "idle"
  BY <1>3 DEF DeleteAgent, Ready
<1>4. CASE OpenDraft
  <2>1. /\ config' = config /\ agents' = agents /\ job'.at = "open"
        /\ job'.config = job.config /\ job'.agents = job.agents
    BY <1>1, <1>4 DEF OpenDraft, JobType
  <2>2. Legal(job.config, job.agents)
    BY <1>1, <1>4 DEF OpenDraft, DraftLegal
  <2>3. Legal(job.config, job.agents)'
    BY <2>1, <2>2, LegalKept
  <2> QED
    BY <2>1, <2>3 DEF DraftLegal
<1>5. CASE ReplaceFile
  BY <1>1, <1>5, EmptyFacts DEF ReplaceFile, DraftLegal, JobType
<1>6. CASE WriteModule \/ GiveUp \/ ScaffoldFails \/ ScaffoldDies
  BY <1>6, EmptyFacts DEF WriteModule, GiveUp, ScaffoldFails, ScaffoldDies, DraftLegal
<1>7. CASE Scaffold
  BY <1>1, <1>7 DEF Scaffold, After, Idle, DraftLegal
<1>8. CASE FurnishConfig \/ FurnishAgent \/ FurnishModule
  <2>1. \E place \in {"config", "agent", "main"} : Furnished(place)
    BY <1>8 DEF FurnishConfig, FurnishAgent, FurnishModule
  <2>2. job' = Idle \/ job'.at \in {"config", "agent", "main"}
    BY <1>1, <2>1, FurnishedJob DEF JobType
  <2> QED
    BY <2>2, EmptyFacts DEF DraftLegal
<1>9. CASE UNCHANGED workspaceVars
  BY <1>1, <1>9 DEF workspaceVars, DraftLegal, Legal, EngineDraft, AgentDraft, FlowDraft,
                    FlowGone, Agents, Flows
<1> QED
  BY <1>2, <1>3, <1>4, <1>5, <1>6, <1>7, <1>8, <1>9, CommandCases DEF WorkspaceNext, InitCommand,
     DraftLegal

\* A legal draft that takes the place of the files is an operation of the registry.
LEMMA LegalIsTables ==
  ASSUME WorkspaceInv, Legal(job.config, job.agents),
         config' = job.config, agents' = job.agents, template' = template
  PROVE  [Tables!Next]_<<template, Tables!tables>>
<1>1. config \in Configs /\ agents \in Files
  BY FileParts DEF WorkspaceInv
<1>2. Tables!Agents = Agents /\ Tables!Flows = Flows /\ Tables!NoFlow = NoFlow
      /\ Tables!FlowText = FlowText
  BY DEF Tables!Agents, Agents, Tables!Flows, Flows, Tables!NoFlow, NoFlow,
         Tables!FlowText, FlowText
<1>3. CASE config' = config /\ agents' = agents
  BY <1>3 DEF Tables!tables
<1>4. CASE EngineDraft(job.config, job.agents)
  <2>1. PICK e \in EngineName :
           \/ config'.engines = config.engines \cup {e}
           \/ /\ \A a \in AgentName : agents[a] # e
              /\ config'.engines = config.engines \ {e}
    BY <1>4 DEF EngineDraft
  <2>2. agents' = agents /\ config'.flows = config.flows
    BY <1>4 DEF EngineDraft
  <2>3. Tables!AddEngine(e) \/ Tables!DropEngine(e)
    BY <2>1, <2>2 DEF Tables!AddEngine, Tables!DropEngine
  <2> QED
    BY <2>3 DEF Tables!Next
<1>5. CASE AgentDraft(job.config, job.agents)
  <2>1. PICK a \in AgentName, e \in EngineName : Tables!PutAgent(a, e)
    BY <1>5 DEF AgentDraft, Tables!PutAgent
  <2> QED
    BY <2>1 DEF Tables!Next
<1>6. CASE FlowDraft(job.config, job.agents)
  <2>1. PICK f \in FlowName, flow \in FlowText : Tables!PutFlow(f, flow)
    BY <1>2, <1>6 DEF FlowDraft, Tables!PutFlow, Tables!Founded
  <2> QED
    BY <1>2, <2>1 DEF Tables!Next
<1>7. CASE FlowGone(job.config, job.agents)
  <2>1. PICK f \in FlowName : Tables!DropFlow(f)
    BY <1>2, <1>7 DEF FlowGone, Tables!DropFlow
  <2> QED
    BY <2>1 DEF Tables!Next
<1> QED
  BY <1>3, <1>4, <1>5, <1>6, <1>7 DEF Legal

\* No operation of the registry but Furnish and Unfurnish leaves an entry
\* pointing at nothing.
LEMMA LegalIsConsistent ==
  ASSUME WorkspaceInv, Legal(job.config, job.agents),
         config' = job.config, agents' = job.agents
  PROVE  Consistent'
<1>1. config \in Configs /\ agents \in Files /\ Consistent
  BY FileParts DEF WorkspaceInv, Legal
<1>2. CASE config' = config /\ agents' = agents
  BY <1>1, <1>2 DEF Consistent, CheckAgents, CheckPipelineParticipants,
       ChainsResolve, Agents, Flows
<1>3. CASE EngineDraft(job.config, job.agents)
  <2>1. agents' = agents /\ config'.flows = config.flows /\ Agents' = Agents /\ Flows' = Flows
    BY <1>3 DEF EngineDraft, Agents, Flows
  <2>2. \A a \in Agents : agents[a] \in config'.engines \cup {DefaultEngine}
    BY <1>1, <1>3 DEF EngineDraft, Consistent, CheckAgents,
         CheckPipelineParticipants, ChainsResolve, Agents
  <2> QED
    BY <1>1, <2>1, <2>2 DEF Consistent, CheckAgents, CheckPipelineParticipants,
         ChainsResolve
<1>4. CASE AgentDraft(job.config, job.agents)
  <2>1. PICK a \in AgentName, e \in EngineName :
           e \in config.engines \cup {DefaultEngine} /\ agents' = [agents EXCEPT ![a] = e]
    BY <1>4 DEF AgentDraft
  <2>2. config' = config /\ Flows' = Flows
    BY <1>4 DEF AgentDraft, Flows
  <2>3. Agents' = Agents \cup {a}
    BY <1>1, <2>1, NameAssumption DEF Agents, Files
  <2>4. \A b \in Agents' : agents'[b] \in config.engines \cup {DefaultEngine}
    BY <1>1, <2>1, <2>3 DEF Consistent, CheckAgents, CheckPipelineParticipants,
         ChainsResolve, Agents, Files
  <2> QED
    BY <1>1, <2>2, <2>3, <2>4 DEF Consistent, CheckAgents,
         CheckPipelineParticipants, ChainsResolve
<1>5. CASE FlowDraft(job.config, job.agents)
  <2>1. PICK f \in FlowName, flow \in FlowText :
           /\ flow.here /\ flow.members \subseteq Agents
           /\ flow.leader \in Agents \cup {None} /\ flow.chain \subseteq Flows
           /\ config'.flows = [config.flows EXCEPT ![f] = flow]
    BY <1>5 DEF FlowDraft
  <2>2. agents' = agents /\ config'.engines = config.engines /\ Agents' = Agents
    BY <1>5 DEF FlowDraft, Agents
  <2>3. Flows' = Flows \cup {f}
    BY <1>1, <2>1 DEF Flows, Configs
  <2>4. \A g \in Flows' : /\ config'.flows[g].members \subseteq Agents
                         /\ config'.flows[g].leader \in Agents \cup {None}
                         /\ config'.flows[g].chain \subseteq Flows'
    BY <1>1, <2>1, <2>3 DEF Consistent, CheckAgents, CheckPipelineParticipants,
         ChainsResolve, Flows, Configs
  <2> QED
    BY <1>1, <2>2, <2>4 DEF Consistent, CheckAgents, CheckPipelineParticipants,
         ChainsResolve
<1>6. CASE FlowGone(job.config, job.agents)
  <2>1. PICK f \in FlowName :
           /\ \A g \in Flows \ {f} : f \notin config.flows[g].chain
           /\ config'.flows = [config.flows EXCEPT ![f] = NoFlow]
    BY <1>6 DEF FlowGone
  <2>2. agents' = agents /\ config'.engines = config.engines /\ Agents' = Agents
    BY <1>6 DEF FlowGone, Agents
  <2>3. Flows' = Flows \ {f}
    BY <1>1, <2>1, EmptyFacts DEF Flows, Configs
  <2>4. \A g \in Flows' : /\ config'.flows[g].members \subseteq Agents
                         /\ config'.flows[g].leader \in Agents \cup {None}
                         /\ config'.flows[g].chain \subseteq Flows'
    BY <1>1, <2>1, <2>3 DEF Consistent, CheckAgents, CheckPipelineParticipants,
         ChainsResolve, Flows, Configs
  <2> QED
    BY <1>1, <2>2, <2>4 DEF Consistent, CheckAgents, CheckPipelineParticipants,
         ChainsResolve
<1> QED
  BY <1>2, <1>3, <1>4, <1>5, <1>6 DEF Legal

\* A configuration cut short has no entries, nor had the one that was absent.
LEMMA CutKeepsTables ==
  ASSUME AbsentInv, CutShort
  PROVE  UNCHANGED <<config.engines, config.flows>>
  BY EmptyFacts DEF AbsentInv, CutShort

LEMMA ConsistentStep ==
  ASSUME WorkspaceInv, [WorkspaceNext]_workspaceVars
  PROVE  Consistent'
<1>1. /\ config \in Configs /\ agents \in Files /\ Consistent /\ AbsentInv /\ FreshInv
      /\ template \in {"project", "quickstart"}
  BY FileParts DEF WorkspaceInv
<1>2. ASSUME UNCHANGED <<config.engines, config.flows, agents>> PROVE Consistent'
  BY <1>1, <1>2 DEF Consistent, CheckAgents, CheckPipelineParticipants,
       ChainsResolve, Agents, Flows
<1>3. CASE Drafting \/ OpenDraft \/ WriteModule \/ GiveUp \/ Scaffold \/ FurnishModule
           \/ UNCHANGED workspaceVars
  <2>1. UNCHANGED <<config, agents>>
    BY <1>3 DEF Drafting, Draft, OpenDraft, WriteModule, GiveUp, Scaffold, FurnishModule,
                workspaceVars
  <2> QED
    BY <1>2, <2>1
<1>4. ASSUME NEW a \in AgentName, DeleteAgent(a) PROVE Consistent'
  <2>1. /\ agents' = [agents EXCEPT ![a] = None] /\ config' = config /\ Flows' = Flows
        /\ \A f \in Flows : a \notin config.flows[f].members /\ a # config.flows[f].leader
    BY <1>4 DEF DeleteAgent, Flows
  <2>2. Agents' = Agents \ {a} /\ \A b \in Agents' : agents'[b] = agents[b]
    BY <1>1, <2>1 DEF Agents, Files
  <2> QED
    BY <1>1, <2>1, <2>2 DEF Consistent, CheckAgents, CheckPipelineParticipants,
         ChainsResolve
<1>5. CASE ReplaceFile
  BY <1>5, LegalIsConsistent DEF ReplaceFile, WorkspaceInv, DraftLegal
<1>6. CASE FurnishConfig
  <2>1. CASE config.text # "absent"
    BY <1>2, <1>6, <2>1 DEF FurnishConfig
  <2>2. CASE config.text = "absent"
    <3>1. config' = TemplateConfig /\ agents' = agents /\ Agents' = Agents
      BY <1>6, <2>2 DEF FurnishConfig, Agents
    <3>2. \A a \in Agents : agents[a] = DefaultEngine
      BY <1>1, <2>2, EmptyFacts DEF AbsentInv, Consistent, CheckAgents,
           CheckPipelineParticipants, ChainsResolve
    <3>3. template = "quickstart" => Sample \in Agents
      BY <1>1, <1>6, NameAssumption DEF FreshInv, FurnishConfig, Agents
    <3>4. \A f \in Flows' : /\ config'.flows[f].members \subseteq Agents
                           /\ config'.flows[f].leader = None
                           /\ config'.flows[f].chain = {}
      <4>1. PICK flow \in FlowText :
               /\ flow.leader = None /\ flow.chain = {}
               /\ flow.members = IF template = "project" THEN {} ELSE {Sample}
               /\ config'.flows = [f \in FlowName |-> IF f = MainFlow THEN flow ELSE NoFlow]
        BY <1>1, <3>1, TemplateFacts
      <4>2. \A f \in Flows' : config'.flows[f] = flow
        BY <4>1, EmptyFacts DEF Flows
      <4>3. flow.members \subseteq Agents
        BY <1>1, <3>3, <4>1
      <4> QED
        BY <4>1, <4>2, <4>3
    <3> QED
      BY <1>1, <3>1, <3>2, <3>4, TemplateFacts DEF Consistent, CheckAgents,
           CheckPipelineParticipants, ChainsResolve
  <2> QED
    BY <2>1, <2>2
<1>7. CASE FurnishAgent
  <2>1. CASE agents' = agents
    BY <1>2, <1>7, <2>1 DEF FurnishAgent
  <2>2. CASE agents' = [agents EXCEPT ![Sample] = IF @ = None THEN DefaultEngine ELSE @]
    <3>1. config' = config /\ Flows' = Flows
      BY <1>7 DEF FurnishAgent, Flows
    <3>2. Agents' = Agents \cup {Sample}
      BY <1>1, <2>2, NameAssumption DEF Agents, Files
    <3>3. \A a \in Agents' : agents'[a] = DefaultEngine \/ (a \in Agents /\ agents'[a] = agents[a])
      BY <1>1, <2>2, <3>2 DEF Agents, Files
    <3> QED
      BY <1>1, <3>1, <3>2, <3>3 DEF Consistent, CheckAgents,
           CheckPipelineParticipants, ChainsResolve
  <2> QED
    BY <1>7, <2>1, <2>2 DEF FurnishAgent
<1>8. CASE ScaffoldFails
  <2>1. CASE UNCHANGED <<config.engines, config.flows, agents>>
    BY <1>2, <2>1
  <2>2. CASE config' = Broken("absent") /\ agents' = NoAgents
    <3>1. Agents' = {} /\ Flows' = {}
      BY <2>2, EmptyFacts DEF Agents, Flows, NoAgents
    <3> QED
      BY <2>2, <3>1, EmptyFacts DEF Consistent, CheckAgents,
           CheckPipelineParticipants, ChainsResolve
  <2> QED
    BY <1>1, <1>8, <2>1, <2>2, CutKeepsTables DEF ScaffoldFails
<1>9. CASE ScaffoldDies
  BY <1>1, <1>2, <1>9, CutKeepsTables DEF ScaffoldDies
<1> QED
  BY <1>3, <1>4, <1>5, <1>6, <1>7, <1>8, <1>9, CommandCases DEF WorkspaceNext, InitCommand

\* `init' writes in the order After gives.
LEMMA FurnishOrder ==
  ASSUME template \in {"project", "quickstart"}, job \in JobType,
         NEW place \in {"config", "agent", "main"}, Furnished(place)
  PROVE  /\ job'.at \in {"config", "agent", "main"} => job'.fresh = job.fresh
         /\ job'.at = "config" /\ template = "quickstart" => place = "agent"
         /\ job'.at \in {"idle", "config", "agent", "main"}
<1>1. job' = Idle => job'.at = "idle"
  BY EmptyFacts
<1>2. job' = [job EXCEPT !.at = After(place)] => job'.fresh = job.fresh /\ job'.at = After(place)
  BY DEF JobType
<1>3. /\ \/ job' = Idle
         \/ job' = [job EXCEPT !.at = After(place)] /\ After(place) \in {"config", "agent", "main"}
      /\ job'.at = "config" /\ template = "quickstart" => place = "agent"
  BY FurnishedJob
<1> QED
  BY <1>1, <1>2, <1>3

LEMMA FreshStep ==
  ASSUME WorkspaceInv, [WorkspaceNext]_workspaceVars
  PROVE  FreshInv'
<1>1. /\ template \in {"project", "quickstart"} /\ root \in BOOLEAN /\ config \in Configs
      /\ agents \in Files /\ job \in JobType /\ FreshInv
  BY FileParts DEF WorkspaceInv
<1>2. CASE Drafting
  <2>1. PICK text \in Configs, files \in Files, flow \in FlowName \cup {None} :
           config.text = "whole" /\ Draft(text, files, flow, "checked")
    BY <1>2 DEF Drafting
  <2>2. root
    BY <1>1, <2>1, EmptyFacts DEF FreshInv
  <2> QED
    BY <1>1, <2>1, <2>2 DEF Draft, FreshInv
<1>3. ASSUME NEW a \in AgentName, DeleteAgent(a) PROVE FreshInv'
  <2>1. root /\ root' = root /\ job' = job /\ job.at = "idle"
    BY <1>1, <1>3, EmptyFacts DEF DeleteAgent, Ready, FreshInv
  <2> QED
    BY <1>1, <2>1 DEF FreshInv
<1>4. CASE OpenDraft \/ ReplaceFile \/ WriteModule \/ GiveUp
  <2>1. root /\ root' = root
    BY <1>1, <1>4 DEF OpenDraft, ReplaceFile, WriteModule, GiveUp, FreshInv
  <2>2. job'.at \in {"idle", "open", "module"}
    BY <1>1, <1>4, EmptyFacts DEF OpenDraft, ReplaceFile, WriteModule, GiveUp, JobType
  <2> QED
    BY <1>1, <2>1, <2>2 DEF FreshInv
<1>5. CASE Scaffold
  <2>1. /\ root' /\ config' = config /\ agents' = agents /\ template' = template
        /\ job'.fresh = (template = "quickstart" \/ ~root) /\ job'.at = After("start")
    BY <1>5 DEF Scaffold, Idle
  <2>2. template = "quickstart" => job'.at = "agent"
    BY <2>1 DEF After
  <2>3. ASSUME ~root PROVE config.engines = {} /\ Flows = {} /\ Agents = {}
    BY <1>1, <2>3, EmptyFacts DEF FreshInv, Flows, Agents, NoAgents
  <2>4. Flows' = Flows /\ Agents' = Agents
    BY <2>1 DEF Flows, Agents
  <2> QED
    BY <1>1, <2>1, <2>2, <2>3, <2>4 DEF FreshInv
<1>6. CASE FurnishConfig
  <2>1. job.at = "config" /\ root /\ root' = root /\ agents' = agents /\ template' = template
    BY <1>1, <1>6 DEF FurnishConfig, FreshInv
  <2>2. /\ job'.at \in {"config", "agent", "main"} => job'.fresh = job.fresh
        /\ ~(job'.at = "config" /\ template = "quickstart")
    BY <1>1, <1>6, FurnishOrder DEF FurnishConfig
  <2>3. Agents' = Agents
    BY <2>1 DEF Agents
  <2>4. \/ config' = config /\ Flows' = Flows
        \/ config'.engines = {DefaultEngine} /\ Flows' \subseteq {MainFlow}
    <3>1. TemplateConfig.engines = {DefaultEngine}
          /\ {f \in FlowName : TemplateConfig.flows[f].here} \subseteq {MainFlow}
      BY <1>1, TemplateFacts, EmptyFacts
    <3> QED
      BY <1>6, <3>1 DEF FurnishConfig, Flows
  <2> QED
    BY <1>1, <2>1, <2>2, <2>3, <2>4 DEF FreshInv
<1>7. CASE FurnishAgent
  <2>1. job.at = "agent" /\ root /\ root' = root /\ config' = config /\ template' = template
    BY <1>1, <1>7 DEF FurnishAgent, FreshInv
  <2>2. job'.at \in {"config", "agent", "main"} => job'.fresh = job.fresh
    BY <1>1, <1>7, FurnishOrder DEF FurnishAgent
  <2>3. Flows' = Flows
    BY <2>1 DEF Flows
  <2>4. /\ Agents' \subseteq Agents \cup {Sample}
        /\ template = "quickstart" => agents'[Sample] # None
    <3>1. CASE agents' = agents /\ template = "project"
      BY <3>1 DEF Agents
    <3>2. CASE agents' = [agents EXCEPT ![Sample] = IF @ = None THEN DefaultEngine ELSE @]
      BY <1>1, <3>2, NameAssumption DEF Agents, Files
    <3> QED
      BY <1>7, <3>1, <3>2 DEF FurnishAgent
  <2> QED
    BY <1>1, <2>1, <2>2, <2>3, <2>4 DEF FreshInv
<1>8. CASE FurnishModule
  <2>1. job.at = "main" /\ root /\ UNCHANGED <<template, root, config, agents>>
    BY <1>1, <1>8 DEF FurnishModule, FreshInv
  <2>2. /\ job'.at \in {"config", "agent", "main"} => job'.fresh = job.fresh
        /\ ~(job'.at = "config" /\ template = "quickstart")
    BY <1>1, <1>8, FurnishOrder DEF FurnishModule
  <2>3. Flows' = Flows /\ Agents' = Agents
    BY <2>1 DEF Flows, Agents
  <2> QED
    BY <1>1, <2>1, <2>2, <2>3 DEF FreshInv
<1>9. CASE ScaffoldFails \/ ScaffoldDies
  <2>1. job'.at = "idle" /\ root
    BY <1>1, <1>9, EmptyFacts DEF ScaffoldFails, ScaffoldDies, FreshInv
  <2>2. ~root' => config' = Broken("absent") /\ agents' = NoAgents
    BY <1>9, <2>1 DEF ScaffoldFails, ScaffoldDies
  <2> QED
    BY <2>1, <2>2, EmptyFacts DEF FreshInv, Broken, NoAgents
<1>10. CASE UNCHANGED workspaceVars
  <2>1. Flows' = Flows /\ Agents' = Agents
    BY <1>10 DEF workspaceVars, Flows, Agents
  <2> QED
    BY <1>1, <1>10, <2>1 DEF workspaceVars, FreshInv, Broken, NoAgents
<1> QED
  BY <1>2, <1>3, <1>4, <1>5, <1>6, <1>7, <1>8, <1>9, <1>10, CommandCases
     DEF WorkspaceNext, InitCommand

LEMMA WorkspaceStart == WorkspaceInit => WorkspaceInv
<1> SUFFICES ASSUME WorkspaceInit PROVE WorkspaceInv
  OBVIOUS
<1>1. WorkspaceTypeOK
  BY FileParts, EmptyFacts DEF WorkspaceInit
<1>2. Agents = {} /\ Flows = {}
  BY EmptyFacts DEF WorkspaceInit, Agents, Flows, NoAgents
<1>3. Consistent
  BY <1>2, EmptyFacts DEF Consistent, CheckAgents, CheckPipelineParticipants,
       ChainsResolve, WorkspaceInit
<1> QED
  BY <1>1, <1>3, EmptyFacts DEF WorkspaceInit, WorkspaceInv, AbsentInv, DraftLegal, FreshInv

LEMMA WorkspaceSafe == WorkspaceSpec => []WorkspaceInv
<1>1. WorkspaceInv /\ [WorkspaceNext]_workspaceVars => WorkspaceInv'
  BY TypeStep, AbsentStep, ConsistentStep, DraftStep, FreshStep DEF WorkspaceInv
<1> QED
  BY <1>1, WorkspaceStart, PTL DEF WorkspaceSpec

-----------------------------------------------------------------------------
\* A step of a command is an operation of the registry or nothing.
LEMMA TablesStep ==
  ASSUME WorkspaceInv, [WorkspaceNext]_workspaceVars
  PROVE  [Tables!Next]_<<template, Tables!tables>>
<1>1. /\ config \in Configs /\ agents \in Files /\ AbsentInv /\ FreshInv
      /\ template \in {"project", "quickstart"}
  BY FileParts DEF WorkspaceInv
<1>2. /\ Tables!Agents = Agents /\ Tables!Flows = Flows /\ Tables!NoFlow = NoFlow
      /\ Tables!FlowText = FlowText /\ Tables!NoAgents = NoAgents
      /\ Tables!NoFlows = [f \in FlowName |-> NoFlow]
  BY DEF Tables!Agents, Agents, Tables!Flows, Flows, Tables!NoFlow, NoFlow,
         Tables!FlowText, FlowText, Tables!NoAgents, NoAgents, Tables!NoFlows
<1>3. ASSUME UNCHANGED <<template, config.engines, config.flows, agents>>
      PROVE  [Tables!Next]_<<template, Tables!tables>>
  BY <1>3 DEF Tables!tables
<1>4. CASE Drafting \/ OpenDraft \/ WriteModule \/ GiveUp \/ Scaffold \/ FurnishModule
           \/ UNCHANGED workspaceVars
  <2>1. UNCHANGED <<template, config, agents>>
    BY <1>4 DEF Drafting, Draft, OpenDraft, WriteModule, GiveUp, Scaffold, FurnishModule,
                workspaceVars
  <2> QED
    BY <1>3, <2>1
<1>5. ASSUME NEW a \in AgentName, DeleteAgent(a)
      PROVE  [Tables!Next]_<<template, Tables!tables>>
  <2>1. Tables!DropAgent(a)
    BY <1>2, <1>5 DEF DeleteAgent, Tables!DropAgent, Flows
  <2> QED
    BY <2>1 DEF Tables!Next
<1>6. CASE ReplaceFile
  BY <1>6, LegalIsTables DEF ReplaceFile, WorkspaceInv, DraftLegal
<1>7. CASE FurnishConfig
  <2>1. CASE config.text # "absent"
    BY <1>3, <1>7, <2>1 DEF FurnishConfig
  <2>2. CASE config.text = "absent"
    <3>1. /\ config' = TemplateConfig /\ UNCHANGED <<template, agents>>
          /\ config.engines = {} /\ config.flows = [f \in FlowName |-> NoFlow]
      BY <1>1, <1>7, <2>2, EmptyFacts DEF FurnishConfig, AbsentInv
    <3>2. template = "quickstart" => Sample \in Agents
      BY <1>1, <1>7, NameAssumption DEF FreshInv, FurnishConfig, Agents
    <3>3. PICK flow \in FlowText :
             /\ flow.here /\ flow.leader = None /\ flow.chain = {}
             /\ flow.members = IF template = "project" THEN {} ELSE {Sample}
             /\ config'.flows = [f \in FlowName |-> IF f = MainFlow THEN flow ELSE NoFlow]
      BY <1>1, <3>1, TemplateFacts
    <3>4. Tables!Founded(flow)
      BY <1>1, <1>2, <3>2, <3>3 DEF Tables!Founded
    <3>5. config'.flows = [config.flows EXCEPT ![MainFlow] = flow]
      BY <3>1, <3>3, NameAssumption
    <3>6. config'.engines = {DefaultEngine}
      BY <1>1, <3>1, TemplateFacts
    <3>7. Tables!Furnish
      BY <1>2, <3>1, <3>3, <3>4, <3>5, <3>6 DEF Tables!Furnish
    <3> QED
      BY <3>7 DEF Tables!Next
  <2> QED
    BY <2>1, <2>2
<1>8. CASE FurnishAgent
  <2>1. CASE agents' = agents
    BY <1>3, <1>8, <2>1 DEF FurnishAgent
  <2>2. CASE agents' # agents
    <3>1. /\ agents' = [agents EXCEPT ![Sample] = DefaultEngine]
          /\ UNCHANGED <<template, config>>
      BY <1>1, <1>8, <2>2, NameAssumption DEF FurnishAgent, Files
    <3>2. Tables!PutAgent(Sample, DefaultEngine)
      BY <3>1 DEF Tables!PutAgent
    <3> QED
      BY <3>2, NameAssumption DEF Tables!Next
  <2> QED
    BY <2>1, <2>2
<1>9. CASE ScaffoldFails
  <2>1. CASE ~job.fresh
    BY <1>1, <1>3, <1>9, <2>1, CutKeepsTables DEF ScaffoldFails
  <2>2. CASE job.fresh
    <3>1. config' = Broken("absent") /\ agents' = NoAgents /\ template' = template
      BY <1>9, <2>2 DEF ScaffoldFails
    <3>2. \/ template # "project"
          \/ /\ config.engines \subseteq {DefaultEngine}
             /\ Agents \subseteq {Sample} /\ Flows \subseteq {MainFlow}
      BY <1>1, <1>9, <2>2 DEF ScaffoldFails, FreshInv
    <3>3. Tables!Unfurnish
      BY <1>2, <3>1, <3>2, EmptyFacts DEF Tables!Unfurnish
    <3> QED
      BY <3>3 DEF Tables!Next
  <2> QED
    BY <2>1, <2>2
<1>10. CASE ScaffoldDies
  BY <1>1, <1>3, <1>10, CutKeepsTables DEF ScaffoldDies
<1> QED
  BY <1>4, <1>5, <1>6, <1>7, <1>8, <1>9, <1>10, CommandCases DEF WorkspaceNext, InitCommand

LEMMA TablesStart == WorkspaceInit => Tables!Init
<1> SUFFICES ASSUME WorkspaceInit PROVE Tables!Init
  OBVIOUS
<1>1. /\ Tables!NoFlow = NoFlow /\ Tables!NoAgents = NoAgents
      /\ Tables!NoFlows = [f \in FlowName |-> NoFlow]
  BY DEF Tables!NoFlow, NoFlow, Tables!NoAgents, NoAgents, Tables!NoFlows
<1> QED
  BY <1>1, EmptyFacts DEF WorkspaceInit, Tables!Init

-----------------------------------------------------------------------------
\* The files have their types: the draft of a command, a file half written
\* and what `init' leaves are no exceptions.
THEOREM WorkspaceTyped == WorkspaceSpec => []WorkspaceTypeOK
<1>1. WorkspaceInv => WorkspaceTypeOK
  BY DEF WorkspaceInv
<1> QED
  BY <1>1, WorkspaceSafe, PTL

\* No command, done, failed or cut short, leaves an agent without its engine
\* (but the default) or a flow without its members, leader or chained flows.
THEOREM ReferencesHold == WorkspaceSpec => []Consistent
<1>1. WorkspaceInv => Consistent
  BY DEF WorkspaceInv
<1> QED
  BY <1>1, WorkspaceSafe, PTL

\* The services of the workspace implement the registry: each command that
\* takes effect is one of its operations, taken whole.
THEOREM FilesAreRegistry == WorkspaceSpec => WorkspaceIsRegistry
<1>1. WorkspaceInv /\ [WorkspaceNext]_workspaceVars => [Tables!Next]_<<template, Tables!tables>>
  BY TablesStep
<1> QED
  BY <1>1, TablesStart, WorkspaceSafe, PTL DEF WorkspaceSpec, WorkspaceIsRegistry, Tables!Spec

-----------------------------------------------------------------------------
(* Conversations.  What was said alternates, and so do the events of a      *)
(* lead's turns: how many there are says whose turn it is.                  *)

TalkTyped ==
  /\ prompt \in ChatStage
  /\ chat \in [agent : ChatAgent \cup {NoAgent}, closed : BOOLEAN]
  /\ history \in Seq(Said) /\ events \in Seq({"started", "finished"})

SessionFits ==
  /\ unclosed = IF chat.closed THEN 0 ELSE 1
  /\ prompt \in {"start", "switching", "over"} => chat.closed
  /\ prompt = "asking" => ~chat.closed
  /\ ~chat.closed => chat.agent \in ChatAgent

HistoryFits ==
  /\ \A i \in 1..Len(history) : /\ history[i].agent = chat.agent
                                /\ history[i].role = IF i % 2 = 1 THEN "user" ELSE "assistant"
  /\ prompt \in {"start", "ready", "switching"} => Len(history) % 2 = 0
  /\ prompt = "asking" => Len(history) % 2 = 1

EventsFit ==
  /\ \A i \in 1..Len(events) : events[i] = IF i % 2 = 1 THEN "started" ELSE "finished"
  /\ mode = "lead" => /\ prompt \in {"start", "ready"} => Len(events) % 2 = 0
                      /\ prompt = "asking" => Len(events) % 2 = 1

TalkInv == TalkTyped /\ SessionFits /\ HistoryFits /\ EventsFit

LEMMA TalkStart == ChatInit => TalkInv
<1> SUFFICES ASSUME ChatInit PROVE TalkInv
  OBVIOUS
<1>1. /\ history \in Seq(Said) /\ events \in Seq({"started", "finished"})
      /\ Len(history) = 0 /\ Len(events) = 0
  BY DEF ChatInit
<1> QED
  BY <1>1 DEF ChatInit, TalkInv, TalkTyped, SessionFits, HistoryFits, EventsFit, ChatStage, Over

\* One more of two that alternate.
LEMMA OneMore ==
  ASSUME NEW S, NEW s \in Seq(S), NEW x \in S
  PROVE  /\ Append(s, x) \in Seq(S) /\ Len(s) \in Nat /\ Len(Append(s, x)) = Len(s) + 1
         /\ \A i \in 1..Len(Append(s, x)) : \/ i \in 1..Len(s) /\ Append(s, x)[i] = s[i]
                                            \/ i = Len(s) + 1 /\ Append(s, x)[i] = x
         /\ Len(s) % 2 = 0 => (Len(s) + 1) % 2 = 1
         /\ Len(s) % 2 = 1 => (Len(s) + 1) % 2 = 0
  OBVIOUS

LEMMA TalkStep == TalkInv /\ [ChatNext]_chatVars => TalkInv'
<1> SUFFICES ASSUME TalkInv, [ChatNext]_chatVars PROVE TalkInv'
  OBVIOUS
<1>0. /\ TalkTyped /\ SessionFits /\ HistoryFits /\ EventsFit
      /\ Len(history) \in Nat /\ Len(events) \in Nat
  BY DEF TalkInv, TalkTyped
<1>1. ASSUME NEW a \in ChatAgent, CreateSession(a), chat.closed PROVE TalkInv'
  <2>1. /\ chat' = [agent |-> a, closed |-> FALSE] /\ history' = <<>> /\ events' = <<>>
        /\ prompt' = "ready" /\ unclosed' = 1
    BY <1>0, <1>1 DEF CreateSession, SessionFits
  <2>2. /\ history' \in Seq(Said) /\ events' \in Seq({"started", "finished"})
        /\ Len(history') = 0 /\ Len(events') = 0
    BY <2>1
  <2> QED
    BY <2>1, <2>2 DEF TalkInv, TalkTyped, SessionFits, HistoryFits, EventsFit, ChatStage
<1>2. ASSUME CreateRefused \/ CreateFails, prompt \in {"start", "switching"},
             prompt = "switching" => mode = "chat"
      PROVE  TalkInv'
  <2>1. /\ UNCHANGED <<mode, chat, unclosed, history, events>>
        /\ \/ prompt' = "over"
           \/ prompt' = "crashed"
           \/ prompt = "switching" /\ prompt' = "ready"
    BY <1>2 DEF CreateRefused, CreateFails
  <2> QED
    BY <1>0, <1>2, <2>1
    DEF TalkInv, TalkTyped, SessionFits, HistoryFits, EventsFit, ChatStage, Over
<1>3. ASSUME OpenChat PROVE TalkInv'
  <2>1. chat.closed /\ prompt = "start"
    BY <1>0, <1>3 DEF OpenChat, SessionFits
  <2> QED
    BY <1>1, <1>2, <1>3, <2>1 DEF OpenChat
<1>4. ASSUME Switch, mode = "chat" PROVE TalkInv'
  <2>1. /\ prompt = "ready" /\ prompt' = "switching" /\ UNCHANGED <<mode, history, events>>
        /\ chat' = [agent |-> chat.agent, closed |-> TRUE] /\ unclosed' = 0
    BY <1>0, <1>4 DEF Switch, CloseChat, SessionFits, TalkTyped
  <2> QED
    BY <1>0, <1>4, <2>1
    DEF TalkInv, TalkTyped, SessionFits, HistoryFits, EventsFit, ChatStage
<1>5. ASSUME Switched, mode = "chat" PROVE TalkInv'
  <2>1. chat.closed /\ prompt = "switching"
    BY <1>0, <1>5 DEF Switched, SessionFits
  <2> QED
    BY <1>1, <1>2, <1>5, <2>1 DEF Switched
<1>6. ASSUME NEW role \in {"user", "assistant"}, NEW event \in {"started", "finished"},
             Say(role), Record(event), UNCHANGED <<mode, chat, unclosed>>,
             ~chat.closed, chat.agent \in ChatAgent,
             \/ role = "user" /\ event = "started" /\ prompt = "ready" /\ prompt' = "asking"
             \/ role = "assistant" /\ event = "finished" /\ prompt = "asking" /\ prompt' = "ready"
      PROVE  TalkInv'
  <2>1. PICK said \in Said : said.role = role /\ said.agent = chat.agent
                             /\ history' = Append(history, said)
    BY <1>6 DEF Say, Said
  <2>2. TalkTyped' /\ SessionFits'
    BY <1>0, <1>6, <2>1 DEF TalkTyped, SessionFits, Record, ChatStage
  <2>3. HistoryFits'
    <3>1. /\ Len(history') = Len(history) + 1
          /\ \A i \in 1..Len(history') : \/ i \in 1..Len(history) /\ history'[i] = history[i]
                                         \/ i = Len(history) + 1 /\ history'[i] = said
          /\ Len(history) % 2 = 0 => (Len(history) + 1) % 2 = 1
          /\ Len(history) % 2 = 1 => (Len(history) + 1) % 2 = 0
      BY <1>0, <2>1, OneMore DEF TalkTyped
    <3> QED
      BY <1>0, <1>6, <2>1, <3>1 DEF HistoryFits
  <2>4. EventsFit'
    <3>1. CASE mode = "lead"
      <4>1. /\ events' = Append(events, event) /\ Len(events') = Len(events) + 1
            /\ \A i \in 1..Len(events') : \/ i \in 1..Len(events) /\ events'[i] = events[i]
                                          \/ i = Len(events) + 1 /\ events'[i] = event
            /\ Len(events) % 2 = 0 => (Len(events) + 1) % 2 = 1
            /\ Len(events) % 2 = 1 => (Len(events) + 1) % 2 = 0
        BY <1>0, <1>6, <3>1, OneMore DEF TalkTyped, Record
      <4> QED
        BY <1>0, <1>6, <3>1, <4>1 DEF EventsFit
    <3>2. CASE mode # "lead"
      BY <1>0, <1>6, <3>2 DEF EventsFit, Record
    <3> QED
      BY <3>1, <3>2
  <2> QED
    BY <2>2, <2>3, <2>4 DEF TalkInv
<1>7. ASSUME Send PROVE TalkInv'
  <2>1. CASE chat.closed
    BY <1>0, <1>7, <2>1
    DEF Send, TalkInv, TalkTyped, SessionFits, HistoryFits, EventsFit, ChatStage
  <2>2. CASE ~chat.closed
    <3>1. chat.agent \in ChatAgent
      BY <1>0, <2>2 DEF SessionFits
    <3> QED
      BY <1>6, <1>7, <2>2, <3>1 DEF Send
  <2> QED
    BY <2>1, <2>2
<1>8. ASSUME Replied PROVE TalkInv'
  <2>1. ~chat.closed /\ chat.agent \in ChatAgent
    BY <1>0, <1>8 DEF Replied, SessionFits
  <2> QED
    BY <1>6, <1>8, <2>1 DEF Replied
<1>9. ASSUME SendRaises \/ Quit PROVE TalkInv'
  BY <1>0, <1>9
  DEF SendRaises, Quit, TalkInv, TalkTyped, SessionFits, HistoryFits, EventsFit, ChatStage, Over
<1>10. ASSUME ClearHistory PROVE TalkInv'
  <2>1. history' \in Seq(Said) /\ Len(history') = 0
    BY <1>10 DEF ClearHistory
  <2> QED
    BY <1>0, <1>10, <2>1
    DEF ClearHistory, TalkInv, TalkTyped, SessionFits, HistoryFits, EventsFit
<1>11. ASSUME ChatEnds PROVE TalkInv'
  <2>1. /\ prompt = "leaving" /\ prompt' = "over" /\ UNCHANGED <<mode, history, events>>
        /\ chat' = [agent |-> chat.agent, closed |-> TRUE] /\ unclosed' = 0
    BY <1>0, <1>11 DEF ChatEnds, CloseChat, SessionFits, TalkTyped
  <2> QED
    BY <1>0, <2>1 DEF TalkInv, TalkTyped, SessionFits, HistoryFits, EventsFit, ChatStage, Over
<1>12. ASSUME AgentsEdited \/ UNCHANGED chatVars PROVE TalkInv'
  BY <1>0, <1>12
  DEF AgentsEdited, chatVars, TalkInv, TalkTyped, SessionFits, HistoryFits, EventsFit
<1> QED
  BY <1>3, <1>4, <1>5, <1>7, <1>8, <1>9, <1>10, <1>11, <1>12
  DEF ChatNext, ChatCommand, LeadCommand

\* A conversation is with one agent at a time, and its runtime is closed when
\* the command comes to its end; at the prompt every message has its answer, of
\* the agent whose name is shown; and what a lead asks for in a turn begins
\* with the start of that turn, every turn before it ended.
THEOREM TalkIsAlwaysWhole == ChatSpec => []TalkIsWhole
<1>1. TalkInv => TalkIsWhole
  <2> SUFFICES ASSUME TalkInv PROVE TalkIsWhole
    OBVIOUS
  <2>0. TalkTyped /\ SessionFits /\ HistoryFits /\ EventsFit
    BY DEF TalkInv
  <2>1. Released
    BY <2>0 DEF Released, SessionFits, TalkTyped
  <2>2. Paired
    <3>1. DOMAIN history = 1..Len(history)
      BY <2>0 DEF TalkTyped
    <3>2. ASSUME NEW i \in DOMAIN history PROVE ShownHistory[i] = history[i]
      <4>1. history[i] \in Said /\ history[i].agent = chat.agent
        BY <2>0, <3>1 DEF TalkTyped, HistoryFits
      <4> QED
        BY <4>1 DEF ShownHistory, Said
    <3> QED
      BY <2>0, <3>1, <3>2 DEF Paired, HistoryFits
  <2>3. ASSUME mode = "lead", prompt = "asking", NEW i \in DOMAIN GetEvents
        PROVE  GetEvents[i] = IF i % 2 = 1 THEN "started" ELSE "finished"
    <3>1. PICK n \in Nat : n = Len(events) /\ n % 2 = 1
      BY <2>0, <2>3 DEF EventsFit, TalkTyped
    <3>2. PICK m \in Nat : m <= n /\ GetEvents = SubSeq(Reverse(events), 1, m)
      BY <3>1, RecentAssumption DEF GetEvents
    <3>3. \A j \in 1..m : Reverse(events)[j] = events[n - j + 1]
      BY <3>1, <3>2 DEF Reverse
    <3>4. \A j \in 1..m : Reverse(events)[j] \in {"started", "finished"}
      <4>1. \A j \in 1..m : n - j + 1 \in 1..n
        BY <3>1, <3>2
      <4>2. \A k \in 1..n : events[k] \in {"started", "finished"}
        BY <2>0, <3>1 DEF TalkTyped
      <4> QED
        BY <3>3, <4>1, <4>2
    <3>5. i \in 1..m /\ GetEvents[i] = Reverse(events)[i]
      <4>1. /\ GetEvents \in Seq({"started", "finished"})
            /\ Len(GetEvents) = IF 1 <= m THEN m - 1 + 1 ELSE 0
            /\ \A j \in 1..(m - 1 + 1) : GetEvents[j] = Reverse(events)[1 + j - 1]
        BY <3>2, <3>4, SubSeqProperties
      <4> QED
        BY <2>3, <3>2, <4>1
    <3>6. n - i + 1 \in 1..n /\ (i % 2 = 1 <=> (n - i + 1) % 2 = 1)
      BY <3>1, <3>2, <3>5
    <3> QED
      BY <2>0, <3>1, <3>3, <3>5, <3>6 DEF EventsFit
  <2> QED
    BY <2>1, <2>2, <2>3 DEF TalkIsWhole, EventsTold
<1> QED
  BY <1>1, TalkStart, TalkStep, PTL DEF ChatSpec
==============================================================================
