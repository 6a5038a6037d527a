------------------------------ MODULE AgentLife -----------------------------
(***************************************************************************)
(* What a run of a configured flow does with its agents, and with the      *)
(* memory each agent keeps on disk between runs.                           *)
(*                                                                         *)
(* run_from_config builds a fresh AgentRuntime for every agent of the      *)
(* workspace, participant or not, initializes them one after the other     *)
(* (start a session with the backend, read the memory file), lets the      *)
(* coordination take turns with them, and closes all of them in its        *)
(* finally block (write the memory file, end the session), whatever was    *)
(* initialized by then.  The store of an agent holds the turns of every    *)
(* run it has read of or taken part in, and is written as a whole.         *)
(*                                                                         *)
(* Run is the set of run ids; a run that is over or whose process died may *)
(* be resumed under its id.  What may go wrong in a behaviour is fixed at  *)
(* its start: `faults' is one of FaultSets.  Prompts, tools and texts are  *)
(* left out; a turn is its two announcements, its answer and its trace in  *)
(* the store.  An agent takes one turn at a time.                          *)
(***************************************************************************)
EXTENDS Integers

CONSTANTS Run, N,      \* run ids; number of agents, in the order of agent_specs
          MaxTurns,    \* bound: turns remembered of one agent in one run
          FaultSets    \* the sets of faults explored

\* overlap: another run starts before this one is over; startFails: a backend
\* refuses the session; earlyCancel: the run is cancelled while it initializes;
\* diskFails: the file cannot be written; crash: the process dies; slowSink:
\* the event sink suspends, so that a publication can be cancelled.
Fault == {"overlap", "startFails", "earlyCancel", "diskFails", "crash", "slowSink"}

ASSUME LifeAssumption ==
  N \in Nat \ {0} /\ MaxTurns \in Nat \ {0} /\ FaultSets \subseteq SUBSET Fault

Agent == 1..N

VARIABLES faults,    \* what may go wrong, never changed
          pc, at,    \* place of each run, and the agent it initializes or closes
          store,     \* _store of the memory providers: turns of each run
          session,   \* is the agent's backend session open?
          unsaved,   \* agents whose close raised before it ended the session
          turn,      \* where the agent's turn stands
          owed,      \* AGENT_TURN_COMPLETED events its last turn still owes
          disk,      \* the memory files
          taken      \* turns the agents have completed, by run

lifeVars == <<faults, pc, at, store, session, unsaved, turn, owed, disk, taken>>

Memory  == [Run -> 0..MaxTurns]
Nothing == [r \in Run |-> 0]
Torn    == [r \in Run |-> -1]  \* a file that is no JSON: opened, not yet written

Starting == {"opening", "loading", "greeting"}
Closing  == {"persisting", "writing", "closing"}
Active   == Starting \cup {"running"} \cup Closing

LifeTypeOK ==
  /\ faults \in SUBSET Fault
  /\ pc \in [Run -> Active \cup {"idle", "over", "dead"}] /\ at \in [Run -> Agent]
  /\ store \in [Run -> [Agent -> Memory]] /\ session \in [Run -> [Agent -> BOOLEAN]]
  /\ unsaved \in [Run -> SUBSET Agent]
  /\ turn \in [Run -> [Agent -> {"none", "announcing", "asking", "ending", "lamenting"}]]
  /\ owed \in [Run -> [Agent -> -1..1]]
  /\ disk \in [Agent -> Memory \cup {Torn}] /\ taken \in [Run -> [Agent -> 0..MaxTurns]]

LifeInit ==
  /\ faults \in FaultSets
  /\ pc = [r \in Run |-> "idle"] /\ at = [r \in Run |-> 1]
  /\ store = [r \in Run |-> [a \in Agent |-> Nothing]]
  /\ session = [r \in Run |-> [a \in Agent |-> FALSE]]
  /\ unsaved = [r \in Run |-> {}]
  /\ turn = [r \in Run |-> [a \in Agent |-> "none"]]
  /\ owed = [r \in Run |-> [a \in Agent |-> 0]]
  /\ disk = [a \in Agent |-> Nothing]
  /\ taken = [r \in Run |-> [a \in Agent |-> 0]]

-----------------------------------------------------------------------------
\* Building the runtimes: everything in memory is fresh.
Begin(r) ==
  /\ pc[r] \notin Active
  /\ "overlap" \in faults \/ \A q \in Run : pc[q] \notin Active
  /\ pc' = [pc EXCEPT ![r] = "opening"] /\ at' = [at EXCEPT ![r] = 1]
  /\ store' = [store EXCEPT ![r] = [a \in Agent |-> Nothing]]
  /\ session' = [session EXCEPT ![r] = [a \in Agent |-> FALSE]]
  /\ unsaved' = [unsaved EXCEPT ![r] = {}]
  /\ turn' = [turn EXCEPT ![r] = [a \in Agent |-> "none"]]
  /\ owed' = [owed EXCEPT ![r] = [a \in Agent |-> 0]]
  /\ UNCHANGED <<faults, disk, taken>>

\* The finally block closes every runtime, initialized or not.
Leave(r) == pc' = [pc EXCEPT ![r] = "persisting"] /\ at' = [at EXCEPT ![r] = 1]

StartSession(r) ==
  /\ pc[r] = "opening"
  /\ pc' = [pc EXCEPT ![r] = "loading"]
  /\ session' = [session EXCEPT ![r][at[r]] = TRUE]
  /\ UNCHANGED <<faults, at, store, unsaved, turn, owed, disk, taken>>

SessionRefused(r) ==
  /\ pc[r] = "opening" /\ "startFails" \in faults
  /\ Leave(r)
  /\ UNCHANGED <<faults, store, session, unsaved, turn, owed, disk, taken>>

\* Variant: the provider is not hydrated.
LoadNothing(r) ==
  /\ pc[r] = "loading"
  /\ pc' = [pc EXCEPT ![r] = "greeting"]
  /\ UNCHANGED <<faults, at, store, session, unsaved, turn, owed, disk, taken>>

\* A file that cannot be parsed counts as none.
LoadFromDisk(r) ==
  /\ pc[r] = "loading"
  /\ pc' = [pc EXCEPT ![r] = "greeting"]
  /\ store' = IF disk[at[r]] = Torn THEN store
              ELSE [store EXCEPT ![r][at[r]] = disk[at[r]]]
  /\ UNCHANGED <<faults, at, session, unsaved, turn, owed, disk, taken>>

\* AGENT_MEMORY_LOADED and AGENT_INITIALIZED; then the next agent, or the flow.
Greet(r) ==
  /\ pc[r] = "greeting"
  /\ IF at[r] = N THEN pc' = [pc EXCEPT ![r] = "running"] /\ UNCHANGED at
     ELSE pc' = [pc EXCEPT ![r] = "opening"] /\ at' = [at EXCEPT ![r] = @ + 1]
  /\ UNCHANGED <<faults, store, session, unsaved, turn, owed, disk, taken>>

CancelEarly(r) ==
  /\ pc[r] \in Starting /\ "earlyCancel" \in faults
  /\ Leave(r)
  /\ UNCHANGED <<faults, store, session, unsaved, turn, owed, disk, taken>>

-----------------------------------------------------------------------------
\* One turn of an agent, _execute_turn.

Rest == <<faults, pc, at, session, unsaved, disk>>

TurnStarts(r, a) ==
  /\ pc[r] = "running" /\ turn[r][a] = "none"
  /\ turn' = [turn EXCEPT ![r][a] = "announcing"]
  /\ owed' = [owed EXCEPT ![r][a] = 0]
  /\ UNCHANGED <<Rest, store, taken>>

Announced(r, a) ==
  /\ turn[r][a] = "announcing"
  /\ turn' = [turn EXCEPT ![r][a] = "asking"]
  /\ owed' = [owed EXCEPT ![r][a] = 1]
  /\ UNCHANGED <<Rest, store, taken>>

\* The backend has answered, the tools it asked for have run: save_turn.
Answered(r, a) ==
  /\ turn[r][a] = "asking" /\ store[r][a][r] < MaxTurns /\ taken[r][a] < MaxTurns
  /\ turn' = [turn EXCEPT ![r][a] = "ending"]
  /\ store' = [store EXCEPT ![r][a][r] = @ + 1]
  /\ taken' = [taken EXCEPT ![r][a] = @ + 1]
  /\ UNCHANGED <<Rest, owed>>

TurnRaises(r, a) ==
  /\ turn[r][a] = "asking"
  /\ turn' = [turn EXCEPT ![r][a] = "lamenting"]
  /\ UNCHANGED <<Rest, store, owed, taken>>

\* The sink has accepted AGENT_TURN_COMPLETED, that of the turn or that of the
\* exception handler.
Completed(r, a) ==
  /\ turn[r][a] \in {"ending", "lamenting"}
  /\ turn' = [turn EXCEPT ![r][a] = "none"]
  /\ owed' = [owed EXCEPT ![r][a] = @ - 1]
  /\ UNCHANGED <<Rest, store, taken>>

\* Variant: except Exception, which a cancellation passes by.
CancelUnannounced(r, a) ==
  /\ \/ turn[r][a] = "asking"
     \/ turn[r][a] # "none" /\ "slowSink" \in faults
  /\ turn' = [turn EXCEPT ![r][a] = "none"]
  /\ UNCHANGED <<Rest, store, owed, taken>>

\* What a cancelled turn owes: its publication and then that of the handler
\* may each have reached the sink, unless the sink takes events at once.
OwedAfter(r, a) ==
  {n \in -1..1 : \/ n = 0
                 \/ n = 1 /\ "slowSink" \in faults
                 \/ n = -1 /\ turn[r][a] = "ending"}

\* A turn timeout or the end of the run's scope: no await survives it, a
\* publication included if the sink suspends.
CancelTurn(r, a) ==
  /\ \/ turn[r][a] = "asking"
     \/ turn[r][a] # "none" /\ "slowSink" \in faults
  /\ turn' = [turn EXCEPT ![r][a] = "none"]
  /\ \E left \in OwedAfter(r, a) : owed' = [owed EXCEPT ![r][a] = left]
  /\ UNCHANGED <<Rest, store, taken>>

\* The coordination returns, raises or is cancelled: no turn is left.
FlowOver(r) ==
  /\ pc[r] = "running" /\ \A a \in Agent : turn[r][a] = "none"
  /\ Leave(r)
  /\ UNCHANGED <<faults, store, session, unsaved, turn, owed, disk, taken>>

-----------------------------------------------------------------------------
\* close() of one runtime after the other.

NextRuntime(r) ==
  IF at[r] = N THEN pc' = [pc EXCEPT ![r] = "over"] /\ UNCHANGED at
  ELSE pc' = [pc EXCEPT ![r] = "persisting"] /\ at' = [at EXCEPT ![r] = @ + 1]

\* write_text opens the file for writing, which empties it ...
OpenFile(r) ==
  /\ pc[r] = "persisting"
  /\ pc' = [pc EXCEPT ![r] = "writing"]
  /\ disk' = [disk EXCEPT ![at[r]] = Torn]
  /\ UNCHANGED <<faults, at, store, session, unsaved, turn, owed, taken>>

\* ... and then writes the whole store.
WriteFile(r) ==
  /\ pc[r] = "writing"
  /\ pc' = [pc EXCEPT ![r] = "closing"]
  /\ disk' = [disk EXCEPT ![at[r]] = store[r][at[r]]]
  /\ UNCHANGED <<faults, at, store, session, unsaved, turn, owed, taken>>

\* close raises before it has ended the session; the loop goes on.
PersistFails(r) ==
  /\ pc[r] \in {"persisting", "writing"} /\ "diskFails" \in faults
  /\ unsaved' = [unsaved EXCEPT ![r] = @ \cup {at[r]}]
  /\ NextRuntime(r)
  /\ UNCHANGED <<faults, store, session, turn, owed, disk, taken>>

CloseSession(r) ==
  /\ pc[r] = "closing"
  /\ session' = [session EXCEPT ![r][at[r]] = FALSE]
  /\ NextRuntime(r)
  /\ UNCHANGED <<faults, store, unsaved, turn, owed, disk, taken>>

\* The process of the run dies; the files stay as they are.
Crash(r) ==
  /\ pc[r] \in Active /\ "crash" \in faults
  /\ pc' = [pc EXCEPT ![r] = "dead"]
  /\ turn' = [turn EXCEPT ![r] = [a \in Agent |-> "none"]]
  /\ UNCHANGED <<faults, at, store, session, unsaved, owed, disk, taken>>

Turn(r, a) ==
  \/ TurnStarts(r, a) \/ Announced(r, a) \/ Answered(r, a)
  \/ TurnRaises(r, a) \/ Completed(r, a) \/ CancelTurn(r, a)

Life(r) ==
  \/ Begin(r) \/ StartSession(r) \/ SessionRefused(r) \/ LoadFromDisk(r)
  \/ Greet(r) \/ CancelEarly(r) \/ \E a \in Agent : Turn(r, a)
  \/ FlowOver(r) \/ OpenFile(r) \/ WriteFile(r) \/ PersistFails(r)
  \/ CloseSession(r) \/ Crash(r)

LifeNext == \E r \in Run : Life(r)
LifeSpec == LifeInit /\ [][LifeNext]_lifeVars

-----------------------------------------------------------------------------
\* Runs that follow each other and get their agents started: no fault that
\* makes a close write a store that never read its file, or leaves a torn one.
Calm == faults \subseteq {"slowSink"}

\* In calm weather an agent remembers: every turn an agent completed in a run
\* that is over is in its file, through all later runs, whatever failed or was
\* cancelled in the flows themselves.
Remembered ==
  Calm => \A r \in Run, a \in Agent :
     /\ pc[r] = "over"
     /\ \A q \in Run : pc[q] = "writing" => at[q] # a
     => disk[a] # Torn /\ disk[a][r] = taken[r][a]

\* Over a sink that takes events at once, every turn that was announced is
\* announced completed exactly once, on every path out of it.
TurnsAnnounced ==
  "slowSink" \notin faults => \A r \in Run, a \in Agent :
     /\ turn[r][a] = "asking" => owed[r][a] = 1
     /\ turn[r][a] = "none" /\ pc[r] # "dead" => owed[r][a] = 0

\* A run that is over leaves no backend session open but those of agents whose
\* memory could not be written.
SessionsClosed ==
  \A r \in Run, a \in Agent :
     pc[r] = "over" /\ session[r][a] => a \in unsaved[r]

\* Whatever fails or is cancelled, a run leaves neither turns nor sessions in
\* the air.  (agent_runtime.py:703-756, pipeline_runner.py:600-640)
LeavesNothingOpen == TurnsAnnounced /\ SessionsClosed
=============================================================================
