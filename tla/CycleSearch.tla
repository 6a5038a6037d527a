----------------------------- MODULE CycleSearch ----------------------------
(***************************************************************************)
(* add, with the depth-first search that _validate_no_cycle does before it *)
(* stores the entry: three colours, every entry the root of a search unless*)
(* an earlier one has been there, an edge to a grey entry raised as a      *)
(* cycle, an edge to an unknown identifier skipped.  The calls of dfs that *)
(* have begun are the path.  TeamTaskList has the whole add as one step    *)
(* whose guard states the test (AcyclicOn); this module takes the search   *)
(* step by step.  add awaits nothing while it searches, so no other call   *)
(* goes on meanwhile.                                                      *)
(*                                                                         *)
(* Roots and edges come in any order; an identifier named twice finds the  *)
(* entry black the second time, so that a set does for the list.  The limit*)
(* of the interpreter on nested calls is left out.                         *)
(***************************************************************************)
EXTENDS TeamTaskList

CONSTANT NoCall   \* no add is searching

SearchedCall == [actor : Actor, task : Task, entry : Entry]

ASSUME NoCallAssumption == NoCall \notin SearchedCall

VARIABLES call,     \* the add that searches, or NoCall
          color,    \* the colour of each entry of all_tasks
          path,     \* the calls of dfs that go on: an entry, its edges left
          roots,    \* what the loop over all_tasks has not come to yet
          raising   \* ConfigurationError is on its way out

searchVars == <<call, color, path, roots, raising>>

Frame == [task : Task, left : SUBSET Task]

SearchTypeOK ==
  /\ call \in SearchedCall \cup {NoCall}
  /\ DOMAIN color \subseteq Task /\ color \in [DOMAIN color -> {"white", "grey", "black"}]
  /\ path \in Seq(Frame)
  /\ roots \subseteq Task
  /\ raising \in BOOLEAN

NoColor == [t \in {} |-> "white"]
NoSearch == call = NoCall /\ color = NoColor /\ path = <<>> /\ roots = {} /\ raising = FALSE

SearchInit == Init /\ NoSearch

-----------------------------------------------------------------------------
\* What the entries of all_tasks depend on, the new one in its place.
Edges == [depends_on EXCEPT ![call.task] = call.entry.depends_on]

BeginAdd(a, t, e) ==
  /\ call = NoCall /\ Free(a)
  /\ call' = [actor |-> a, task |-> t, entry |-> e]
  /\ color' = [u \in Known \cup {t} |-> "white"]
  /\ roots' = Known \cup {t}
  /\ UNCHANGED <<vars, path, raising>>

Searching == call # NoCall /\ ~raising

\* dfs is called with an entry, from the calls below.
Enter(t, below) ==
  /\ color' = [color EXCEPT ![t] = "grey"]
  /\ path' = Append(below, [task |-> t, left |-> Edges[t]])

NextRoot(t) ==
  /\ Searching /\ path = <<>> /\ t \in roots
  /\ roots' = roots \ {t}
  /\ \/ color[t] = "white" /\ Enter(t, <<>>)
     \/ color[t] # "white" /\ UNCHANGED <<color, path>>
  /\ UNCHANGED <<vars, call, raising>>

Top == path[Len(path)]
Tried(d) == [path EXCEPT ![Len(path)].left = @ \ {d}]

\* Variants: every entry seen before closes a cycle; only an entry that depends
\* on itself does.
ClosesSeen(d) == color[d] # "white"
ClosesSelf(d) == d = Top.task

\* An edge to an entry whose dfs goes on.
Closes(d) == color[d] = "grey"

\* The next dep_id of the call that is on.
Follow(d) ==
  /\ Searching /\ path # <<>> /\ d \in Top.left
  /\ IF d \in DOMAIN color /\ Closes(d)
     THEN raising' = TRUE /\ UNCHANGED <<color, path>>
     ELSE /\ IF d \in DOMAIN color /\ color[d] = "white"
             THEN Enter(d, Tried(d))
             ELSE path' = Tried(d) /\ UNCHANGED color
          /\ UNCHANGED raising
  /\ UNCHANGED <<vars, call, roots>>

Return ==
  /\ Searching /\ path # <<>> /\ Top.left = {}
  /\ color' = [color EXCEPT ![Top.task] = "black"]
  /\ path' = SubSeq(path, 1, Len(path) - 1)
  /\ UNCHANGED <<vars, call, roots, raising>>

AddEnds == call' = NoCall /\ color' = NoColor /\ path' = <<>> /\ roots' = {} /\ raising' = FALSE

\* The search has ended without an exception: the entry goes onto the board.
Store ==
  /\ Searching /\ path = <<>> /\ roots = {}
  /\ Put(call.task, call.entry)
  /\ doneEvent' = [doneEvent EXCEPT ![call.task] = "unset"]
  /\ Announce(call.actor, call.task, call.entry.status, call.entry.claimed_by)
  /\ UNCHANGED boardLock
  /\ AddEnds

\* The exception leaves every call of dfs, and add.
Raise == raising /\ AddEnds /\ UNCHANGED vars

SearchStep ==
  \/ \E t \in Task : NextRoot(t) \/ Follow(t)
  \/ Return \/ Store \/ Raise

SearchNext ==
  \/ call = NoCall /\ ApiRest /\ UNCHANGED searchVars
  \/ \E a \in Actor, t \in Task, e \in Payload : BeginAdd(a, t, e)
  \/ SearchStep

SearchSpec == SearchInit /\ [][SearchNext]_<<vars, searchVars>>

-----------------------------------------------------------------------------
\* The search is exact: an exception leaves add only when the new entry would
\* close a cycle among known entries, and what is stored after a search is what
\* the declarative test admits, so that keeping the colours between roots loses
\* no cycle and invents none (team_task_list.py:232).
SearchFindsCycles ==
  [][/\ UNCHANGED vars \/ ApiNext
     /\ Raise => ~ValidateNoCycle(call.task, call.entry.depends_on)]_<<vars, searchVars>>
=============================================================================
