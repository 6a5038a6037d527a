----------------------------- MODULE ConsoleRuns ----------------------------
(***************************************************************************)
(* The runs other people see.  The embedded console records a run, starts  *)
(* it behind the answer and shows what became of it; the standalone        *)
(* console, the gateway and `miniautogen sessions' share a run store with  *)
(* runners of other processes, in memory or in a database.                 *)
(*                                                                         *)
(* Of a run in the store the model keeps its status and whether its record *)
(* carries its identifier: those of the gateway do, those of the runner    *)
(* and of a recovery do not.  Nothing takes up what the gateway queues.    *)
(* Approvals of the console are left out: no channel is ever registered,   *)
(* so the answer is always that there is none.  Ages, inputs and the       *)
(* sizes of requests are left out.                                         *)
(***************************************************************************)
EXTENDS Integers, Sequences, SequencesExt, FiniteSets

CONSTANTS ShownRun, ShownFlow, AnyStatus, PageSizes

ASSUME PageAssumption == PageSizes \subseteq Nat \ {0}

VARIABLES database,   \* the store keeps its records in a database, never changed
          defined,    \* flows the configuration has
          onDisplay,    \* what the embedded console shows, in order
          behind,     \* its runs that go on behind the answer
          records,    \* the store's records in the order it lists them
          cancelling, \* a cancel_run that has read the record but not written it
          cleaning    \* identifiers a clean_sessions has still to delete

shownVars == <<database, defined, onDisplay, behind, records, cancelling, cleaning>>

Unended   == {"pending", "started", "resumed"}
Cleanable == {"finished", "failed", "cancelled", "timed_out"}
RunRecord == [run : ShownRun, status : Unended \cup Cleanable, named : BOOLEAN]

ShownTypeOK ==
  /\ database \in BOOLEAN /\ defined \subseteq ShownFlow
  /\ onDisplay \in Seq([run : ShownRun, flow : ShownFlow, status : {"running", "completed", "failed"}])
  /\ behind \in [ShownRun -> {"no", "queued", "running", "completed", "failed"}]
  /\ records \in Seq(RunRecord)
  /\ cancelling \subseteq RunRecord
  /\ cleaning \in Seq(ShownRun)

ShownInit ==
  /\ database \in BOOLEAN /\ defined = ShownFlow
  /\ onDisplay = <<>> /\ behind = [r \in ShownRun |-> "no"]
  /\ records = <<>> /\ cancelling = {} /\ cleaning = <<>>

-----------------------------------------------------------------------------
\* The embedded console.

storeUnchanged == UNCHANGED <<database, records, cancelling, cleaning>>

\* Another command removes a flow, or puts it back.
ConfigChanges(f) ==
  /\ defined' = IF f \in defined THEN defined \ {f} ELSE defined \cup {f}
  /\ UNCHANGED <<onDisplay, behind>> /\ storeUnchanged

\* A flow that is not defined is refused.
TriggerRun(r, f) ==
  /\ behind[r] = "no" /\ f \in defined
  /\ onDisplay' = Append(onDisplay, [run |-> r, flow |-> f, status |-> "running"])
  /\ behind' = [behind EXCEPT ![r] = "queued"]
  /\ UNCHANGED defined /\ storeUnchanged

\* Variant: the first run of the flow that is still shown as running.
UpdateFirst(r, status) ==
  LET flow == onDisplay[SelectInSeq(onDisplay, LAMBDA e : e.run = r)].flow
      i == SelectInSeq(onDisplay, LAMBDA e : e.flow = flow /\ e.status = "running")
  IN IF i = 0 THEN onDisplay ELSE [onDisplay EXCEPT ![i].status = status]

\* update_run: the entry of the run.
UpdateRun(r, status) ==
  LET i == SelectInSeq(onDisplay, LAMBDA e : e.run = r)
  IN IF i = 0 THEN onDisplay ELSE [onDisplay EXCEPT ![i].status = status]

\* The configuration is loaded anew; a flow that has gone makes a failed run.
BeginRun(r) ==
  /\ behind[r] = "queued"
  /\ \E e \in ToSet(onDisplay) :
       /\ e.run = r
       /\ IF e.flow \in defined
          THEN behind' = [behind EXCEPT ![r] = "running"] /\ UNCHANGED onDisplay
          ELSE /\ behind' = [behind EXCEPT ![r] = "failed"]
               /\ onDisplay' = UpdateRun(r, "failed")
  /\ UNCHANGED defined /\ storeUnchanged

\* run_pipeline returns a result, whatever happens.
EndRun(r, status) ==
  /\ behind[r] = "running"
  /\ behind' = [behind EXCEPT ![r] = status]
  /\ onDisplay' = UpdateRun(r, status)
  /\ UNCHANGED defined /\ storeUnchanged

-----------------------------------------------------------------------------
\* The store.

consoleUnchanged == UNCHANGED <<database, defined, onDisplay, behind>>

At(r)   == SelectInSeq(records, LAMBDA e : e.run = r)
Here(r) == At(r) # 0

\* A list without what is in a set.
Besides(s, C) ==
  LET kept[i \in 0..Len(s)] ==
        IF i = 0 THEN <<>> ELSE IF s[i] \in C THEN kept[i - 1] ELSE Append(kept[i - 1], s[i])
  IN kept[Len(s)]

Of(r) == {e \in RunRecord : e.run = r}

\* A database lists what was saved last first; the dictionary keeps the place.
Saved(e) ==
  IF database THEN <<e>> \o Besides(records, Of(e.run))
  ELSE IF Here(e.run) THEN [records EXCEPT ![At(e.run)] = e]
  ELSE Append(records, e)

SaveRun(r, status, named) ==
  records' = Saved([run |-> r, status |-> status, named |-> named])

\* create_run of the gateway; the identifier may be the caller's.
CreateRun(r) ==
  /\ SaveRun(r, "pending", TRUE)
  /\ UNCHANGED <<cancelling, cleaning>> /\ consoleUnchanged

\* A runner of some process: started, and the end of what it started.
RunnerStarts(r) ==
  /\ SaveRun(r, "started", FALSE)
  /\ UNCHANGED <<cancelling, cleaning>> /\ consoleUnchanged

RunnerEnds(r, status) ==
  /\ Here(r) /\ records[At(r)].status = "started"
  /\ SaveRun(r, status, FALSE)
  /\ UNCHANGED <<cancelling, cleaning>> /\ consoleUnchanged

\* A recovery: whatever was there.
MarkResumed(r) ==
  /\ SaveRun(r, "resumed", FALSE)
  /\ UNCHANGED <<cancelling, cleaning>> /\ consoleUnchanged

\* cancel_run reads the record and writes it back; in a database others write
\* in between.  The bound: one at a time.
CancelRead(r) ==
  /\ Here(r) /\ cancelling = {}
  /\ IF database
     THEN cancelling' = {records[At(r)]} /\ UNCHANGED records
     ELSE SaveRun(r, "cancelled", records[At(r)].named) /\ UNCHANGED cancelling
  /\ UNCHANGED cleaning /\ consoleUnchanged

CancelWrite ==
  /\ \E e \in cancelling : SaveRun(e.run, "cancelled", e.named)
  /\ cancelling' = {}
  /\ UNCHANGED cleaning /\ consoleUnchanged

\* clean_sessions: list all, then delete what can be deleted, by the identifier
\* in the record; in a database one after the other.
ToClean ==
  LET old == Besides(records, {e \in RunRecord : ~(e.status \in Cleanable /\ e.named)})
  IN [i \in DOMAIN old |-> old[i].run]

CleanSessions ==
  /\ cleaning = <<>> /\ ToClean # <<>>
  /\ IF database
     THEN cleaning' = ToClean /\ UNCHANGED records
     ELSE /\ records' = Besides(records, {e \in RunRecord : e.run \in ToSet(ToClean)})
          /\ UNCHANGED cleaning
  /\ UNCHANGED cancelling /\ consoleUnchanged

CleanNext ==
  /\ cleaning # <<>>
  /\ records' = Besides(records, Of(Head(cleaning)))
  /\ cleaning' = Tail(cleaning)
  /\ UNCHANGED cancelling /\ consoleUnchanged

Shown ==
  \/ \E f \in ShownFlow : ConfigChanges(f)
  \/ \E r \in ShownRun, f \in ShownFlow : TriggerRun(r, f)
  \/ \E r \in ShownRun : BeginRun(r) \/ \E s \in {"completed", "failed"} : EndRun(r, s)
Stored ==
  \/ \E r \in ShownRun : \/ CreateRun(r) \/ RunnerStarts(r) \/ MarkResumed(r) \/ CancelRead(r)
                         \/ \E s \in Cleanable : RunnerEnds(r, s)
  \/ CancelWrite \/ CleanSessions \/ CleanNext

ShownSpec == ShownInit /\ [][Shown \/ Stored]_shownVars

-----------------------------------------------------------------------------
\* The lists.

Take(s, n) == IF n < Len(s) THEN SubSeq(s, 1, n) ELSE s
Drop(s, n) == SubSeq(s, n + 1, Len(s))
Unfit(status) == {e \in RunRecord : status # AnyStatus /\ e.status # status}

\* list_runs; a database cuts first and filters then.
ListRuns(status, limit) ==
  IF database THEN Besides(Take(records, limit), Unfit(status))
  ELSE Take(Besides(records, Unfit(status)), limit)

\* query_runs: a page of the runs, and how many were read for it.
QueryRuns(status, offset, limit) ==
  LET all == ListRuns(status, offset + limit)
  IN [items |-> Take(Drop(all, offset), limit), total |-> Len(all)]

\* The console's list has a Next that can be pressed when the total makes more
\* pages than those up to the one shown.
NextOffered(answer, page, limit) == answer.total > (page + 1) * limit

\* The embedded console shows a run as running exactly while it goes on behind
\* the answer, and then how that very run ended, through runs of the same flow
\* that overlap and a configuration that changes (routes/runs.py:132-160).
RunsShown ==
  \A e \in ToSet(onDisplay) :
     e.status = IF behind[e.run] \in {"queued", "running"} THEN "running" ELSE behind[e.run]

\* "use offset+limit to avoid loading more than needed while still computing
\* correct total" (standalone_provider.py:133-134): whichever page of the
\* standalone console is asked for, its total is the number of runs in the store,
\* and Next is offered while there are runs beyond the page.
TotalIsCorrect ==
  \A limit \in PageSizes, page \in 0..1 :
     LET answer == QueryRuns(AnyStatus, page * limit, limit) IN
     /\ answer.total = Len(records)
     /\ NextOffered(answer, page, limit) <=> Len(records) > (page + 1) * limit
=============================================================================
