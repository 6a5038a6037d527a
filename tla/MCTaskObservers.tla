--------------------------- MODULE MCTaskObservers --------------------------
(* Two actors, two tasks, one label, one identifier that is no entry's, and *)
(* one waiter, who waits for COMPLETED; FAILED is another name of the same  *)
(* wait, and t2 another name of t1.  Where labels are used nobody waits:    *)
(* the two do not meet in any line of the code, and either is checked on    *)
(* boards of its own.                                                       *)
EXTENDS TaskObservers

CONSTANTS a1, a2, t1, t2, bogus, legal

MCActor == {a1, a2}
MCTask  == {t1, t2, bogus}
MCBogus == {bogus}
MCLabel == {legal}
MCTarget == {"completed"}

Unlabelled == \A t \in Task : labels[t] = {}
Alone == \A w \in Waiter : wait[w].at = "out" /\ wait[w].task = t1

MCInit == ObserveInit /\ \A w \in Waiter : wait[w].task # t2
MCNext == ObserveNext /\ (Unlabelled' \/ Alone')
MCSpec == MCInit /\ [][MCNext]_observeVars /\ ObserveFairness
=============================================================================
