------------------------------ MODULE MCTeamRun -----------------------------
(* A lead, two teammates and two or three tasks.                            *)
EXTENDS TeamRun

CONSTANTS lead, ana, bob, t1, t2, t3

MCActor    == {lead, ana, bob}
MCTeammate == {ana, bob}
MCTask2    == {t1, t2}
MCTask3    == {t1, t2, t3}
MCAll      == {NoOne, ana, bob}

\* initial_tasks: t1 first
MCNone  == <<>>
MCOne   == <<[task |-> t1, assigned_to |-> NoOne, depends_on |-> {}]>>
=============================================================================
