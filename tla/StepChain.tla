------------------------------ MODULE StepChain -----------------------------
(***************************************************************************)
(* What a flow of steps promises, through failures, retries and restarts   *)
(* of the process: steps take effect one after the other, none is skipped, *)
(* what was kept is not lost, and unless a save went wrong no step takes   *)
(* effect twice on the way to a state.                                     *)
(***************************************************************************)
EXTENDS Naturals, Sequences, SequencesExt

VARIABLES real,     \* the steps that have an agent
          work,     \* the steps whose effects the current state has, in order
          kept,     \* the same of the state that would survive a crash
          slipped,  \* a save has failed
          success   \* the flow has reported success

vars == <<real, work, kept, slipped, success>>

Init ==
  /\ real \subseteq Nat
  /\ work = <<>> /\ kept = <<>>
  /\ slipped = FALSE /\ success = FALSE

Done(s) == \E i \in DOMAIN work : work[i] = s

Do(s) ==
  /\ ~success
  /\ \A r \in real : r < s => Done(r)
  /\ \A r \in real : r > s => ~Done(r)
  /\ Done(s) => slipped
  /\ work' = Append(work, s)
  /\ UNCHANGED <<real, kept, slipped, success>>

Keep ==
  /\ IsPrefix(kept, work)
  /\ kept' = work
  /\ UNCHANGED <<real, work, slipped, success>>

Slip ==
  /\ slipped' = TRUE
  /\ UNCHANGED <<real, work, kept, success>>

Recover ==
  /\ ~success
  /\ work' = kept
  /\ UNCHANGED <<real, kept, slipped, success>>

Succeed ==
  /\ \A r \in real : Done(r)
  /\ success' = TRUE
  /\ UNCHANGED <<real, work, kept, slipped>>

Next == Keep \/ Slip \/ Recover \/ Succeed \/ \E s \in real : Do(s)

Spec == Init /\ [][Next]_vars
=============================================================================
