------------------------------ MODULE MCFlowRun -----------------------------
(* Two steps, participants or teammates, with the ids they use.             *)
EXTENDS FlowRun

MCCaller == 1..N
MCId == {<<"step", s, s>> : s \in 1..N} \cup ({"contribute", "review"} \X (1..N) \X (1..N))
        \cup ({"reply"} \X (1..N) \X (0..(MaxTurns - 1)))
=============================================================================
