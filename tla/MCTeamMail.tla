----------------------------- MODULE MCTeamMail -----------------------------
(* Two teammates, two tasks of which one is there from the start, inboxes   *)
(* with room for one message.                                               *)
EXTENDS TeamMail
=============================================================================
