------------------------------ MODULE ChatSession ----------------------------
(***************************************************************************)
(* A conversation in a terminal with an agent (`chat') or with the lead    *)
(* agent and its tools (`lead').  The command keeps one session at a time: *)
(* a runtime, open from its initialization to its close, and the history   *)
(* of what was said; the session of a lead keeps the events of its turns.  *)
(*                                                                         *)
(* Errors that are a ValueError or a RuntimeError are reported by the      *)
(* command; those of the drivers are neither and end it at once.  Each     *)
(* call runs in an event loop of its own while the driver keeps its        *)
(* connections, so that a message after the first may meet a RuntimeError. *)
(* Texts, /help, the listing of agents and the events that the runtime     *)
(* itself records between the two of a turn are left out.                  *)
(***************************************************************************)
EXTENDS FiniteSets, Naturals, SequencesExt

CONSTANTS ChatAgent, NoAgent,
          MaxTalk,           \* bound: messages and switches
          RecentLimit        \* how many events the tool of a lead returns

ASSUME RecentAssumption == RecentLimit \in Nat

VARIABLES mode,      \* chat or lead, never changed
          present,   \* the agents of the workspace
          prompt,    \* where the command is
          chat,      \* whose session it is, and whether it is closed
          unclosed,  \* runtimes that were initialized and not closed
          history,   \* who said what, and to whom
          events,    \* of a lead: the turns that began and ended
          talk       \* messages and switches so far

chatVars == <<mode, present, prompt, chat, unclosed, history, events, talk>>

Said == [role : {"user", "assistant"}, agent : ChatAgent]
Over == {"over", "crashed"}
ChatStage == {"start", "ready", "asking", "switching", "leaving"} \cup Over

ChatTypeOK ==
  /\ mode \in {"chat", "lead"} /\ present \subseteq ChatAgent
  /\ prompt \in ChatStage /\ unclosed \in 0..2 /\ talk \in 0..MaxTalk
  /\ chat \in [agent : ChatAgent \cup {NoAgent}, closed : BOOLEAN]
  /\ history \in Seq(Said) /\ events \in Seq({"started", "finished"})

ChatInit ==
  /\ mode \in {"chat", "lead"} /\ present \in SUBSET ChatAgent
  /\ prompt = "start" /\ chat = [agent |-> NoAgent, closed |-> TRUE]
  /\ unclosed = 0 /\ history = <<>> /\ events = <<>> /\ talk = 0

-----------------------------------------------------------------------------
\* Sessions.

\* Without a name it is the first of the workspace, whichever that is.
CreateSession(a) ==
  /\ a \in present
  /\ chat' = [agent |-> a, closed |-> FALSE] /\ unclosed' = unclosed + 1
  /\ history' = <<>> /\ events' = <<>>
  /\ prompt' = "ready"
  /\ UNCHANGED <<mode, present, talk>>

\* No such agent, or none at all, or a file that load_config refuses.
CreateRefused ==
  /\ prompt' = IF prompt = "start" THEN "over" ELSE "ready"
  /\ UNCHANGED <<mode, present, chat, unclosed, history, events, talk>>

\* Any other error leaves the command: an engine that is not configured, a
\* backend that cannot be reached, Ctrl+C before the conversation began.
CreateFails ==
  /\ prompt' = "crashed"
  /\ UNCHANGED <<mode, present, chat, unclosed, history, events, talk>>

OpenChat ==
  /\ prompt = "start"
  /\ (\E a \in ChatAgent : CreateSession(a)) \/ CreateRefused \/ CreateFails

\* The session counts as closed before its runtime is.
CloseChat ==
  IF chat.closed THEN UNCHANGED <<chat, unclosed>>
  ELSE chat' = [chat EXCEPT !.closed = TRUE] /\ unclosed' = unclosed - 1

\* Variant: the old session goes on until the new one is there.
SwitchLater ==
  /\ mode = "chat" /\ prompt = "ready" /\ talk < MaxTalk
  /\ prompt' = "switching" /\ talk' = talk + 1
  /\ UNCHANGED <<mode, present, chat, unclosed, history, events>>

\* /switch: the old session is closed first, whether or not there is a new one.
Switch ==
  /\ mode = "chat" /\ prompt = "ready" /\ talk < MaxTalk
  /\ CloseChat
  /\ prompt' = "switching" /\ talk' = talk + 1
  /\ UNCHANGED <<mode, present, history, events>>

Switched ==
  /\ prompt = "switching"
  /\ (\E a \in ChatAgent : CreateSession(a)) \/ CreateRefused \/ CreateFails

-----------------------------------------------------------------------------
\* Messages.

Say(role) == history' = Append(history, [role |-> role, agent |-> chat.agent])

Record(event) == events' = IF mode = "lead" THEN Append(events, event) ELSE events

\* A closed session raises, and the command goes to its end.
Send ==
  /\ prompt = "ready" /\ talk < MaxTalk
  /\ IF chat.closed
     THEN prompt' = "leaving" /\ UNCHANGED <<history, events>>
     ELSE prompt' = "asking" /\ Say("user") /\ Record("started")
  /\ talk' = talk + 1
  /\ UNCHANGED <<mode, present, chat, unclosed>>

Replied ==
  /\ prompt = "asking"
  /\ Say("assistant") /\ Record("finished")
  /\ prompt' = "ready"
  /\ UNCHANGED <<mode, present, chat, unclosed, talk>>

\* A RuntimeError ends the loop, an error of the driver the command.
SendRaises ==
  /\ prompt = "asking"
  /\ prompt' \in {"leaving", "crashed"}
  /\ UNCHANGED <<mode, present, chat, unclosed, history, events, talk>>

ClearHistory ==
  /\ prompt = "ready" /\ history # <<>>
  /\ history' = <<>>
  /\ UNCHANGED <<mode, present, prompt, chat, unclosed, events, talk>>

\* /history names the agent of the session at every answer.
ShownHistory == [i \in DOMAIN history |->
  [role |-> history[i].role, agent |-> chat.agent]]

\* get_events, from a turn of the lead: the newest first.
GetEvents == SubSeq(Reverse(events), 1, IF Len(events) < RecentLimit THEN Len(events)
                                        ELSE RecentLimit)

\* A turn of the lead may create and delete agents, its own among them; so may
\* another command at any time.
AgentsEdited ==
  /\ \E a \in ChatAgent : present' = (present \ {a}) \cup ({a} \ present)
  /\ prompt \notin Over
  /\ UNCHANGED <<mode, prompt, chat, unclosed, history, events, talk>>

-----------------------------------------------------------------------------
\* The end.

\* /quit, the end of the input, Ctrl+C: at the prompt, in a turn, in a switch.
Quit ==
  /\ prompt \in {"ready", "asking", "switching"}
  /\ prompt' = "leaving"
  /\ UNCHANGED <<mode, present, chat, unclosed, history, events, talk>>

\* What close raises is swallowed.
ChatEnds ==
  /\ prompt = "leaving"
  /\ CloseChat
  /\ prompt' = "over"
  /\ UNCHANGED <<mode, present, history, events, talk>>

ChatCommand == OpenChat \/ Switch \/ Switched \/ Send \/ Replied \/ SendRaises
               \/ ClearHistory \/ Quit \/ ChatEnds

LeadCommand == OpenChat \/ Send \/ Replied \/ SendRaises \/ ClearHistory \/ Quit \/ ChatEnds

ChatNext ==
  \/ mode = "chat" /\ ChatCommand
  \/ mode = "lead" /\ LeadCommand
  \/ AgentsEdited

ChatSpec == ChatInit /\ [][ChatNext]_chatVars

-----------------------------------------------------------------------------
\* Agents are switched without two ever being open, and a command that comes
\* to its end has closed what it opened.
Released ==
  /\ unclosed <= 1 /\ (prompt = "over" => unclosed = 0)
  /\ unclosed = 1 <=> ~chat.closed

\* At the prompt every message has its answer, and the one whose name is shown
\* gave it.
Paired ==
  /\ \A i \in DOMAIN history : ShownHistory[i] = history[i]
  /\ prompt \in {"ready", "switching"} =>
       \A i \in DOMAIN history :
          history[i].role = IF i % 2 = 1 THEN "user" ELSE "assistant"
  /\ prompt = "ready" => Len(history) % 2 = 0

\* What a lead asks for in a turn begins with the start of that turn, and a
\* turn that began before has ended before it.
EventsTold ==
  mode = "lead" /\ prompt = "asking" =>
    \A i \in DOMAIN GetEvents : GetEvents[i] = IF i % 2 = 1 THEN "started" ELSE "finished"

\* A conversation is with one agent at a time and is shown as it was held,
\* however it is switched, cleared, interrupted or broken off (chat.py: "Switch to
\* a different agent"; chat_service.py: "Close the session and release resources").
TalkIsWhole == Released /\ Paired /\ EventsTold
=============================================================================
