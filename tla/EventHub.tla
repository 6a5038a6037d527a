------------------------------- MODULE EventHub -----------------------------
(***************************************************************************)
(* WebSocketEventSink for one run: it sends each event to the connected    *)
(* clients one after the other, awaiting every send while clients come,    *)
(* leave and break; publications overlap.  The list of connections is      *)
(* iterated over while it changes.  The events it keeps are left out.      *)
(***************************************************************************)
EXTENDS Naturals, Sequences, FiniteSets, SequencesExt

CONSTANTS Client, Event,
          MaxConnections  \* MAX_CONNECTIONS_PER_RUN

ASSUME HubAssumption == MaxConnections \in Nat \ {0}

VARIABLES conns,     \* _connections of the run
          client,    \* where each client's handler is
          pub,       \* each publication: where it is, its place in conns, the failed sends
          got,       \* how often each client has received each event
          audience,  \* clients connected when the event was published
          disturbed, \* publications during which a connection was removed
          overtaken  \* clients let in while another was being let in

hubVars == <<conns, client, pub, got, audience, disturbed, overtaken>>

HubTypeOK ==
  /\ conns \in Seq(Client)
  /\ client \in [Client -> {"out", "accepting", "greeting", "open", "breaks", "gone"}]
  /\ pub \in [Event -> [at : {"no", "next", "sends", "done"}, i : Nat, dead : SUBSET Client]]
  /\ got \in [Client -> [Event -> Nat]]
  /\ audience \in [Event -> SUBSET Client]
  /\ disturbed \subseteq Event /\ overtaken \subseteq Client

HubInit ==
  /\ conns = <<>>
  /\ client = [c \in Client |-> "out"]
  /\ pub = [e \in Event |-> [at |-> "no", i |-> 1, dead |-> {}]]
  /\ got = [c \in Client |-> [e \in Event |-> 0]]
  /\ audience = [e \in Event |-> {}]
  /\ disturbed = {} /\ overtaken = {}

-----------------------------------------------------------------------------
(* The clients' handlers.                                                   *)

\* The limit is checked before accept is awaited.
Connect(c) ==
  /\ client[c] = "out"
  /\ client' = [client EXCEPT ![c] = IF Len(conns) >= MaxConnections THEN "gone" ELSE "accepting"]
  /\ overtaken' = IF \E d \in Client : client[d] = "accepting" THEN overtaken \cup {c} ELSE overtaken
  /\ UNCHANGED <<conns, pub, got, audience, disturbed>>

\* Events may reach the client before its greeting.
Accepted(c) ==
  /\ client[c] = "accepting"
  /\ conns' = Append(conns, c)
  /\ client' = [client EXCEPT ![c] = "greeting"]
  /\ UNCHANGED <<pub, got, audience, disturbed, overtaken>>

Greeted(c) ==
  /\ client[c] = "greeting"
  /\ client' = [client EXCEPT ![c] = "open"]
  /\ UNCHANGED <<conns, pub, got, audience, disturbed, overtaken>>

\* From here on every send to the client may fail.
Break(c) ==
  /\ client[c] \in {"greeting", "open"}
  /\ client' = [client EXCEPT ![c] = "breaks"]
  /\ UNCHANGED <<conns, pub, got, audience, disturbed, overtaken>>

Publishing == {e \in Event : pub[e].at \in {"next", "sends"}}

\* The list without some of its members.
Without(C) ==
  LET kept[i \in 0..Len(conns)] ==
        IF i = 0 THEN <<>>
        ELSE IF conns[i] \in C THEN kept[i - 1] ELSE Append(kept[i - 1], conns[i])
  IN kept[Len(conns)]

\* The handler sees the end of its connection, or its greeting fails.
Disconnect(c) ==
  /\ client[c] = "breaks"
  /\ client' = [client EXCEPT ![c] = "gone"]
  /\ conns' = Without({c})
  /\ disturbed' = IF Contains(conns, c) THEN disturbed \cup Publishing ELSE disturbed
  /\ UNCHANGED <<pub, got, audience, overtaken>>

-----------------------------------------------------------------------------
(* publish.                                                                 *)

Publish(e) ==
  /\ pub[e].at = "no"
  /\ pub' = [pub EXCEPT ![e].at = "next"]
  /\ audience' = [audience EXCEPT ![e] = ToSet(conns)]
  /\ UNCHANGED <<conns, client, got, disturbed, overtaken>>

\* The frame is written at once, then the send is awaited.
SendNext(e) ==
  /\ pub[e].at = "next" /\ pub[e].i <= Len(conns)
  /\ client[conns[pub[e].i]] \in {"greeting", "open"}
  /\ got' = [got EXCEPT ![conns[pub[e].i]][e] = @ + 1]
  /\ pub' = [pub EXCEPT ![e].at = "sends"]
  /\ UNCHANGED <<conns, client, audience, disturbed, overtaken>>

\* By now another client may be at the next place.
SendReturns(e) ==
  /\ pub[e].at = "sends"
  /\ pub' = [pub EXCEPT ![e].at = "next", ![e].i = @ + 1]
  /\ UNCHANGED <<conns, client, got, audience, disturbed, overtaken>>

Broken(e) ==
  /\ pub[e].at = "next" /\ pub[e].i <= Len(conns)
  /\ client[conns[pub[e].i]] = "breaks"

\* Variant: a dead connection is removed as soon as it is found.
SendFailsAtOnce(e) ==
  /\ Broken(e)
  /\ conns' = Without({conns[pub[e].i]})
  /\ pub' = [pub EXCEPT ![e].i = @ + 1]
  /\ UNCHANGED <<client, got, audience, disturbed, overtaken>>

SendFails(e) ==
  /\ Broken(e)
  /\ pub' = [pub EXCEPT ![e].dead = @ \cup {conns[pub[e].i]}, ![e].i = @ + 1]
  /\ UNCHANGED <<conns, client, got, audience, disturbed, overtaken>>

\* The dead connections are removed after the last send.
Sweep(e) ==
  /\ pub[e].at = "next" /\ pub[e].i > Len(conns)
  /\ pub' = [pub EXCEPT ![e] = [at |-> "done", i |-> 1, dead |-> {}]]
  /\ conns' = Without(pub[e].dead)
  /\ disturbed' = IF conns' = conns THEN disturbed ELSE disturbed \cup (Publishing \ {e})
  /\ UNCHANGED <<client, got, audience, overtaken>>

HubNext ==
  \/ \E c \in Client : Connect(c) \/ Accepted(c) \/ Greeted(c) \/ Break(c) \/ Disconnect(c)
  \/ \E e \in Event : Publish(e) \/ SendNext(e) \/ SendReturns(e) \/ SendFails(e) \/ Sweep(e)

HubSpec == HubInit /\ [][HubNext]_hubVars

-----------------------------------------------------------------------------
\* A client that was connected when an event was published and is connected
\* still has received it, unless another connection was removed from the list
\* meanwhile, and no client receives an event twice; and there are no more
\* connections than the limit but for clients let in side by side.
HubServes ==
  /\ \A e \in Event : pub[e].at = "done" /\ e \notin disturbed =>
        \A c \in audience[e] : client[c] \in {"greeting", "open"} => got[c][e] = 1
  /\ \A c \in Client, e \in Event : got[c][e] <= 1
  /\ Len(conns) <= MaxConnections + Cardinality(overtaken)
=============================================================================
