---------------------------- MODULE MCCommandRelay ----------------------------
(***************************************************************************)
(* CommandRelay for TLC.  A run either has commands or asks for the agent  *)
(* alone; pages are interchangeable, and so are socket ids.                *)
(***************************************************************************)
EXTENDS CommandRelay, TLC

VARIABLE topic  \* what the run is about

\* Sockets that a page has, or that the server or the agent still knows.
Borne ==
  ({sid[p] : p \in Page} \ {NoSid}) \cup browser_agent \cup pending_browser
    \cup {c.sid : c \in work}

\* With commands: a socket for each page, and a request of a page at a time.
WithCommands ==
  \A p \in Page :
    /\ sid'[p] \in Borne \cup {NoSid} \/ Cardinality(Borne) < Cardinality(Page)
    /\ \/ Len(outbox'[p]) <= Len(outbox[p])
       \/ outbox[p] = <<>>
       \/ outbox'[p][Len(outbox'[p])].type = "hello"

TopicInit == Init /\ topic \in {"commands", "status"}

TopicNext ==
  /\ UNCHANGED topic
  /\ Next
  /\ \/ topic = "commands" /\ WithCommands
     \/ topic = "status" /\ UNCHANGED cmdSeq

TopicSpec == TopicInit /\ [][TopicNext]_<<topic, vars>>

Symmetry == Permutations(Page) \cup Permutations(Sid)
=============================================================================
