------------------------------- MODULE LogUpload -------------------------------
(***************************************************************************)
(* Uploading logs: a page (app.js) asks the agent for its device's logs or *)
(* kernel messages, the agent answers at once and collects them in the     *)
(* background, posts them to the server over HTTP, and the server tells    *)
(* the page over its socket when the files are stored.                     *)
(*                                                                         *)
(* Three channels: the page's command with its answer (sendCommand, sixty  *)
(* seconds), the agent's POST, and the server's report.  What the server   *)
(* sends to a page arrives in order and later; what a page sends is part   *)
(* of the page's action.                                                   *)
(*                                                                         *)
(* The agent is in Go (go_agent/upload.go), or in Python, which does one   *)
(* upload of a kind at a time and silently skips the others (python).      *)
(* Its answer is on the wire before its background work ends: the work is  *)
(* a series of adb calls.                                                  *)
(***************************************************************************)
EXTENDS Naturals, Sequences, FiniteSets

CONSTANTS
  Page,        \* pages that pair with the agent
  MaxUploads,  \* kind -> uploads of it that a page asks for: bound
  MaxLag,      \* pages do not pair again with this many messages unread: bound
  Kind,        \* what the pages upload: "log", "kmsg"
  NoUpload     \* the message is not about an upload

ASSUME UploadAssumption ==
  /\ Kind \subseteq {"log", "kmsg"}
  /\ MaxUploads \in [Kind -> Nat]
  /\ MaxLag \in Nat \ {0}

\* An upload is known by who asked for it, for what, and for the how manieth time.
Upload == UNION {Page \X {k} \X (1 .. MaxUploads[k]) : k \in Kind}

PageOf(u) == u[1]
KindOf(u) == u[2]

ASSUME NoUploadAssumption == NoUpload \notin Upload

VARIABLES
  \* the session
  link,       \* the agent's socket is connected
  locked,     \* the code is in_use in tokens.json
  paired,     \* pages that the server has paired with the agent
  python,     \* the agent is the Python one: never changes
  \* the pages
  connected,  \* pages whose agentConnected is true
  busy,       \* page -> kinds whose upload button is disabled
  waiting,    \* uploads whose sendCommand is not resolved
  inbox,      \* page -> messages on their way to it
  reachable,  \* uploads whose browser_sid is still the page's
  \* the uploads
  stage,      \* how far the agent and the server are with it
  \* for the properties only
  spoiled     \* pages with an upload that did not go through

session == <<link, locked, paired, python>>
page    == <<connected, busy, waiting, inbox, reachable>>
vars    == <<session, page, stage, spoiled>>

\* new: not asked for; asked: on its way to the agent; gone: refused by the
\* server, lost on the way, skipped by the agent, or not accepted when posted;
\* over: stored, and the Python agent has read the answer to its post.
Stored == {"stored", "over"}
Stage  == {"new", "asked", "collecting", "posted", "gone"} \cup Stored

Message ==
  [msg : {"accepted", "refused", "report"}, upload : Upload]
    \cup [msg : {"up", "down"}, upload : {NoUpload}]

TypeOK ==
  /\ link \in BOOLEAN
  /\ locked \in BOOLEAN
  /\ paired \subseteq Page
  /\ python \in BOOLEAN
  /\ connected \subseteq Page
  /\ busy \in [Page -> SUBSET Kind]
  /\ waiting \subseteq Upload
  /\ inbox \in [Page -> Seq(Message)]
  /\ reachable \subseteq Upload
  /\ stage \in [Upload -> Stage]
  /\ spoiled \subseteq Page

Init ==
  /\ link = FALSE
  /\ locked = FALSE
  /\ paired = {}
  /\ python \in BOOLEAN
  /\ connected = {}
  /\ busy = [p \in Page |-> {}]
  /\ waiting = {}
  /\ inbox = [p \in Page |-> <<>>]
  /\ reachable = {}
  /\ stage = [u \in Upload |-> "new"]
  /\ spoiled = {}

-----------------------------------------------------------------------------
Note(m, u) == [msg |-> m, upload |-> u]

\* The server emits to the socket the command came from, if that still exists.
TellAsker(u, m) ==
  inbox' = IF u \in reachable
           THEN [inbox EXCEPT ![PageOf(u)] = Append(@, Note(m, u))]
           ELSE inbox

-----------------------------------------------------------------------------
\* The session, as far as uploads can see it.

\* The agent starts a session on the code, for the first time or again, seconds
\* after the last one ended: what it received then it has taken up by now, and
\* what it is still working on goes on.
AgentArrives ==
  /\ ~link
  /\ \A u \in Upload : stage[u] # "asked"
  /\ link' = TRUE
  /\ locked' = TRUE
  /\ UNCHANGED <<paired, python, page, stage, spoiled>>

\* A kick or the session timer burns the code before the socket is closed.
CodeIsBurned ==
  /\ locked
  /\ locked' = FALSE
  /\ UNCHANGED <<link, paired, python, page, stage, spoiled>>

\* The agent's socket closes: its pages are unpaired and told, and commands that
\* it has not received are lost.
AgentLeaves ==
  /\ link
  /\ link' = FALSE
  /\ locked' = FALSE
  /\ paired' = {}
  /\ inbox' = [p \in Page |->
       IF p \in paired THEN Append(inbox[p], Note("down", NoUpload)) ELSE inbox[p]]
  /\ \E lost \in SUBSET {u \in Upload : stage[u] = "asked"} :
     /\ stage' = [u \in Upload |-> IF u \in lost THEN "gone" ELSE stage[u]]
     /\ spoiled' = spoiled \cup {PageOf(u) : u \in lost}
  /\ UNCHANGED <<python, connected, busy, waiting, reachable>>

\* The page shows the field for the code only when it knows of no agent.
PagePairs(p) ==
  /\ link
  /\ p \notin paired \cup connected
  /\ Len(inbox[p]) < MaxLag
  /\ paired' = paired \cup {p}
  /\ inbox' = [inbox EXCEPT ![p] = Append(@, Note("up", NoUpload))]
  /\ UNCHANGED <<link, locked, python, connected, busy, waiting, reachable, stage, spoiled>>

\* The page's socket breaks and the library connects again, under a new id: what
\* was sent to the old one is lost, and browser_hello says there is no agent.
\* Nothing changes for a page that has none and waits for nothing.
PageReconnects(p) ==
  /\ p \in connected \/ inbox[p] # <<>> \/ busy[p] # {}
  /\ paired' = paired \ {p}
  /\ inbox' = [inbox EXCEPT ![p] = <<Note("down", NoUpload)>>]
  /\ reachable' = {u \in reachable : PageOf(u) # p}
  /\ spoiled' = IF busy[p] = {} THEN spoiled ELSE spoiled \cup {p}
  /\ UNCHANGED <<link, locked, python, connected, busy, waiting, stage>>

\* The user loads the page anew.
PageReloads(p) ==
  /\ busy[p] # {}
  /\ paired' = paired \ {p}
  /\ connected' = connected \ {p}
  /\ busy' = [busy EXCEPT ![p] = {}]
  /\ waiting' = {u \in waiting : PageOf(u) # p}
  /\ inbox' = [inbox EXCEPT ![p] = <<>>]
  /\ reachable' = {u \in reachable : PageOf(u) # p}
  /\ UNCHANGED <<link, locked, python, stage, spoiled>>

-----------------------------------------------------------------------------
\* The page.

\* uploadLogs and uploadKmsg up to their await: the button is disabled and the
\* command sent; on_command refuses it if the page is not paired.
AskForUpload(u) ==
  LET p == PageOf(u) IN
  /\ p \in connected
  /\ KindOf(u) \notin busy[p]
  /\ stage[u] = "new"
  /\ busy' = [busy EXCEPT ![p] = @ \cup {KindOf(u)}]
  /\ waiting' = waiting \cup {u}
  /\ reachable' = reachable \cup {u}
  /\ \/ /\ p \in paired
        /\ stage' = [stage EXCEPT ![u] = "asked"]
        /\ UNCHANGED <<inbox, spoiled>>
     \/ /\ p \notin paired
        /\ stage' = [stage EXCEPT ![u] = "gone"]
        /\ inbox' = [inbox EXCEPT ![p] = Append(@, Note("refused", u))]
        /\ spoiled' = spoiled \cup {p}
  /\ UNCHANGED <<session, connected>>

\* The command failed, at the server or by sendCommand's timeout: the page gives
\* the button back.  Nobody calls the agent off.
CommandFails(u) ==
  /\ waiting' = waiting \ {u}
  /\ busy' = [busy EXCEPT ![PageOf(u)] = @ \ {KindOf(u)}]
  /\ spoiled' = spoiled \cup {PageOf(u)}

SixtySeconds(u) ==
  /\ u \in waiting
  /\ CommandFails(u)
  /\ UNCHANGED <<session, connected, inbox, reachable, stage>>

\* Only the log button is ever given back.
WrongRestoredBy(p) == {"log"}

\* onLogUploadResult: the kmsg button if it is disabled, else the log button.
RestoredBy(p) == IF "kmsg" \in busy[p] THEN {"kmsg"} ELSE {"log"}

\* The next message reaches the page.
PageReceives(p) ==
  /\ inbox[p] # <<>>
  /\ inbox' = [inbox EXCEPT ![p] = Tail(@)]
  /\ LET m == Head(inbox[p]).msg
         u == Head(inbox[p]).upload
     IN
     \/ /\ m = "up"
        /\ connected' = connected \cup {p}
        /\ UNCHANGED <<busy, waiting, spoiled>>
     \/ /\ m = "down"
        /\ connected' = connected \ {p}
        /\ UNCHANGED <<busy, waiting, spoiled>>
     \/ /\ m = "refused" /\ u \in waiting
        /\ CommandFails(u)
        /\ UNCHANGED connected
     \/ /\ m = "refused" /\ u \notin waiting
        /\ UNCHANGED <<connected, busy, waiting, spoiled>>
     \/ /\ m = "accepted"
        /\ waiting' = waiting \ {u}
        /\ UNCHANGED <<connected, busy, spoiled>>
     \/ /\ m = "report"
        /\ busy' = [busy EXCEPT ![p] = @ \ RestoredBy(p)]
        /\ UNCHANGED <<connected, waiting, spoiled>>
  /\ UNCHANGED <<session, reachable, stage>>

-----------------------------------------------------------------------------
\* The agent and the server.

\* The Python agent is at work on another upload of this kind: it holds the kind's
\* lock until it has the answer to its post.  The page may know by then that the
\* files are stored, and ask again.
Occupied(u) ==
  python /\ \E other \in Upload :
    KindOf(other) = KindOf(u) /\ stage[other] \in {"collecting", "posted", "stored"}

\* The handler starts the background work and answers that it has started,
\* also when the work finds another in progress and gives up.  The answer is
\* lost if the socket has closed meanwhile.
AgentTakes(u) ==
  /\ stage[u] = "asked"
  /\ IF link THEN TellAsker(u, "accepted") ELSE UNCHANGED inbox
  /\ \/ /\ ~Occupied(u)
        /\ stage' = [stage EXCEPT ![u] = "collecting"]
        /\ UNCHANGED spoiled
     \/ /\ Occupied(u)
        /\ stage' = [stage EXCEPT ![u] = "gone"]
        /\ spoiled' = spoiled \cup {PageOf(u)}
  /\ UNCHANGED <<session, connected, busy, waiting, reachable>>

\* The post is repeated, for all the agent knows, after an answer that was lost.
RepeatedAgentPosts(u) ==
  /\ stage[u] \in {"collecting", "stored"}
  /\ stage' = [stage EXCEPT ![u] = "posted"]
  /\ UNCHANGED <<session, page, spoiled>>

\* doLogUpload and its kin have read what they can and post it.
AgentPosts(u) ==
  /\ stage[u] = "collecting"
  /\ stage' = [stage EXCEPT ![u] = "posted"]
  /\ UNCHANGED <<session, page, spoiled>>

\* The files are stored and nobody is told.
WrongServerStores(u) ==
  /\ stage[u] = "posted"
  /\ locked
  /\ stage' = [stage EXCEPT ![u] = "stored"]
  /\ UNCHANGED <<session, page, spoiled>>

\* api_log_upload for a code in use: the files are stored and the page told.
ServerStores(u) ==
  /\ stage[u] = "posted"
  /\ locked
  /\ stage' = [stage EXCEPT ![u] = "stored"]
  /\ TellAsker(u, "report")
  /\ UNCHANGED <<session, connected, busy, waiting, reachable, spoiled>>

\* The Python agent reads the answer and gives the kind's lock back.
AgentIsAnswered(u) ==
  /\ python
  /\ stage[u] = "stored"
  /\ stage' = [stage EXCEPT ![u] = "over"]
  /\ UNCHANGED <<session, page, spoiled>>

\* The code is not in use any more, or the request does not get through: the
\* agent prints a line.
PostFails(u) ==
  /\ stage[u] = "posted"
  /\ stage' = [stage EXCEPT ![u] = "gone"]
  /\ spoiled' = spoiled \cup {PageOf(u)}
  /\ UNCHANGED <<session, page>>

-----------------------------------------------------------------------------
UploadStep(u) ==
  \/ AskForUpload(u)
  \/ SixtySeconds(u)
  \/ AgentTakes(u)
  \/ AgentPosts(u)
  \/ ServerStores(u)
  \/ AgentIsAnswered(u)
  \/ PostFails(u)

PageStep(p) ==
  \/ PagePairs(p)
  \/ PageReconnects(p)
  \/ PageReloads(p)
  \/ PageReceives(p)

Next ==
  \/ AgentArrives
  \/ CodeIsBurned
  \/ AgentLeaves
  \/ \E p \in Page : PageStep(p)
  \/ \E u \in Upload : UploadStep(u)

Spec == Init /\ [][Next]_vars

\* Goroutines run, a POST is answered or times out, what the server sends to a
\* page arrives, sixty seconds pass.  Users and administrators may go any way.
FairSpec ==
  /\ Spec
  /\ \A p \in Page : WF_vars(PageReceives(p))
  /\ \A u \in Upload :
       /\ WF_vars(SixtySeconds(u))
       /\ WF_vars(AgentTakes(u))
       /\ WF_vars(AgentPosts(u))
       /\ WF_vars(ServerStores(u) \/ PostFails(u))
       /\ WF_vars(AgentIsAnswered(u))

-----------------------------------------------------------------------------
\* Properties.

\* Uploads whose report the page may still receive.
Open(p) ==
  {u \in reachable : /\ PageOf(u) = p
                     /\ \/ stage[u] \in {"asked", "collecting", "posted"}
                        \/ \E i \in DOMAIN inbox[p] : inbox[p][i] = Note("report", u)}

\* As long as every upload goes through, no button is disabled for nothing: a
\* page has at least as many uploads under way as buttons disabled, although a
\* report does not say whose button it is about and may give back the wrong one.
BusyIsCovered ==
  \A p \in Page \ spoiled : Cardinality(busy[p]) <= Cardinality(Open(p))

\* A page is told of an upload once at most, only when its files are stored, and
\* on the page that asked for it.
ReportsAreTrue ==
  \A p \in Page : \A i \in DOMAIN inbox[p] : inbox[p][i].msg = "report" =>
    LET u == inbox[p][i].upload IN
    /\ stage[u] \in Stored
    /\ PageOf(u) = p
    /\ \A j \in DOMAIN inbox[p] : inbox[p][j] = inbox[p][i] => i = j

\* If every upload goes through, the buttons all come back.
ButtonsComeBack ==
  \A p \in Page : busy[p] # {} ~> busy[p] = {} \/ p \in spoiled

-----------------------------------------------------------------------------
\* What the page says and the code does not keep.

\* "Upload failed" (app.js:750, 760), for which the page waits after "being
\* transferred to the server..." (728, 785): of an upload that does not go through
\* a page that keeps its socket is told, and gives the button back.
FailureIsTold ==
  \A u \in Upload :
    stage[u] = "gone" /\ u \in reachable ~>
      \/ KindOf(u) \notin busy[PageOf(u)]
      \/ u \notin reachable

\* "kmsg upload complete" (app.js:747) is shown for an upload of kmsg.
ReportNamesItsUpload ==
  [][\A p \in Page :
       /\ PageReceives(p)
       /\ Head(inbox[p]).msg = "report"
       /\ RestoredBy(p) = {"kmsg"}
       => KindOf(Head(inbox[p]).upload) = "kmsg"]_vars
=============================================================================
