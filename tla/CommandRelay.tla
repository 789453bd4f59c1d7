----------------------------- MODULE CommandRelay -----------------------------
(***************************************************************************)
(* Commands and their results between browser pages (app.js), the server's *)
(* relay (server.py) and one agent, together with what a page shows of the *)
(* agent: whether it is connected, and the overlay that asks for a code.   *)
(*                                                                         *)
(* A page survives its sockets: Socket.IO connects again by itself, under  *)
(* a new id, and keeps what was sent meanwhile.  The server learns of a    *)
(* dead socket later and until then takes it for a browser.  There is one  *)
(* code and one agent at a time; both directions of a socket are queues.   *)
(***************************************************************************)
EXTENDS Naturals, Sequences, FiniteSets

CONSTANTS
  Page,         \* browser pages
  Sid,          \* socket ids of browsers; one is free again when nothing bears it
  NoSid,        \* a page without a socket
  Nobody,       \* who asked for a command that its page has given up
  MaxCommands,  \* commands a page issues between two loads: the bound of _cmdSeq
  MaxWork,      \* commands an agent carries out at a time
  MaxAsked,     \* requests under way from a page
  MaxLag,       \* messages under way to a page when more are caused
  MaxPopups     \* timers of a page's overlay that run at a time

ASSUME RelayAssumption ==
  /\ NoSid \notin Sid
  /\ Nobody \notin Page
  /\ MaxCommands \in Nat
  /\ MaxWork \in Nat
  /\ MaxAsked \in Nat
  /\ MaxLag \in Nat
  /\ MaxPopups \in Nat

VARIABLES
  \* server
  agent,           \* _agents: "off", "on", or "kicked" and still connected
  allow_multi,     \* _agent_allow_multi of the agent
  browser_agent,   \* sockets that are paired with the agent
  pending_browser, \* sockets that wait for the agent
  browser_auth,    \* sockets that have said hello; a dead one's entry is not followed
  \* agent
  work,            \* commands it carries out
  \* pages
  sid,             \* page -> its socket
  outbox,          \* page -> what its socket has yet to bring to the server
  inbox,           \* page -> what the server sent it and it has not handled
  agentConnected,  \* pages that show the agent as connected
  overlay,         \* pages that show the overlay
  step2,           \* pages whose overlay says "waiting for the agent"
  popup,           \* page -> its timers that will announce an agent's end
  cmdSeq,          \* page -> its last command's number
  pending,         \* page -> commands without an answer
  lost             \* history: pages whose wait, if they wait, may be in vain

server == <<agent, allow_multi, browser_agent, pending_browser, browser_auth>>
shows  == <<agentConnected, overlay, step2, popup>>
asks   == <<cmdSeq, pending>>
vars   == <<server, work, sid, outbox, inbox, shows, asks, lost>>

Id == 1..MaxCommands

\* id and browser_sid travel with a command and its result; asker is history:
\* the page that waits for the result.
Work == [sid : Sid, id : Id, asker : Page \cup {Nobody}]

Request == [type : {"hello", "pair"}]
             \cup [type : {"command"}, id : Id, asker : Page \cup {Nobody}]

Message == [type : {"agent_status"}, connected : BOOLEAN]
             \cup [type : {"pair_result"}, result : {"waiting", "connected", "refused"}]
             \cup [type : {"result"}, id : Id, asker : Page \cup {Nobody}]

TypeOK ==
  /\ agent \in {"off", "on", "kicked"}
  /\ allow_multi \in BOOLEAN
  /\ browser_agent \subseteq Sid
  /\ pending_browser \subseteq Sid
  /\ browser_auth \subseteq Sid
  /\ work \subseteq Work
  /\ sid \in [Page -> Sid \cup {NoSid}]
  /\ outbox \in [Page -> Seq(Request)]
  /\ inbox \in [Page -> Seq(Message)]
  /\ agentConnected \subseteq Page
  /\ overlay \subseteq Page
  /\ step2 \subseteq Page
  /\ popup \in [Page -> 0..MaxPopups]
  /\ cmdSeq \in [Page -> 0..MaxCommands]
  /\ pending \in [Page -> SUBSET Id]
  /\ lost \subseteq Page

Init ==
  /\ agent = "off"
  /\ allow_multi = FALSE
  /\ browser_agent = {}
  /\ pending_browser = {}
  /\ browser_auth = {}
  /\ work = {}
  /\ sid = [p \in Page |-> NoSid]
  /\ outbox = [p \in Page |-> <<>>]
  /\ inbox = [p \in Page |-> <<>>]
  /\ agentConnected = {}
  /\ overlay = Page
  /\ step2 = {}
  /\ popup = [p \in Page |-> 0]
  /\ cmdSeq = [p \in Page |-> 0]
  /\ pending = [p \in Page |-> {}]
  /\ lost = {}

-----------------------------------------------------------------------------
\* Each definition named Wrong... is a plausible slip in the one after it; the
\* specification does not use it.

Status(on) == [type |-> "agent_status", connected |-> on]

PairResult(r) == [type |-> "pair_result", result |-> r]

Result(c) == [type |-> "result", id |-> c.id, asker |-> c.asker]

\* emit(..., room=s) for several sockets: what goes to one that no page has is
\* gone.
Emit(messages) ==
  inbox' = [p \in Page |->
              IF sid[p] = NoSid THEN inbox[p] ELSE inbox[p] \o messages[sid[p]]]

To(receivers, ms) == [s \in Sid |-> IF s \in receivers THEN ms ELSE <<>>]

KeepsUp(p) == Len(inbox[p]) <= MaxLag

MayAsk(p) == KeepsUp(p) /\ Len(outbox[p]) < MaxAsked

-----------------------------------------------------------------------------
\* Agents.

\* Which of the waiting browsers an agent gets: in single mode, one of them.
Admissible(multi) ==
  IF multi \/ pending_browser = {} THEN {pending_browser}
  ELSE {{s} : s \in pending_browser}

\* agent_hello, accepted.  The browsers that are not admitted are told, and
\* forgotten.
AgentHello ==
  /\ agent = "off"
  /\ \A p \in Page : KeepsUp(p)
  /\ agent' = "on"
  /\ allow_multi' \in BOOLEAN
  /\ \E admitted \in Admissible(allow_multi') :
       LET turned_away == pending_browser \ admitted IN
       /\ browser_agent' = admitted
       /\ lost' = lost \cup {p \in Page : sid[p] \in turned_away}
       /\ Emit([s \in Sid |->
            To(admitted, <<Status(TRUE), PairResult("connected")>>)[s]
              \o To(turned_away, <<PairResult("refused")>>)[s]])
  /\ pending_browser' = {}
  /\ UNCHANGED <<browser_auth, work, sid, outbox, shows, asks>>

\* api_admin_kick, and _session_timer up to its second sleep.
AgentIsKicked ==
  /\ agent # "off"
  /\ \A p \in Page : KeepsUp(p)
  /\ agent' = "kicked"
  /\ Emit(To(browser_agent, <<Status(FALSE)>>))
  /\ UNCHANGED <<allow_multi, browser_agent, pending_browser, browser_auth, work,
                 sid, outbox, shows, asks, lost>>

\* on_disconnect of an agent.  What it was working on may go on: the threads of
\* the Python agent use its next connection.
AgentDisconnect ==
  /\ agent # "off"
  /\ agent' = "off"
  /\ browser_agent' = {}
  /\ Emit(To(browser_agent, <<Status(FALSE)>>))
  /\ allow_multi' = FALSE
  /\ UNCHANGED <<pending_browser, browser_auth, work, sid, outbox, shows, asks, lost>>

\* Every browser of the agent gets the result.
WrongAgentResult(c) ==
  /\ c \in work
  /\ work' = work \ {c}
  /\ Emit(To(browser_agent, <<Result(c)>>))
  /\ UNCHANGED <<server, sid, outbox, shows, asks, lost>>

\* A command's thread is done, and on_result passes the result on to the socket
\* that the command came from, whether or not the agent has said hello.  Threads
\* finish in any order.  Without a connection the result is lost, as it is when
\* the program has ended or, in Go, the connection the command came on.
AgentResult(c) ==
  /\ c \in work
  /\ work' = work \ {c}
  /\ \/ Emit(To({c.sid}, <<Result(c)>>))
     \/ agent = "off" /\ UNCHANGED inbox
  /\ UNCHANGED <<server, sid, outbox, shows, asks, lost>>

-----------------------------------------------------------------------------
\* The server takes what a page has sent.

Takes(p, type) ==
  /\ sid[p] # NoSid
  /\ outbox[p] # <<>>
  /\ Head(outbox[p]).type = type
  /\ outbox' = [outbox EXCEPT ![p] = Tail(@)]

\* A page that says hello is a new one and waits for nobody.
WrongBrowserHello(p) ==
  /\ Takes(p, "hello")
  /\ Emit(To({sid[p]}, <<Status(sid[p] \in browser_agent)>>))
  /\ browser_auth' = browser_auth \cup {sid[p]}
  /\ pending_browser' = pending_browser \ {sid[p]}
  /\ UNCHANGED <<agent, allow_multi, browser_agent, work, sid, shows, asks, lost>>

\* A page that says hello has not been paired yet.
ForgetfulBrowserHello(p) ==
  /\ Takes(p, "hello")
  /\ Emit(To({sid[p]}, <<Status(FALSE)>>))
  /\ browser_auth' = browser_auth \cup {sid[p]}
  /\ UNCHANGED <<agent, allow_multi, browser_agent, pending_browser, work, sid,
                 shows, asks, lost>>

\* The hello of a socket that has been paired already says so.
BrowserHello(p) ==
  /\ Takes(p, "hello")
  /\ Emit(To({sid[p]}, <<Status(sid[p] \in browser_agent)>>))
  /\ browser_auth' = browser_auth \cup {sid[p]}
  /\ UNCHANGED <<agent, allow_multi, browser_agent, pending_browser, work, sid,
                 shows, asks, lost>>

\* A refusal for the code: unknown, used, expired, or the address is blocked.
PairRefused(p) ==
  /\ Takes(p, "pair")
  /\ Emit(To({sid[p]}, <<PairResult("refused")>>))
  /\ UNCHANGED <<server, work, sid, shows, asks, lost>>

\* browser_pair on a usable code.  A request that was kept comes before the hello
\* of its socket: then the pairing is done, the handler fails over _browser_auth,
\* and nobody is told.
BrowserPair(p) ==
  LET refused == \/ sid[p] \in browser_agent
                 \/ agent # "off" /\ ~allow_multi /\ browser_agent # {}
      told == IF sid[p] \in browser_auth
              THEN <<PairResult("connected"), Status(TRUE)>> ELSE <<>>
  IN
  /\ Takes(p, "pair")
  /\ \/ /\ refused
        /\ Emit(To({sid[p]}, <<PairResult("refused")>>))
        /\ UNCHANGED <<browser_agent, pending_browser>>
     \/ /\ ~refused /\ agent = "off"
        /\ pending_browser' = pending_browser \cup {sid[p]}
        /\ Emit(To({sid[p]}, <<PairResult("waiting")>>))
        /\ UNCHANGED browser_agent
     \/ /\ ~refused /\ agent # "off"
        /\ browser_agent' = browser_agent \cup {sid[p]}
        /\ Emit(To({sid[p]}, told))
        /\ UNCHANGED pending_browser
  /\ UNCHANGED <<agent, allow_multi, browser_auth, work, sid, shows, asks, lost>>

\* The command goes on without the id of the socket it came from.
WrongOnCommand(p) ==
  /\ Takes(p, "command")
  /\ LET c == Head(outbox[p]) IN
     \/ /\ sid[p] \in browser_agent
        /\ Cardinality(work) < MaxWork
        /\ work' = work \cup {[id |-> c.id, asker |-> c.asker]}
        /\ UNCHANGED inbox
     \/ /\ sid[p] \notin browser_agent
        /\ Emit(To({sid[p]}, <<Result(c)>>))
        /\ UNCHANGED work
  /\ UNCHANGED <<server, sid, shows, asks, lost>>

\* on_command: to the page's agent, or back with an error if there is none.  No
\* command of a page is denied: its type is not where the denylist looks for it.
OnCommand(p) ==
  /\ Takes(p, "command")
  /\ LET c == Head(outbox[p]) IN
     \/ /\ sid[p] \in browser_agent
        /\ Cardinality(work) < MaxWork
        /\ work' = work \cup {[sid |-> sid[p], id |-> c.id, asker |-> c.asker]}
        /\ UNCHANGED inbox
     \/ /\ sid[p] \notin browser_agent
        /\ Emit(To({sid[p]}, <<Result(c)>>))
        /\ UNCHANGED work
  /\ UNCHANGED <<server, sid, shows, asks, lost>>

\* on_disconnect of a browser: the server has noticed that a socket is dead.
BrowserDisconnect(s) ==
  /\ \A p \in Page : sid[p] # s
  /\ s \in browser_agent \cup pending_browser
  /\ browser_agent' = browser_agent \ {s}
  /\ pending_browser' = pending_browser \ {s}
  /\ UNCHANGED <<agent, allow_multi, browser_auth, work, sid, outbox, inbox, shows,
                 asks, lost>>

-----------------------------------------------------------------------------
\* Pages.

\* Socket.IO connects: it sends what it has kept, and then the page's
\* 'connect' handler says hello.
PageConnects(p, s) ==
  /\ sid[p] = NoSid
  /\ s \notin browser_agent \cup pending_browser
  /\ \A q \in Page : sid[q] # s
  /\ \A c \in work : c.sid # s
  /\ sid' = [sid EXCEPT ![p] = s]
  /\ outbox' = [outbox EXCEPT ![p] = Append(@, [type |-> "hello"])]
  /\ UNCHANGED <<server, work, inbox, shows, asks, lost>>

\* The socket is gone, with all that was under way on it.
PageLosesSocket(p) ==
  /\ sid[p] # NoSid
  /\ sid' = [sid EXCEPT ![p] = NoSid]
  /\ outbox' = [outbox EXCEPT ![p] = <<>>]
  /\ inbox' = [inbox EXCEPT ![p] = <<>>]
  /\ lost' = lost \cup ({p} \cap step2)
  /\ browser_auth' = browser_auth \ {sid[p]}
  /\ UNCHANGED <<agent, allow_multi, browser_agent, pending_browser, work, shows, asks>>

\* The page will still hear that it waits, whatever came of that since.
Welcome(ms) == \E i \in DOMAIN ms : ms[i] = PairResult("waiting")

\* doTokenConnect.  Without a socket, the request is kept.
Connect(p) ==
  /\ p \in overlay \ step2
  /\ MayAsk(p)
  /\ outbox' = [outbox EXCEPT ![p] = Append(@, [type |-> "pair"])]
  /\ lost' = IF Welcome(inbox[p]) THEN lost ELSE lost \ {p}
  /\ UNCHANGED <<server, work, sid, inbox, shows, asks>>

\* sendCommand up to its wait.
SendCommand(p) ==
  /\ p \in agentConnected
  /\ cmdSeq[p] < MaxCommands
  /\ MayAsk(p)
  /\ LET id == cmdSeq[p] + 1 IN
     /\ cmdSeq' = [cmdSeq EXCEPT ![p] = id]
     /\ pending' = [pending EXCEPT ![p] = @ \cup {id}]
     /\ outbox' = [outbox EXCEPT ![p] =
                     Append(@, [type |-> "command", id |-> id, asker |-> p])]
  /\ UNCHANGED <<server, work, sid, inbox, shows, lost>>

\* Page p gives up its commands ids: whatever comes back for them, nobody
\* asked for.
Forgotten(p, ids, c) ==
  IF c.asker = p /\ c.id \in ids THEN [c EXCEPT !.asker = Nobody] ELSE c

ForgottenIn(p, ids, ms) ==
  [i \in DOMAIN ms |-> IF ms[i].type \in {"command", "result"}
                        THEN Forgotten(p, ids, ms[i]) ELSE ms[i]]

\* sendCommand's sixty seconds.
SixtySeconds(p, id) ==
  /\ id \in pending[p]
  /\ pending' = [pending EXCEPT ![p] = @ \ {id}]
  /\ work' = {Forgotten(p, {id}, c) : c \in work}
  /\ outbox' = [outbox EXCEPT ![p] = ForgottenIn(p, {id}, @)]
  /\ inbox' = [inbox EXCEPT ![p] = ForgottenIn(p, {id}, @)]
  /\ UNCHANGED <<server, sid, shows, cmdSeq, lost>>

Handles(p, type) ==
  /\ inbox[p] # <<>>
  /\ Head(inbox[p]).type = type
  /\ inbox' = [inbox EXCEPT ![p] = Tail(@)]

\* on 'agent_status'.  A page that showed no agent lets a "not connected" pass.
PageHearsStatus(p) ==
  /\ Handles(p, "agent_status")
  /\ IF Head(inbox[p]).connected
     THEN /\ agentConnected' = agentConnected \cup {p}
          /\ overlay' = overlay \ {p}
          /\ step2' = step2 \ {p}
          /\ lost' = IF Welcome(inbox[p]) THEN lost ELSE lost \ {p}
          /\ UNCHANGED popup
     ELSE /\ agentConnected' = agentConnected \ {p}
          /\ IF p \in agentConnected
             THEN popup[p] < MaxPopups /\ popup' = [popup EXCEPT ![p] = @ + 1]
             ELSE UNCHANGED popup
          /\ UNCHANGED <<overlay, step2, lost>>
  /\ UNCHANGED <<server, work, sid, outbox, asks>>

\* The tenth of a second later: an alert, and the overlay asks for a code.
ShowTokenOverlay(p) ==
  /\ popup[p] > 0
  /\ popup' = [popup EXCEPT ![p] = @ - 1]
  /\ overlay' = overlay \cup {p}
  /\ step2' = step2 \ {p}
  /\ UNCHANGED <<server, work, sid, outbox, inbox, agentConnected, asks, lost>>

\* on 'pair_result'.  The error of a refusal stands in step 1, which a page in
\* step 2 does not show.  An overlay that is hidden will be shown in step 1.
PageHearsPairResult(p) ==
  /\ Handles(p, "pair_result")
  /\ step2' = IF Head(inbox[p]).result = "refused" \/ p \notin overlay
              THEN step2 ELSE step2 \cup {p}
  /\ UNCHANGED <<server, work, sid, outbox, agentConnected, overlay, popup, asks,
                 lost>>

\* on 'result'.
PageHearsResult(p) ==
  /\ Handles(p, "result")
  /\ pending' = [pending EXCEPT ![p] = @ \ {Head(inbox[p]).id}]
  /\ UNCHANGED <<server, work, sid, outbox, shows, cmdSeq, lost>>

\* The user loads the page anew; only the server and the agent remember.
PageReloads(p) ==
  /\ sid' = [sid EXCEPT ![p] = NoSid]
  /\ outbox' = [outbox EXCEPT ![p] = <<>>]
  /\ inbox' = [inbox EXCEPT ![p] = <<>>]
  /\ agentConnected' = agentConnected \ {p}
  /\ overlay' = overlay \cup {p}
  /\ step2' = step2 \ {p}
  /\ popup' = [popup EXCEPT ![p] = 0]
  /\ cmdSeq' = [cmdSeq EXCEPT ![p] = 0]
  /\ pending' = [pending EXCEPT ![p] = {}]
  /\ work' = {Forgotten(p, Id, c) : c \in work}
  /\ lost' = lost \ {p}
  /\ browser_auth' = browser_auth \ {sid[p]}
  /\ UNCHANGED <<agent, allow_multi, browser_agent, pending_browser>>

\* doLogout, when api/logout has been answered, which it is however long after the
\* click: the overlay asks for a code, and the socket is replaced.  Commands go on
\* waiting; without a socket, what is kept is kept.
Logout(p) ==
  /\ sid' = [sid EXCEPT ![p] = NoSid]
  /\ outbox' = [outbox EXCEPT ![p] = IF sid[p] = NoSid THEN @ ELSE <<>>]
  /\ inbox' = [inbox EXCEPT ![p] = <<>>]
  /\ agentConnected' = agentConnected \ {p}
  /\ overlay' = overlay \cup {p}
  /\ step2' = step2 \ {p}
  /\ lost' = lost \ {p}
  /\ browser_auth' = browser_auth \ {sid[p]}
  /\ UNCHANGED <<agent, allow_multi, browser_agent, pending_browser, work, popup, asks>>

-----------------------------------------------------------------------------

Next ==
  \/ AgentHello \/ AgentIsKicked \/ AgentDisconnect
  \/ \E c \in work : AgentResult(c)
  \/ \E s \in Sid : BrowserDisconnect(s)
  \/ \E p \in Page :
       \/ BrowserHello(p) \/ PairRefused(p) \/ BrowserPair(p) \/ OnCommand(p)
       \/ \E s \in Sid : PageConnects(p, s)
       \/ PageLosesSocket(p) \/ PageReloads(p) \/ Logout(p)
       \/ Connect(p) \/ SendCommand(p) \/ \E id \in Id : SixtySeconds(p, id)
       \/ PageHearsStatus(p) \/ ShowTokenOverlay(p)
       \/ PageHearsPairResult(p) \/ PageHearsResult(p)

Spec == Init /\ [][Next]_vars

-----------------------------------------------------------------------------
\* A page counts a result as the answer to one of its commands by the number
\* alone, and every page counts from one, again after each load.  Still no page
\* is about to take the answer to another page's command, to one it gave up
\* after sixty seconds, or to one of an earlier load for the answer it waits for.
ResultsAreOwn ==
  \A p \in Page : \A i \in DOMAIN inbox[p] :
    LET m == inbox[p][i] IN
    m.type = "result" /\ m.id \in pending[p] => m.asker = p

\* Everything between p and the server has been handled.
Quiet(p) == sid[p] # NoSid /\ outbox[p] = <<>> /\ inbox[p] = <<>>

\* A page with nothing left to handle shows the agent as connected if and only
\* if the server has paired its present socket, whatever happened to agents,
\* sockets and loads before.  A kept request is paired and its handler fails
\* before it says so; then the hello that follows must.  A kicked agent is
\* reported gone half a second early.
StatusIsTrue ==
  agent # "kicked" =>
    \A p \in Page : Quiet(p) =>
      (p \in agentConnected <=> sid[p] \in browser_agent)

\* The page says it is waiting for the agent, and goes on doing so.
Waiting(p) == p \in (overlay \cap step2) \ agentConnected /\ popup[p] = 0

\* A page that says it is waiting for the agent is among those the agent's hello
\* will pair, with two exceptions that the page does not notice: its socket was
\* replaced since, or another browser was preferred in single mode.
WaitsAreKnown ==
  \A p \in Page : Quiet(p) /\ Waiting(p) => sid[p] \in pending_browser \/ p \in lost
=============================================================================
