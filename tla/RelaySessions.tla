---------------------------- MODULE RelaySessions ----------------------------
(***************************************************************************)
(* The session core of server.py: access codes (tokens.json), the agents   *)
(* that hold a session on a code, the browsers paired with them or waiting *)
(* for them, and the background tasks that end sessions.                   *)
(*                                                                         *)
(* The server is one process of cooperative green threads.  A handler      *)
(* never sleeps, so a handler is one action.  A background task gives way  *)
(* only in its sleeps, so each stretch between two sleeps is one action.   *)
(*                                                                         *)
(* Each socket has a session id of its own and the server drops the events *)
(* of ids it no longer knows.  Agent and Browser are pools of such ids: an *)
(* id is used for a new connection only when nothing in the server refers  *)
(* to it any more, which makes it indistinguishable from a fresh one.      *)
(***************************************************************************)
EXTENDS Naturals

CONSTANTS
  Agent,      \* session ids of agent sockets
  Browser,    \* session ids of browser sockets
  Code,       \* access codes in tokens.json
  Unlimited,  \* codes created with unlimited_uses
  MaxUses,    \* max_uses of the other codes
  NoCode,     \* "no entry" for maps that yield a code
  NoAgent     \* "no entry" for maps that yield an agent

ASSUME CodeAssumption ==
  /\ Unlimited \subseteq Code
  /\ MaxUses \in [Code -> Nat \ {0}]
  /\ NoCode \notin Code

ASSUME SidAssumption ==
  /\ Agent \cap Browser = {}
  /\ NoAgent \notin Agent

VARIABLES
  \* tokens.json: survives a restart of the server
  used,               \* codes that are used up or revoked
  in_use,             \* codes some session has locked
  use_count,          \* code -> finished sessions
  \* the calendar
  expired,            \* codes whose expiry date has passed
  \* the sockets
  online,             \* ids with an open socket
  \* the server's memory
  agent_tokens,       \* _agent_tokens: agent -> code of its session
  agent_allow_multi,  \* _agent_allow_multi: agents that accept many browsers
  agent_browser,      \* _agent_browser: agent -> browsers paired with it
  browser_agent,      \* _browser_agent: browser -> the agent it is paired with
  pending_browser,    \* _pending_browser: code -> browsers waiting for an agent
  \* the background tasks asleep in the server
  session_timer,      \* agent -> code that its _session_timer will burn
  closing             \* ids a _delayed_disconnect will close

token_file == <<used, in_use, use_count>>
sessions   == <<agent_tokens, agent_allow_multi>>
pairs      == <<agent_browser, browser_agent>>
vars       == <<token_file, expired, online, sessions, pairs,
                pending_browser, session_timer, closing>>

TypeOK ==
  /\ used \subseteq Code
  /\ in_use \subseteq Code
  /\ use_count \in [Code -> Nat]
  /\ expired \subseteq Code
  /\ online \subseteq Agent \cup Browser
  /\ agent_tokens \in [Agent -> Code \cup {NoCode}]
  /\ agent_allow_multi \subseteq Agent
  /\ agent_browser \in [Agent -> SUBSET Browser]
  /\ browser_agent \in [Browser -> Agent \cup {NoAgent}]
  /\ pending_browser \in [Code -> SUBSET Browser]
  /\ session_timer \in [Agent -> Code \cup {NoCode}]
  /\ closing \subseteq Agent

-----------------------------------------------------------------------------
\* State functions.

\* The agents in _agents, which is written and deleted together with
\* _agent_tokens and never apart from it.
Live(a) == agent_tokens[a] # NoCode

ActiveCodes == {agent_tokens[a] : a \in {x \in Agent : Live(x)}}

Exhausted(c) == c \notin Unlimited /\ use_count[c] >= MaxUses[c]

\* Nothing in the server refers to id a (b): a new connection may bear it.
UnknownAgent(a) ==
  /\ a \notin online \cup closing
  /\ ~Live(a)
  /\ session_timer[a] = NoCode
  /\ agent_browser[a] = {}
  /\ \A b \in Browser : browser_agent[b] # a

UnknownBrowser(b) ==
  /\ b \notin online
  /\ browser_agent[b] = NoAgent
  /\ \A a \in Agent : b \notin agent_browser[a]
  /\ \A c \in Code : b \notin pending_browser[c]

\* The agent is connected and has not said hello.  Both agents say it once in a
\* connection, when it comes up (on_connect, woorinet_remote_diag_agent.py:204;
\* go_agent/agent.go:27), so that no second hello follows on the same socket, nor
\* in the half second after a rejection or a kick; the server would not refuse it.
Greeting(a) == a \in online \ closing /\ ~Live(a)

Init ==
  /\ used = {}
  /\ in_use = {}
  /\ use_count = [c \in Code |-> 0]
  /\ expired = {}
  /\ online = {}
  /\ agent_tokens = [a \in Agent |-> NoCode]
  /\ agent_allow_multi = {}
  /\ agent_browser = [a \in Agent |-> {}]
  /\ browser_agent = [b \in Browser |-> NoAgent]
  /\ pending_browser = [c \in Code |-> {}]
  /\ session_timer = [a \in Agent |-> NoCode]
  /\ closing = {}

-----------------------------------------------------------------------------
\* Steps shared by the handlers.

\* Each definition named Wrong... is a plausible slip in the definition after
\* it.  The specification does not use it: a property that TLC still finds true
\* when it takes the place of the real one would say nothing about the code.

\* The limit is compared before the use is counted.
WrongBurnToken(c) ==
  \/ /\ c \in in_use \ used
     /\ in_use' = in_use \ {c}
     /\ \/ c \in Unlimited /\ UNCHANGED <<used, use_count>>
        \/ /\ c \notin Unlimited
           /\ use_count' = [use_count EXCEPT ![c] = @ + 1]
           /\ used' = IF use_count[c] >= MaxUses[c] THEN used \cup {c} ELSE used
  \/ c \notin in_use \ used /\ UNCHANGED token_file

\* Every call counts a use, whether or not the code is locked.
CountingBurnToken(c) ==
  \/ /\ c \notin used
     /\ in_use' = in_use \ {c}
     /\ \/ c \in Unlimited /\ UNCHANGED <<used, use_count>>
        \/ /\ c \notin Unlimited
           /\ use_count' = [use_count EXCEPT ![c] = @ + 1]
           /\ used' = IF use_count'[c] >= MaxUses[c] THEN used \cup {c} ELSE used
  \/ c \in used /\ UNCHANGED token_file

\* _burn_token: the end of a session unlocks the code and counts the use.  A
\* code that is not locked, or is used up, is left as it is.
BurnToken(c) ==
  \/ /\ c \in in_use \ used
     /\ in_use' = in_use \ {c}
     /\ \/ c \in Unlimited /\ UNCHANGED <<used, use_count>>
        \/ /\ c \notin Unlimited
           /\ use_count' = [use_count EXCEPT ![c] = @ + 1]
           /\ used' = IF use_count'[c] >= MaxUses[c] THEN used \cup {c} ELSE used
  \/ c \notin in_use \ used /\ UNCHANGED token_file

\* _pair for every browser of S.
Pair(S, a) ==
  /\ browser_agent' = [b \in Browser |-> IF b \in S THEN a ELSE browser_agent[b]]
  /\ agent_browser' = [agent_browser EXCEPT ![a] = @ \cup S]

\* The browsers keep naming the agent that left.
WrongUnpairAgent(a) ==
  /\ agent_browser' = [agent_browser EXCEPT ![a] = {}]
  /\ agent_allow_multi' = agent_allow_multi \ {a}
  /\ UNCHANGED browser_agent

\* _unpair_agent: forgets the agent and the pairing of every browser in its set.
UnpairAgent(a) ==
  /\ agent_browser' = [agent_browser EXCEPT ![a] = {}]
  /\ browser_agent' = [b \in Browser |->
       IF b \in agent_browser[a] THEN NoAgent ELSE browser_agent[b]]
  /\ agent_allow_multi' = agent_allow_multi \ {a}

\* _unpair_browser: removes the browser from the set of the agent it names.
UnpairBrowser(b) ==
  /\ browser_agent' = [browser_agent EXCEPT ![b] = NoAgent]
  /\ agent_browser' = [a \in Agent |->
       IF a = browser_agent[b] THEN agent_browser[a] \ {b} ELSE agent_browser[a]]

\* Every waiting browser is paired, whatever the agent's mode.
WrongAdmitWaiting(a, c, allow_multi) ==
  /\ Pair(pending_browser[c], a)
  /\ pending_browser' = [pending_browser EXCEPT ![c] = {}]

\* The browsers that were not paired go on waiting.
LeavingAdmitWaiting(a, c, allow_multi) ==
  \E S \in SUBSET pending_browser[c] :
    /\ Pair(S, a)
    /\ S = pending_browser[c] \/ (~allow_multi /\ \E b \in S : S = {b})
    /\ pending_browser' = [pending_browser EXCEPT ![c] = @ \ S]

\* The end of agent_hello: all browsers that wait on the code are paired, or,
\* without allow_multi, one of them, the others being turned down.
AdmitWaiting(a, c, allow_multi) ==
  /\ \/ (allow_multi \/ pending_browser[c] = {}) /\ Pair(pending_browser[c], a)
     \/ ~allow_multi /\ \E b \in pending_browser[c] : Pair({b}, a)
  /\ pending_browser' = [pending_browser EXCEPT ![c] = {}]

\* on_disconnect for an agent's socket.
DropAgent(a) ==
  /\ online' = online \ {a}
  /\ \/ /\ Live(a)
        /\ BurnToken(agent_tokens[a])
        /\ agent_tokens' = [agent_tokens EXCEPT ![a] = NoCode]
        /\ UnpairAgent(a)
     \/ /\ ~Live(a)
        /\ UNCHANGED <<token_file, sessions, pairs>>

-----------------------------------------------------------------------------
\* Agents.

AgentConnect(a) ==
  /\ UnknownAgent(a)
  /\ online' = online \cup {a}
  /\ UNCHANGED <<token_file, expired, sessions, pairs, pending_browser,
                 session_timer, closing>>

\* agent_hello from a blocked address, or with no code or an unknown code.
AgentHelloUnknown(a) ==
  /\ Greeting(a)
  /\ closing' = closing \cup {a}
  /\ UNCHANGED <<token_file, expired, online, sessions, pairs,
                 pending_browser, session_timer>>

\* The checks of agent_hello that turn a known code down.  A count at its limit
\* is also recorded as used; a lock without an agent is released before the
\* expiry date is looked at.
AgentHelloRejected(a, c) ==
  /\ Greeting(a)
  /\ \/ c \in used \cup expired
     \/ Exhausted(c)
     \/ c \in in_use \cap ActiveCodes
  /\ used' = IF Exhausted(c) THEN used \cup {c} ELSE used
  /\ in_use' = IF c \in used \cup ActiveCodes \/ Exhausted(c)
               THEN in_use ELSE in_use \ {c}
  /\ closing' = closing \cup {a}
  /\ UNCHANGED <<use_count, expired, online, sessions, pairs,
                 pending_browser, session_timer>>

\* agent_hello that starts a session: it locks the code, starts the session
\* timer and pairs the browsers that wait on the code.
AgentHelloAccepted(a, c, allow_multi) ==
  /\ Greeting(a)
  /\ c \notin used \cup expired
  /\ ~Exhausted(c)
  /\ c \in in_use => c \notin ActiveCodes
  /\ in_use' = in_use \cup {c}
  /\ agent_tokens' = [agent_tokens EXCEPT ![a] = c]
  /\ agent_allow_multi' = IF allow_multi THEN agent_allow_multi \cup {a}
                          ELSE agent_allow_multi \ {a}
  /\ session_timer' = [session_timer EXCEPT ![a] = c]
  /\ AdmitWaiting(a, c, allow_multi)
  /\ UNCHANGED <<used, use_count, expired, online, closing>>

\* The agent quits, or its link breaks.
AgentDisconnect(a) ==
  /\ a \in online
  /\ DropAgent(a)
  /\ UNCHANGED <<expired, pending_browser, session_timer, closing>>

\* _delayed_disconnect after its half second; also the end of _session_timer.
\* The socket may have gone in the meantime.
DelayedDisconnect(a) ==
  /\ a \in closing
  /\ closing' = closing \ {a}
  /\ \/ a \in online /\ DropAgent(a)
     \/ a \notin online /\ UNCHANGED <<token_file, online, sessions, pairs>>
  /\ UNCHANGED <<expired, pending_browser, session_timer>>

\* A timer that finds its code burned already takes the session for ended.
WrongSessionTimer(a) ==
  /\ session_timer[a] # NoCode
  /\ BurnToken(session_timer[a])
  /\ session_timer' = [session_timer EXCEPT ![a] = NoCode]
  /\ closing' = IF Live(a) /\ session_timer[a] \in in_use
                THEN closing \cup {a} ELSE closing
  /\ UNCHANGED <<expired, online, sessions, pairs, pending_browser>>

\* _session_timer wakes: it burns its code, and closes its agent if that agent
\* is still there.  Nothing cancels it when the session ends earlier.
SessionTimer(a) ==
  /\ session_timer[a] # NoCode
  /\ BurnToken(session_timer[a])
  /\ session_timer' = [session_timer EXCEPT ![a] = NoCode]
  /\ closing' = IF Live(a) THEN closing \cup {a} ELSE closing
  /\ UNCHANGED <<expired, online, sessions, pairs, pending_browser>>

-----------------------------------------------------------------------------
\* Browsers.

\* connect and browser_hello, which a browser sends first on every connection.
BrowserConnect(b) ==
  /\ UnknownBrowser(b)
  /\ online' = online \cup {b}
  /\ UNCHANGED <<token_file, expired, sessions, pairs, pending_browser,
                 session_timer, closing>>

\* The checks of browser_pair before it looks for an agent.  A request that
\* fails one of them changes nothing here.
MayPair(b, c) ==
  /\ b \in online
  /\ browser_agent[b] = NoAgent
  /\ c \notin used \cup expired

\* browser_pair with no agent on the code: the browser waits.
BrowserWait(b, c) ==
  /\ MayPair(b, c)
  /\ c \notin ActiveCodes
  /\ pending_browser' = [pending_browser EXCEPT ![c] = @ \cup {b}]
  /\ UNCHANGED <<token_file, expired, online, sessions, pairs,
                 session_timer, closing>>

\* browser_pair with an agent on the code that still takes a browser.
BrowserPair(b, c, a) ==
  /\ MayPair(b, c)
  /\ agent_tokens[a] = c
  /\ a \in agent_allow_multi \/ agent_browser[a] = {}
  /\ Pair({b}, a)
  /\ UNCHANGED <<token_file, expired, online, sessions, pending_browser,
                 session_timer, closing>>

\* on_disconnect for a browser's socket.
BrowserDisconnect(b) ==
  /\ b \in online
  /\ online' = online \ {b}
  /\ pending_browser' = [c \in Code |-> pending_browser[c] \ {b}]
  /\ UnpairBrowser(b)
  /\ UNCHANGED <<token_file, expired, sessions, session_timer, closing>>

-----------------------------------------------------------------------------
\* The administrator, the housekeeping task, the calendar and the process.

\* POST /api/admin/kick: the code is burned at once, the socket closes later.
AdminKick(a) ==
  /\ Live(a)
  /\ BurnToken(agent_tokens[a])
  /\ closing' = closing \cup {a}
  /\ UNCHANGED <<expired, online, sessions, pairs, pending_browser, session_timer>>

\* manage_tokens.py, menu_revoke, with no server step between its load and save.
AdminRevoke(c) ==
  /\ c \notin used
  /\ used' = used \cup {c}
  /\ UNCHANGED <<in_use, use_count, expired, online, sessions, pairs,
                 pending_browser, session_timer, closing>>

\* manage_tokens.py, menu_unlock for one code, likewise.
AdminUnlock(c) ==
  /\ c \in in_use
  /\ in_use' = in_use \ {c}
  /\ UNCHANGED <<used, use_count, expired, online, sessions, pairs,
                 pending_browser, session_timer, closing>>

\* The housekeeping passes over codes that are marked used.
WrongCleanupOrphanedTokens ==
  /\ in_use \ (ActiveCodes \cup used) # {}
  /\ in_use' = in_use \cap (ActiveCodes \cup used)
  /\ UNCHANGED <<used, use_count, expired, online, sessions, pairs,
                 pending_browser, session_timer, closing>>

\* One round of _cleanup_orphaned_tokens that finds something.
CleanupOrphanedTokens ==
  /\ in_use \ ActiveCodes # {}
  /\ in_use' = in_use \cap ActiveCodes
  /\ UNCHANGED <<used, use_count, expired, online, sessions, pairs,
                 pending_browser, session_timer, closing>>

\* The expiry date of a code passes.
ExpiryPasses(c) ==
  /\ c \notin expired
  /\ expired' = expired \cup {c}
  /\ UNCHANGED <<token_file, online, sessions, pairs, pending_browser,
                 session_timer, closing>>

\* The process dies and comes up again: memory, tasks and sockets are gone and
\* _reset_in_use_on_start unlocks every code without counting a use.
ServerRestart ==
  /\ in_use' = {}
  /\ online' = {}
  /\ agent_tokens' = [a \in Agent |-> NoCode]
  /\ agent_allow_multi' = {}
  /\ agent_browser' = [a \in Agent |-> {}]
  /\ browser_agent' = [b \in Browser |-> NoAgent]
  /\ pending_browser' = [c \in Code |-> {}]
  /\ session_timer' = [a \in Agent |-> NoCode]
  /\ closing' = {}
  /\ UNCHANGED <<used, use_count, expired>>

-----------------------------------------------------------------------------
AgentStep(a) ==
  \/ AgentConnect(a)
  \/ AgentHelloUnknown(a)
  \/ \E c \in Code : AgentHelloRejected(a, c)
  \/ \E c \in Code, multi \in BOOLEAN : AgentHelloAccepted(a, c, multi)
  \/ AgentDisconnect(a)
  \/ DelayedDisconnect(a)
  \/ SessionTimer(a)
  \/ AdminKick(a)

BrowserStep(b) ==
  \/ BrowserConnect(b)
  \/ \E c \in Code : BrowserWait(b, c)
  \/ \E c \in Code, a \in Agent : BrowserPair(b, c, a)
  \/ BrowserDisconnect(b)

CodeStep(c) ==
  \/ AdminRevoke(c)
  \/ AdminUnlock(c)
  \/ ExpiryPasses(c)

Next ==
  \/ \E a \in Agent : AgentStep(a)
  \/ \E b \in Browser : BrowserStep(b)
  \/ \E c \in Code : CodeStep(c)
  \/ CleanupOrphanedTokens
  \/ ServerRestart

\* A sleeping green thread is woken in the end: session timers, delayed
\* disconnects and the housekeeping loop run.  Nothing is assumed of agents,
\* browsers, the administrator or the process.
Fairness ==
  /\ \A a \in Agent : WF_vars(SessionTimer(a)) /\ WF_vars(DelayedDisconnect(a))
  /\ WF_vars(CleanupOrphanedTokens)

Spec == Init /\ [][Next]_vars

FairSpec == Spec /\ Fairness

-----------------------------------------------------------------------------
\* Safety.

\* A code with a use limit is never burned more often than max_uses, whichever
\* of disconnect, timer and kick does the burning and however often a restart
\* or an unlock sets a session aside; and a code that has reached its limit is
\* marked used in the same step (_burn_token, 215-251).
UseLimitKept ==
  \A c \in Code \ Unlimited :
    /\ use_count[c] <= MaxUses[c]
    /\ use_count[c] = MaxUses[c] => c \in used

\* No immortal session: as long as an agent holds a session, a task that will
\* end it exists (the session timer started by agent_hello, or the pending
\* disconnect that replaced it).
SessionHasEnd ==
  \A a \in Agent : Live(a) => session_timer[a] = agent_tokens[a] \/ a \in closing

\* The server's tables agree with each other and with the sockets: an agent with
\* a session is connected, and one without has left nothing in the pairing and
\* mode tables, whichever way its socket was closed (on_disconnect, 509-524).
TablesAgree ==
  \A a \in Agent :
    /\ Live(a) => a \in online
    /\ ~Live(a) => agent_browser[a] = {} /\ a \notin agent_allow_multi

\* The agent a browser's commands go to (on_command, 822) is connected, holds a
\* session, and has that browser among those it streams its lines to (1004).
RouteIsAlive ==
  \A b \in Browser : browser_agent[b] # NoAgent =>
    /\ Live(browser_agent[b])
    /\ browser_agent[b] \in online
    /\ b \in agent_browser[browser_agent[b]]

\* The routes between browsers and agents are sound: nothing is left of an agent
\* that has gone, and every paired browser's commands reach its agent.
RoutesAreSound == TablesAgree /\ RouteIsAlive

\* An agent in single mode never has two browsers, whether they paired by hand
\* or were waiting when it came.
SingleMode ==
  \A a \in Agent \ agent_allow_multi :
    \A b1, b2 \in agent_browser[a] : b1 = b2

\* No browser is left waiting on a code whose agent is there: whichever of the
\* two arrives second makes the pairing.
NoMissedWaiter ==
  \A a \in Agent : Live(a) => pending_browser[agent_tokens[a]] = {}

\* A browser that has gone is in no waiting set, so an agent that comes later
\* is not paired with a closed socket.
WaitersAreOnline ==
  \A c \in Code : pending_browser[c] \subseteq online

\* Waiting is sound: only connected browsers wait, and only for an agent that
\* has not come (browser_hello, agent_hello and on_disconnect together).
WaitingIsSound == NoMissedWaiter /\ WaitersAreOnline

-----------------------------------------------------------------------------
\* Liveness, under Fairness.

\* Every session ends: the server forces it out even if the agent never leaves.
SessionsEnd == \A a \in Agent : Live(a) ~> ~Live(a)

\* A lock left behind by a session that could not be burned (its code was
\* revoked while in use) does not stay: the lock goes or an agent takes it over.
OrphanLocksCleared ==
  \A c \in Code : (c \in in_use \ ActiveCodes) ~> (c \notin in_use \ ActiveCodes)

-----------------------------------------------------------------------------
\* Refinement.

\* tokens.json as the leases of CodeLease: used hides in_use.
LeaseOf(c) ==
  CASE c \in used -> "spent"
    [] c \in in_use \ used -> "leased"
    [] OTHER -> "free"

Lease == INSTANCE CodeLease
           WITH lease <- [c \in Code |-> LeaseOf(c)], uses <- use_count

\* The server keeps the promise of CodeLease: of the disconnect, the session
\* timer, the kick and the housekeeping that may all end the same session, one
\* counts it and the others leave the code alone; no code comes back from spent.
KeepsLeases == Lease!Spec

-----------------------------------------------------------------------------
\* What the comments of the code say and the code does not keep.

\* "Concurrent use is blocked: another agent is connected with this token now"
\* (server.py:613): at most one agent holds a session on a code.
OneAgentPerCode ==
  \A a1, a2 \in Agent :
    Live(a1) /\ agent_tokens[a1] = agent_tokens[a2] => a1 = a2

\* "Already burned (guard against the double call by disconnect and timer)"
\* (server.py:225): the timer of a session that a disconnect has already
\* burned leaves tokens.json alone.
NoDoubleBurn ==
  [][\A a \in Agent : SessionTimer(a) /\ ~Live(a) => UNCHANGED token_file]_vars

\* "browser <-> agent 1:N pairing" (server.py:36 and 141): a browser is in the
\* set of one agent at most.
BrowserHasOneAgent ==
  \A b \in Browser, a1, a2 \in Agent :
    b \in agent_browser[a1] \cap agent_browser[a2] => a1 = a2
=============================================================================
