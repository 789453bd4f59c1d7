------------------------- MODULE RelaySessions_proofs -------------------------
(***************************************************************************)
(* Proofs that RelaySessions keeps its safety invariants for every number  *)
(* of agents, browsers and codes and every max_uses.                       *)
(*                                                                         *)
(* The invariants are proved together.  SessionHasEnd needs TablesAgree (a *)
(* delayed disconnect that finds no socket must not be the last task of a  *)
(* live session), SingleMode needs it too (an agent that says hello starts *)
(* with an empty set of browsers), and all of them need the types.         *)
(*                                                                         *)
(* The limit on failed attempts, which the handlers ask first, has an      *)
(* invariant of its own (LimitInv), for any limit, window and block.       *)
(***************************************************************************)
EXTENDS RelaySessions, Attempts, Integers, TLAPS

\* The inductive invariant.
IInv ==
  /\ TypeOK
  /\ UseLimitKept
  /\ SessionHasEnd
  /\ TablesAgree
  /\ RouteIsAlive
  /\ SingleMode
  /\ NoMissedWaiter
  /\ WaitersAreOnline

-----------------------------------------------------------------------------
\* Facts about the steps the handlers share.

\* _burn_token keeps the token file well typed and within its limits, and only
\* ever releases the lock of the code it is given.
LEMMA BurnTokenKeeps ==
  ASSUME TypeOK, UseLimitKept, NEW c \in Code, BurnToken(c)
  PROVE  /\ used' \subseteq Code
         /\ in_use' \subseteq in_use
         /\ use_count' \in [Code -> Nat]
         /\ UseLimitKept'
<1> USE CodeAssumption
<1>1. CASE c \notin in_use \ used /\ UNCHANGED token_file
  BY <1>1 DEF TypeOK, UseLimitKept, token_file
<1>2. CASE /\ c \in in_use \ used
           /\ in_use' = in_use \ {c}
           /\ c \in Unlimited
           /\ UNCHANGED <<used, use_count>>
  BY <1>2 DEF TypeOK, UseLimitKept
<1>3. CASE /\ c \in in_use \ used
           /\ in_use' = in_use \ {c}
           /\ c \notin Unlimited
           /\ use_count' = [use_count EXCEPT ![c] = @ + 1]
           /\ used' = IF use_count'[c] >= MaxUses[c] THEN used \cup {c} ELSE used
  <2>1. use_count[c] \in Nat /\ MaxUses[c] \in Nat /\ use_count[c] < MaxUses[c]
    BY <1>3 DEF TypeOK, UseLimitKept
  <2>2. use_count' \in [Code -> Nat] /\ use_count'[c] = use_count[c] + 1
    BY <1>3, <2>1 DEF TypeOK
  <2>3. used' \subseteq Code /\ in_use' \subseteq in_use
    BY <1>3 DEF TypeOK
  <2>4. ASSUME NEW d \in Code \ Unlimited
        PROVE  /\ use_count'[d] <= MaxUses[d]
               /\ use_count'[d] = MaxUses[d] => d \in used'
    <3>1. CASE d = c
      BY <1>3, <2>1, <2>2, <3>1
    <3>2. CASE d # c
      BY <1>3, <3>2 DEF TypeOK, UseLimitKept
    <3> QED BY <3>1, <3>2
  <2> QED BY <2>2, <2>3, <2>4 DEF UseLimitKept
<1> QED BY <1>1, <1>2, <1>3 DEF BurnToken

\* What the end of an agent's socket does to the invariants: the agent's session
\* is gone with everything that referred to it, and no other session is touched.
LEMMA DropAgentKeeps ==
  ASSUME IInv, NEW a \in Agent, DropAgent(a)
  PROVE  /\ used' \subseteq Code /\ in_use' \subseteq Code
         /\ use_count' \in [Code -> Nat]
         /\ UseLimitKept'
         /\ online' = online \ {a}
         /\ agent_tokens' = [agent_tokens EXCEPT ![a] = NoCode]
         /\ agent_allow_multi' = agent_allow_multi \ {a}
         /\ agent_browser' = [agent_browser EXCEPT ![a] = {}]
         /\ browser_agent' \in [Browser -> Agent \cup {NoAgent}]
         /\ \A b \in Browser : browser_agent'[b] # NoAgent =>
              browser_agent'[b] = browser_agent[b] /\ browser_agent[b] # a
<1> USE SidAssumption, CodeAssumption DEF IInv
<1>0. online' = online \ {a}
  BY DEF DropAgent
<1>1. CASE /\ Live(a)
           /\ BurnToken(agent_tokens[a])
           /\ agent_tokens' = [agent_tokens EXCEPT ![a] = NoCode]
           /\ UnpairAgent(a)
  <2>1. agent_tokens[a] \in Code
    BY <1>1 DEF TypeOK, Live
  <2>2. /\ used' \subseteq Code /\ in_use' \subseteq Code
        /\ use_count' \in [Code -> Nat]
        /\ UseLimitKept'
    BY <1>1, <2>1, BurnTokenKeeps DEF TypeOK
  <2>3. /\ browser_agent' \in [Browser -> Agent \cup {NoAgent}]
        /\ \A b \in Browser : browser_agent'[b] # NoAgent =>
             browser_agent'[b] = browser_agent[b] /\ browser_agent[b] # a
    BY <1>1 DEF UnpairAgent, TypeOK, RouteIsAlive
  <2> QED BY <1>0, <1>1, <2>2, <2>3 DEF UnpairAgent
<1>2. CASE /\ ~Live(a)
           /\ UNCHANGED <<token_file, sessions, pairs>>
  <2>1. /\ agent_tokens = [agent_tokens EXCEPT ![a] = NoCode]
        /\ agent_browser = [agent_browser EXCEPT ![a] = {}]
        /\ agent_allow_multi = agent_allow_multi \ {a}
    BY <1>2 DEF TypeOK, TablesAgree, Live
  <2>2. \A b \in Browser : browser_agent[b] # NoAgent => browser_agent[b] # a
    BY <1>2 DEF RouteIsAlive
  <2> QED
    BY <1>0, <1>2, <2>1, <2>2
    DEF token_file, sessions, pairs, TypeOK, UseLimitKept
<1> QED BY <1>1, <1>2 DEF DropAgent

-----------------------------------------------------------------------------
\* The invariant holds initially.
LEMMA InitIInv == Init => IInv
BY CodeAssumption, SidAssumption
DEF Init, IInv, TypeOK, UseLimitKept, SessionHasEnd, TablesAgree, RouteIsAlive,
    SingleMode, NoMissedWaiter, WaitersAreOnline, Live

\* A step that leaves the sockets and the server's memory alone keeps the
\* invariant if the token file stays well typed and within its limits.
LEMMA FileStepKeeps ==
  ASSUME IInv,
         used' \subseteq Code, in_use' \subseteq Code,
         use_count' \in [Code -> Nat], expired' \subseteq Code,
         UseLimitKept',
         UNCHANGED <<online, sessions, pairs, pending_browser, session_timer, closing>>
  PROVE  IInv'
BY DEF IInv, TypeOK, SessionHasEnd, TablesAgree, RouteIsAlive, SingleMode,
       NoMissedWaiter, WaitersAreOnline, Live, sessions, pairs

-----------------------------------------------------------------------------
\* The agents' actions.

LEMMA AgentHelloKeeps ==
  ASSUME IInv, NEW a \in Agent, NEW c \in Code, NEW multi \in BOOLEAN,
         AgentHelloAccepted(a, c, multi)
  PROVE  IInv'
<1> USE SidAssumption, CodeAssumption DEF IInv
<1>1. /\ a \in online \ closing /\ ~Live(a)
      /\ agent_browser[a] = {} /\ a \notin agent_allow_multi
  BY DEF AgentHelloAccepted, Greeting, TablesAgree
\* The browsers that agent_hello pairs.
<1>2. PICK S \in SUBSET pending_browser[c] :
        Pair(S, a) /\ (multi \/ \A b1, b2 \in S : b1 = b2)
  <2>1. CASE (multi \/ pending_browser[c] = {}) /\ Pair(pending_browser[c], a)
    BY <2>1
  <2>2. CASE ~multi /\ \E b \in pending_browser[c] : Pair({b}, a)
    BY <2>2
  <2> QED BY <2>1, <2>2 DEF AgentHelloAccepted, AdmitWaiting
<1>3. S \subseteq Browser
  BY <1>2 DEF TypeOK
<1>4. /\ agent_tokens' = [agent_tokens EXCEPT ![a] = c]
      /\ session_timer' = [session_timer EXCEPT ![a] = c]
      /\ pending_browser' = [pending_browser EXCEPT ![c] = {}]
      /\ agent_browser' = [agent_browser EXCEPT ![a] = S]
      /\ browser_agent' = [b \in Browser |-> IF b \in S THEN a ELSE browser_agent[b]]
      /\ UNCHANGED <<used, use_count, expired, online, closing>>
  BY <1>1, <1>2 DEF AgentHelloAccepted, AdmitWaiting, Pair, TypeOK
<1>5. /\ a \in agent_allow_multi' <=> multi
      /\ \A x \in Agent : x # a => (x \in agent_allow_multi' <=> x \in agent_allow_multi)
      /\ agent_allow_multi' \subseteq Agent
  BY DEF AgentHelloAccepted, TypeOK
<1>6. /\ Live(a)'
      /\ \A x \in Agent : x # a => (Live(x)' <=> Live(x)) /\ agent_tokens'[x] = agent_tokens[x]
  BY <1>4 DEF Live, TypeOK
<1>7. TypeOK'
  BY <1>3, <1>4, <1>5 DEF AgentHelloAccepted, TypeOK
<1>8. UseLimitKept'
  BY <1>4 DEF UseLimitKept
<1>9. SessionHasEnd'
  BY <1>4, <1>6 DEF SessionHasEnd, TypeOK
<1>10. TablesAgree'
  BY <1>1, <1>4, <1>5, <1>6 DEF TablesAgree, TypeOK
<1>11. RouteIsAlive'
  BY <1>1, <1>3, <1>4, <1>6 DEF RouteIsAlive, TypeOK
<1>12. SingleMode'
  BY <1>2, <1>4, <1>5 DEF SingleMode, TypeOK
<1>13. NoMissedWaiter'
  BY <1>4, <1>6 DEF NoMissedWaiter, TypeOK, Live
<1>14. WaitersAreOnline'
  BY <1>4 DEF WaitersAreOnline, TypeOK
<1> QED
  BY <1>7, <1>8, <1>9, <1>10, <1>11, <1>12, <1>13, <1>14

\* Any step that ends an agent's socket, whether or not it was the server's doing.
LEMMA AgentGoneKeeps ==
  ASSUME IInv, NEW a \in Agent, DropAgent(a),
         closing' \in {closing, closing \ {a}},
         UNCHANGED <<expired, pending_browser, session_timer>>
  PROVE  IInv'
<1> USE SidAssumption, CodeAssumption DEF IInv
<1> DEFINE Dropped ==
      /\ used' \subseteq Code /\ in_use' \subseteq Code
      /\ use_count' \in [Code -> Nat]
      /\ online' = online \ {a}
      /\ agent_tokens' = [agent_tokens EXCEPT ![a] = NoCode]
      /\ agent_allow_multi' = agent_allow_multi \ {a}
      /\ agent_browser' = [agent_browser EXCEPT ![a] = {}]
      /\ browser_agent' \in [Browser -> Agent \cup {NoAgent}]
      /\ \A b \in Browser : browser_agent'[b] # NoAgent =>
           browser_agent'[b] = browser_agent[b] /\ browser_agent[b] # a
<1>1. Dropped /\ UseLimitKept'
  BY DropAgentKeeps
<1>2. TypeOK'
  BY <1>1 DEF TypeOK
<1>3. \A x \in Agent : Live(x)' <=> Live(x) /\ x # a
  BY <1>1 DEF Live, TypeOK
<1>4. SessionHasEnd'
  BY <1>1, <1>3 DEF SessionHasEnd, TypeOK
<1>5. TablesAgree'
  BY <1>1, <1>3 DEF TablesAgree, TypeOK
<1>6. RouteIsAlive'
  BY <1>1, <1>3 DEF RouteIsAlive, TypeOK
<1>7. SingleMode'
  BY <1>1 DEF SingleMode, TypeOK
<1>8. NoMissedWaiter'
  BY <1>1, <1>3 DEF NoMissedWaiter, TypeOK
<1>9. WaitersAreOnline'
  BY <1>1 DEF WaitersAreOnline, TypeOK
<1> QED BY <1>1, <1>2, <1>4, <1>5, <1>6, <1>7, <1>8, <1>9

LEMMA AgentStepKeeps ==
  ASSUME IInv, NEW a \in Agent, AgentStep(a)
  PROVE  IInv'
<1> USE SidAssumption, CodeAssumption
<1>1. CASE AgentConnect(a)
  BY <1>1
  DEF AgentConnect, UnknownAgent, IInv, TypeOK, UseLimitKept, SessionHasEnd,
      TablesAgree, RouteIsAlive, SingleMode, NoMissedWaiter, WaitersAreOnline,
      Live, token_file, sessions, pairs
<1>2. CASE AgentHelloUnknown(a)
  BY <1>2
  DEF AgentHelloUnknown, Greeting, IInv, TypeOK, UseLimitKept, SessionHasEnd,
      TablesAgree, RouteIsAlive, SingleMode, NoMissedWaiter, WaitersAreOnline,
      Live, token_file, sessions, pairs
<1>3. ASSUME NEW c \in Code, AgentHelloRejected(a, c)
      PROVE  IInv'
  BY <1>3
  DEF AgentHelloRejected, Greeting, IInv, TypeOK, UseLimitKept, SessionHasEnd,
      TablesAgree, RouteIsAlive, SingleMode, NoMissedWaiter, WaitersAreOnline,
      Live, sessions, pairs
<1>4. ASSUME NEW c \in Code, NEW multi \in BOOLEAN, AgentHelloAccepted(a, c, multi)
      PROVE  IInv'
  BY <1>4, AgentHelloKeeps
<1>5. CASE AgentDisconnect(a)
  BY <1>5, AgentGoneKeeps DEF AgentDisconnect
<1>6. CASE DelayedDisconnect(a)
  <2>1. CASE a \in online /\ DropAgent(a)
    BY <1>6, <2>1, AgentGoneKeeps DEF DelayedDisconnect
  <2>2. CASE a \notin online /\ UNCHANGED <<token_file, online, sessions, pairs>>
    BY <1>6, <2>2
    DEF DelayedDisconnect, IInv, TypeOK, UseLimitKept, SessionHasEnd, TablesAgree,
        RouteIsAlive, SingleMode, NoMissedWaiter, WaitersAreOnline, Live,
        token_file, sessions, pairs
  <2> QED BY <1>6, <2>1, <2>2 DEF DelayedDisconnect
<1>7. CASE SessionTimer(a)
  <2>1. session_timer[a] \in Code
    BY <1>7 DEF SessionTimer, IInv, TypeOK
  <2>2. /\ used' \subseteq Code /\ in_use' \subseteq in_use
        /\ use_count' \in [Code -> Nat] /\ UseLimitKept'
    BY <1>7, <2>1, BurnTokenKeeps DEF SessionTimer, IInv
  <2> QED
    BY <1>7, <2>1, <2>2
    DEF SessionTimer, IInv, TypeOK, SessionHasEnd, TablesAgree, RouteIsAlive,
        SingleMode, NoMissedWaiter, WaitersAreOnline, Live, sessions, pairs
<1>8. CASE AdminKick(a)
  <2>1. agent_tokens[a] \in Code
    BY <1>8 DEF AdminKick, Live, IInv, TypeOK
  <2>2. /\ used' \subseteq Code /\ in_use' \subseteq in_use
        /\ use_count' \in [Code -> Nat] /\ UseLimitKept'
    BY <1>8, <2>1, BurnTokenKeeps DEF AdminKick, IInv
  <2> QED
    BY <1>8, <2>1, <2>2
    DEF AdminKick, IInv, TypeOK, SessionHasEnd, TablesAgree, RouteIsAlive,
        SingleMode, NoMissedWaiter, WaitersAreOnline, Live, sessions, pairs
<1> QED
  BY <1>1, <1>2, <1>3, <1>4, <1>5, <1>6, <1>7, <1>8 DEF AgentStep

-----------------------------------------------------------------------------
\* The browsers' actions.

LEMMA BrowserStepKeeps ==
  ASSUME IInv, NEW b \in Browser, BrowserStep(b)
  PROVE  IInv'
<1> USE SidAssumption, CodeAssumption DEF IInv
<1>1. CASE BrowserConnect(b)
  BY <1>1
  DEF BrowserConnect, UnknownBrowser, TypeOK, UseLimitKept, SessionHasEnd,
      TablesAgree, RouteIsAlive, SingleMode, NoMissedWaiter, WaitersAreOnline,
      Live, token_file, sessions, pairs
<1>2. ASSUME NEW c \in Code, BrowserWait(b, c)
      PROVE  IInv'
  <2>1. NoMissedWaiter'
    BY <1>2
    DEF BrowserWait, NoMissedWaiter, ActiveCodes, Live, TypeOK, sessions
  <2> QED
    BY <1>2, <2>1
    DEF BrowserWait, MayPair, TypeOK, UseLimitKept, SessionHasEnd, TablesAgree,
        RouteIsAlive, SingleMode, WaitersAreOnline, Live, token_file, sessions, pairs
<1>3. ASSUME NEW c \in Code, NEW a \in Agent, BrowserPair(b, c, a)
      PROVE  IInv'
  <2>1. /\ Live(a)
        /\ agent_browser' = [agent_browser EXCEPT ![a] = @ \cup {b}]
        /\ browser_agent' = [browser_agent EXCEPT ![b] = a]
    BY <1>3 DEF BrowserPair, Pair, Live, TypeOK
  <2>2. TypeOK'
    BY <1>3, <2>1 DEF BrowserPair, TypeOK, token_file, sessions
  <2>3. TablesAgree'
    BY <1>3, <2>1 DEF BrowserPair, TypeOK, TablesAgree, Live, sessions
  <2>4. RouteIsAlive'
    BY <1>3, <2>1
    DEF BrowserPair, TypeOK, RouteIsAlive, TablesAgree, Live, sessions
  <2>5. SingleMode'
    BY <1>3, <2>1 DEF BrowserPair, TypeOK, SingleMode, sessions
  <2> QED
    BY <1>3, <2>2, <2>3, <2>4, <2>5
    DEF BrowserPair, UseLimitKept, SessionHasEnd, NoMissedWaiter,
        WaitersAreOnline, Live, token_file, sessions
<1>4. CASE BrowserDisconnect(b)
  <2>1. /\ \A x \in Agent : agent_browser'[x] \subseteq agent_browser[x]
        /\ \A x \in Browser : browser_agent'[x] # NoAgent =>
             /\ browser_agent'[x] = browser_agent[x] /\ x # b
             /\ x \in agent_browser[browser_agent[x]] =>
                  x \in agent_browser'[browser_agent[x]]
    BY <1>4 DEF BrowserDisconnect, UnpairBrowser, TypeOK
  <2>2. TypeOK'
    BY <1>4
    DEF BrowserDisconnect, UnpairBrowser, TypeOK, token_file, sessions
  <2>3. TablesAgree' /\ SessionHasEnd'
    BY <1>4, <2>1 DEF BrowserDisconnect, TablesAgree, SessionHasEnd, Live, sessions
  <2>4. RouteIsAlive'
    BY <1>4, <2>1 DEF BrowserDisconnect, RouteIsAlive, Live, sessions, TypeOK
  <2>5. SingleMode'
    BY <1>4, <2>1 DEF BrowserDisconnect, SingleMode, sessions
  <2>6. NoMissedWaiter' /\ WaitersAreOnline'
    BY <1>4
    DEF BrowserDisconnect, NoMissedWaiter, WaitersAreOnline, Live, sessions, TypeOK
  <2> QED
    BY <1>4, <2>2, <2>3, <2>4, <2>5, <2>6
    DEF BrowserDisconnect, UseLimitKept, token_file
<1> QED
  BY <1>1, <1>2, <1>3, <1>4 DEF BrowserStep

-----------------------------------------------------------------------------
\* The remaining actions and the theorem.

LEMMA NextKeeps == IInv /\ [Next]_vars => IInv'
<1> USE SidAssumption, CodeAssumption
<1> SUFFICES ASSUME IInv, [Next]_vars
             PROVE  IInv'
  OBVIOUS
<1>1. ASSUME NEW a \in Agent, AgentStep(a)
      PROVE  IInv'
  BY <1>1, AgentStepKeeps
<1>2. ASSUME NEW b \in Browser, BrowserStep(b)
      PROVE  IInv'
  BY <1>2, BrowserStepKeeps
<1>3. ASSUME NEW c \in Code, CodeStep(c)
      PROVE  IInv'
  <2>1. CASE AdminRevoke(c)
    BY <2>1, FileStepKeeps DEF AdminRevoke, IInv, TypeOK, UseLimitKept
  <2>2. CASE AdminUnlock(c)
    BY <2>2, FileStepKeeps DEF AdminUnlock, IInv, TypeOK, UseLimitKept
  <2>3. CASE ExpiryPasses(c)
    BY <2>3, FileStepKeeps DEF ExpiryPasses, IInv, TypeOK, UseLimitKept, token_file
  <2> QED BY <1>3, <2>1, <2>2, <2>3 DEF CodeStep
<1>4. CASE CleanupOrphanedTokens
  BY <1>4, FileStepKeeps DEF CleanupOrphanedTokens, IInv, TypeOK, UseLimitKept
<1>5. CASE ServerRestart
  BY <1>5
  DEF ServerRestart, IInv, TypeOK, UseLimitKept, SessionHasEnd, TablesAgree,
      RouteIsAlive, SingleMode, NoMissedWaiter, WaitersAreOnline, Live
<1>6. CASE UNCHANGED vars
  BY <1>6, FileStepKeeps
  DEF vars, token_file, IInv, TypeOK, UseLimitKept
<1> QED
  BY <1>1, <1>2, <1>3, <1>4, <1>5, <1>6 DEF Next

\* Every reachable state of the server satisfies the inductive invariant, for
\* any pools of connections, any codes and any limits.
THEOREM InvariantHolds == Spec => []IInv
BY InitIInv, NextKeeps, PTL DEF Spec

\* The server's tables always have the shape the handlers expect.
THEOREM TypesAreCorrect == Spec => []TypeOK
<1>1. IInv => TypeOK
  BY DEF IInv
<1> QED BY <1>1, InvariantHolds, PTL

\* A limited code is never burned more than max_uses times.
THEOREM UseLimitIsKept == Spec => []UseLimitKept
<1>1. IInv => UseLimitKept
  BY DEF IInv
<1> QED BY <1>1, InvariantHolds, PTL

\* A task that will end it exists for every session.
THEOREM SessionsHaveAnEnd == Spec => []SessionHasEnd
<1>1. IInv => SessionHasEnd
  BY DEF IInv
<1> QED BY <1>1, InvariantHolds, PTL

\* A command is never routed to an agent that is gone, and an agent that is gone
\* leaves nothing in the tables.
THEOREM RoutesAreAlive == Spec => []RoutesAreSound
<1>1. IInv => RoutesAreSound
  BY DEF IInv, RoutesAreSound
<1> QED BY <1>1, InvariantHolds, PTL

\* An agent in single mode has one browser at most.
THEOREM SingleModeIsKept == Spec => []SingleMode
<1>1. IInv => SingleMode
  BY DEF IInv
<1> QED BY <1>1, InvariantHolds, PTL

\* Nobody waits for an agent that is there, and only open sockets wait.
THEOREM WaitersAreServed == Spec => []WaitingIsSound
<1>1. IInv => WaitingIsSound
  BY DEF IInv, WaitingIsSound
<1> QED BY <1>1, InvariantHolds, PTL

-----------------------------------------------------------------------------
\* Refinement of CodeLease.

\* A step that leaves the token file alone leaves the leases alone.
LEMMA LeaseStutter ==
  UNCHANGED token_file => UNCHANGED Lease!vars
BY DEF token_file, Lease!vars, LeaseOf

\* A code whose lock is taken off without counting is forfeited (or was spent,
\* or was not locked); the codes of S are the ones unlocked.
LEMMA UnlockForfeits ==
  ASSUME NEW S \in SUBSET in_use, in_use \subseteq Code,
         in_use' = in_use \ S, UNCHANGED <<used, use_count>>
  PROVE  Lease!Next
<1> DEFINE F == S \ used
<1>1. \A c \in F : LeaseOf(c) = "leased"
  BY DEF LeaseOf
<1>2. \A c \in Code : LeaseOf(c)' = IF c \in F THEN "free" ELSE LeaseOf(c)
  BY DEF LeaseOf
<1>3. F \in SUBSET Code
  OBVIOUS
<1>4. Lease!Forfeit(F)
  BY <1>1, <1>2, <1>3 DEF Lease!Forfeit
<1> QED BY <1>3, <1>4 DEF Lease!Next

\* _burn_token settles or releases one lease, or does nothing.
LEMMA BurnTokenSettles ==
  ASSUME TypeOK, NEW c \in Code, BurnToken(c)
  PROVE  Lease!Next \/ UNCHANGED Lease!vars
<1> USE CodeAssumption
<1>1. CASE c \notin in_use \ used /\ UNCHANGED token_file
  BY <1>1, LeaseStutter
<1>2. CASE /\ c \in in_use \ used
           /\ in_use' = in_use \ {c}
           /\ c \in Unlimited
           /\ UNCHANGED <<used, use_count>>
  BY <1>2 DEF Lease!Next, Lease!Release, LeaseOf
<1>3. CASE /\ c \in in_use \ used
           /\ in_use' = in_use \ {c}
           /\ c \notin Unlimited
           /\ use_count' = [use_count EXCEPT ![c] = @ + 1]
           /\ used' = IF use_count'[c] >= MaxUses[c] THEN used \cup {c} ELSE used
  <2>1. use_count[c] \in Nat /\ MaxUses[c] \in Nat /\ use_count'[c] = use_count[c] + 1
    BY <1>3 DEF TypeOK
  <2>2. LeaseOf(c) = "leased"
    BY <1>3 DEF LeaseOf
  <2>3. LeaseOf(c)' = IF use_count[c] + 1 < MaxUses[c] THEN "free" ELSE "spent"
    BY <1>3, <2>1 DEF LeaseOf
  <2>4. \A d \in Code : d # c => LeaseOf(d)' = LeaseOf(d)
    BY <1>3 DEF LeaseOf
  <2>5. Lease!Settle(c)
    BY <1>3, <2>2, <2>3, <2>4 DEF Lease!Settle
  <2> QED BY <2>5 DEF Lease!Next
<1> QED BY <1>1, <1>2, <1>3 DEF BurnToken

\* A step of an agent grants a lease, ends one, or leaves them alone.
LEMMA AgentStepLeases ==
  ASSUME IInv, NEW a \in Agent, AgentStep(a)
  PROVE  Lease!Next \/ UNCHANGED Lease!vars
<1> USE CodeAssumption
<1>1. CASE AgentConnect(a) \/ AgentHelloUnknown(a)
  BY <1>1, LeaseStutter DEF AgentConnect, AgentHelloUnknown
<1>2. ASSUME NEW c \in Code, AgentHelloRejected(a, c)
      PROVE  Lease!Next \/ UNCHANGED Lease!vars
  <2>1. CASE c \in used
    BY <1>2, <2>1, LeaseStutter DEF AgentHelloRejected, token_file
  <2>2. CASE c \notin used /\ Exhausted(c)
    <3>1. used' = used \cup {c} /\ UNCHANGED <<in_use, use_count>>
      BY <1>2, <2>2 DEF AgentHelloRejected
    <3>2. Lease!Withdraw(c)
      BY <2>2, <3>1 DEF Lease!Withdraw, LeaseOf
    <3> QED BY <3>2 DEF Lease!Next
  <2>3. CASE c \notin used /\ ~Exhausted(c) /\ c \in ActiveCodes
    BY <1>2, <2>3, LeaseStutter DEF AgentHelloRejected, token_file
  <2>4. CASE c \notin used /\ ~Exhausted(c) /\ c \notin ActiveCodes
    <3>1. /\ {c} \cap in_use \in SUBSET in_use
          /\ in_use' = in_use \ ({c} \cap in_use)
          /\ UNCHANGED <<used, use_count>>
      BY <1>2, <2>4 DEF AgentHelloRejected
    <3>2. in_use \subseteq Code
      BY DEF IInv, TypeOK
    <3> QED BY <3>1, <3>2, UnlockForfeits
  <2> QED BY <2>1, <2>2, <2>3, <2>4
<1>3. ASSUME NEW c \in Code, NEW multi \in BOOLEAN, AgentHelloAccepted(a, c, multi)
      PROVE  Lease!Next \/ UNCHANGED Lease!vars
  <2>1. c \notin used /\ in_use' = in_use \cup {c} /\ UNCHANGED <<used, use_count>>
    BY <1>3 DEF AgentHelloAccepted
  <2>2. CASE c \in in_use
    BY <2>1, <2>2, LeaseStutter DEF token_file
  <2>3. CASE c \notin in_use
    BY <2>1, <2>3 DEF Lease!Next, Lease!Grant, LeaseOf
  <2> QED BY <2>2, <2>3
<1>4. ASSUME DropAgent(a)
      PROVE  Lease!Next \/ UNCHANGED Lease!vars
  BY <1>4, BurnTokenSettles, LeaseStutter DEF DropAgent, Live, IInv, TypeOK
<1>5. CASE AgentDisconnect(a) \/ DelayedDisconnect(a)
  BY <1>4, <1>5, LeaseStutter DEF AgentDisconnect, DelayedDisconnect
<1>6. CASE SessionTimer(a) \/ AdminKick(a)
  BY <1>6, BurnTokenSettles DEF SessionTimer, AdminKick, Live, IInv, TypeOK
<1> QED
  BY <1>1, <1>2, <1>3, <1>5, <1>6 DEF AgentStep

LEMMA NextLeases == IInv /\ [Next]_vars => [Lease!Next]_(Lease!vars)
<1> SUFFICES ASSUME IInv, [Next]_vars
             PROVE  Lease!Next \/ UNCHANGED Lease!vars
  OBVIOUS
<1>1. ASSUME NEW a \in Agent, AgentStep(a)
      PROVE  Lease!Next \/ UNCHANGED Lease!vars
  BY <1>1, AgentStepLeases
<1>2. ASSUME NEW b \in Browser, BrowserStep(b)
      PROVE  UNCHANGED Lease!vars
  BY <1>2, LeaseStutter
  DEF BrowserStep, BrowserConnect, BrowserWait, BrowserPair, BrowserDisconnect
<1>3. ASSUME NEW c \in Code, CodeStep(c)
      PROVE  Lease!Next \/ UNCHANGED Lease!vars
  <2>1. CASE AdminRevoke(c)
    <3>1. Lease!Withdraw(c)
      BY <2>1 DEF AdminRevoke, Lease!Withdraw, LeaseOf
    <3> QED BY <3>1 DEF Lease!Next
  <2>2. CASE AdminUnlock(c)
    <3>1. /\ {c} \in SUBSET in_use
          /\ in_use' = in_use \ {c}
          /\ UNCHANGED <<used, use_count>>
      BY <2>2 DEF AdminUnlock
    <3>2. in_use \subseteq Code
      BY DEF IInv, TypeOK
    <3> QED BY <3>1, <3>2, UnlockForfeits
  <2>3. CASE ExpiryPasses(c)
    BY <2>3, LeaseStutter DEF ExpiryPasses
  <2> QED BY <1>3, <2>1, <2>2, <2>3 DEF CodeStep
<1>4. CASE CleanupOrphanedTokens
  <2>1. in_use' = in_use \ (in_use \ ActiveCodes)
    BY <1>4 DEF CleanupOrphanedTokens
  <2> QED BY <1>4, <2>1, UnlockForfeits DEF CleanupOrphanedTokens, IInv, TypeOK
<1>5. CASE ServerRestart
  <2>1. in_use' = in_use \ in_use /\ UNCHANGED <<used, use_count>>
    BY <1>5 DEF ServerRestart
  <2> QED BY <2>1, UnlockForfeits DEF IInv, TypeOK
<1>6. CASE UNCHANGED vars
  BY <1>6, LeaseStutter DEF vars
<1> QED
  BY <1>1, <1>2, <1>3, <1>4, <1>5, <1>6 DEF Next

\* The server implements CodeLease: every end of a session is counted once, by
\* whichever of its enders comes first, and a spent code stays spent.
THEOREM ServerKeepsLeases == Spec => KeepsLeases
<1>1. Init => Lease!Init
  BY DEF Init, Lease!Init, LeaseOf
<1> QED
  BY <1>1, NextLeases, InvariantHolds, PTL DEF Spec, KeepsLeases, Lease!Spec

-----------------------------------------------------------------------------
\* The limit on failed attempts (FailureLimit), for every set of addresses and
\* all values of the three parameters with a block no longer than the window.

\* An entry's failures lie in one window, and the end of its block is set by
\* the latest of them: no later than one block after the window, and, as a
\* block has to be sat out before the next failure, no earlier than one block
\* for each failure from the FailMax-th on.
EntryInv(ip) ==
  count[ip] # 0 =>
    /\ first_fail[ip] <= now
    /\ blocked_until[ip] <= first_fail[ip] + FailWindow + BlockSec
    /\ count[ip] >= FailMax =>
         first_fail[ip] + (count[ip] - FailMax) * BlockSec + BlockSec
           <= blocked_until[ip]

LimitInv == Limit!TypeOK /\ \A ip \in Ip : EntryInv(ip)

-----------------------------------------------------------------------------
\* One more failure is one more block.
LEMMA OneMoreBlock ==
  ASSUME NEW n \in Nat, NEW k \in Nat, NEW b \in Nat, n >= k
  PROVE  (n + 1 - k) * b = (n - k) * b + b
OBVIOUS

LEMMA LimitInit == Limit!Init => LimitInv
BY LimitAssumption DEF Limit!ParametersFit, Limit!Init, LimitInv, Limit!TypeOK, EntryInv

LEMMA FailureKeepsLimit ==
  ASSUME LimitInv, NEW ip \in Ip, Limit!AttemptFails(ip)
  PROVE  LimitInv'
<1> USE LimitAssumption DEF Limit!ParametersFit
<1> DEFINE n == IF Limit!StartsOver(ip) THEN 1 ELSE count[ip] + 1
<1>1. /\ now \in Nat /\ count[ip] \in Nat /\ first_fail[ip] \in Nat
      /\ blocked_until[ip] \in Nat /\ n \in Nat \ {0}
  BY DEF LimitInv, Limit!TypeOK
<1>2. /\ now' = now /\ count'[ip] = n
      /\ first_fail'[ip] = IF Limit!StartsOver(ip) THEN now ELSE first_fail[ip]
      /\ blocked_until'[ip] = IF n >= FailMax THEN now + BlockSec
                              ELSE IF Limit!StartsOver(ip) THEN 0 ELSE blocked_until[ip]
  BY DEF Limit!AttemptFails, Limit!RecordFailure, LimitInv, Limit!TypeOK
<1>3. Limit!TypeOK'
  BY <1>1 DEF LimitInv, Limit!TypeOK, Limit!AttemptFails, Limit!RecordFailure
<1>4. EntryInv(ip)'
  <2>1. CASE Limit!StartsOver(ip)
    <3>1. n = 1 /\ first_fail'[ip] = now
      BY <2>1, <1>2
    <3>2. n >= FailMax => n - FailMax = 0 /\ (n - FailMax) * BlockSec = 0
      BY <3>1
    <3> QED BY <1>1, <1>2, <2>1, <3>1, <3>2 DEF EntryInv
  <2>2. CASE ~Limit!StartsOver(ip)
    <3>1. /\ count[ip] # 0 /\ n = count[ip] + 1
          /\ now - first_fail[ip] <= FailWindow
          /\ blocked_until[ip] <= now
      BY <1>1, <2>2 DEF Limit!StartsOver, Limit!AttemptFails, Limit!IsBlocked
    <3>2. /\ first_fail[ip] <= now
          /\ blocked_until[ip] <= first_fail[ip] + FailWindow + BlockSec
          /\ count[ip] >= FailMax =>
               first_fail[ip] + (count[ip] - FailMax) * BlockSec + BlockSec
                 <= blocked_until[ip]
      BY <3>1 DEF LimitInv, EntryInv
    <3>3. ASSUME n >= FailMax
          PROVE  first_fail[ip] + (n - FailMax) * BlockSec + BlockSec
                   <= now + BlockSec
      <4>1. CASE count[ip] >= FailMax
        <5> DEFINE m == (count[ip] - FailMax) * BlockSec
                   d == (n - FailMax) * BlockSec
        <5>1. d = m + BlockSec
          BY <1>1, <3>1, <4>1, OneMoreBlock
        <5>2. m \in Int
          BY <1>1
        <5>3. first_fail[ip] + m + BlockSec <= blocked_until[ip]
          BY <3>2, <4>1
        <5> HIDE DEF m, d
        <5>4. first_fail[ip] + d + BlockSec <= now + BlockSec
          BY <1>1, <3>1, <5>1, <5>2, <5>3
        <5> QED BY <5>4 DEF d
      <4>2. CASE ~(count[ip] >= FailMax)
        <5>1. n - FailMax = 0
          BY <1>1, <3>1, <3>3, <4>2
        <5> QED BY <1>1, <3>2, <5>1
      <4> QED BY <4>1, <4>2
    <3> QED BY <1>1, <1>2, <2>2, <3>1, <3>2, <3>3 DEF EntryInv
  <2> QED BY <2>1, <2>2
<1>5. ASSUME NEW j \in Ip, j # ip PROVE EntryInv(j)'
  <2>1. /\ count'[j] = count[j] /\ first_fail'[j] = first_fail[j]
        /\ blocked_until'[j] = blocked_until[j] /\ now' = now
    BY <1>5 DEF LimitInv, Limit!TypeOK, Limit!AttemptFails, Limit!RecordFailure
  <2> QED BY <2>1 DEF LimitInv, EntryInv
<1> QED BY <1>3, <1>4, <1>5 DEF LimitInv

\* Forgetting entries takes nothing from the others.
LEMMA ForgetKeepsLimit ==
  ASSUME LimitInv, NEW S, Limit!Forget(S), UNCHANGED now
  PROVE  LimitInv'
<1>1. Limit!TypeOK'
  BY DEF LimitInv, Limit!TypeOK, Limit!Forget
<1>2. ASSUME NEW ip \in Ip PROVE EntryInv(ip)'
  BY DEF LimitInv, Limit!TypeOK, EntryInv, Limit!Forget
<1> QED BY <1>1, <1>2 DEF LimitInv

LEMMA LimitNext == LimitInv /\ [Limit!Next]_(Limit!vars) => LimitInv'
<1> USE LimitAssumption DEF Limit!ParametersFit
<1> SUFFICES ASSUME LimitInv, [Limit!Next]_(Limit!vars) PROVE LimitInv'
  OBVIOUS
<1>1. ASSUME NEW ip \in Ip, Limit!AttemptFails(ip) PROVE LimitInv'
  BY <1>1, FailureKeepsLimit
<1>2. ASSUME NEW ip \in Ip, Limit!AttemptSucceeds(ip) PROVE LimitInv'
  BY <1>2, ForgetKeepsLimit DEF Limit!AttemptSucceeds
<1>3. CASE Limit!Cleanup
  BY <1>3, ForgetKeepsLimit DEF Limit!Cleanup
<1>4. CASE Limit!Tick
  BY <1>4 DEF Limit!Tick, LimitInv, Limit!TypeOK, EntryInv
<1>5. CASE UNCHANGED Limit!vars
  BY <1>5 DEF Limit!vars, LimitInv, Limit!TypeOK, EntryInv
<1> QED BY <1>1, <1>2, <1>3, <1>4, <1>5 DEF Limit!Next

\* The inductive invariant holds.
THEOREM LimitHolds == Limit!Spec => []LimitInv
BY LimitInit, LimitNext, PTL DEF Limit!Spec

-----------------------------------------------------------------------------
\* Types are correct.
THEOREM LimitTypesAreCorrect == Limit!Spec => []Limit!TypeOK
<1> USE LimitAssumption DEF Limit!ParametersFit
<1>1. LimitInv => Limit!TypeOK
  BY DEF LimitInv
<1> QED BY <1>1, LimitHolds, PTL

\* No address is ever blocked for longer than its failures account for.
THEOREM BlocksEnd == Limit!Spec => []Limit!BlockHasAnEnd
<1> USE LimitAssumption DEF Limit!ParametersFit
<1>1. LimitInv => Limit!BlockHasAnEnd
  BY DEF LimitInv, EntryInv, Limit!BlockHasAnEnd
<1> QED BY <1>1, LimitHolds, PTL

\* The number of guesses per window is bounded by FailMax and the pace of the
\* blocks, whatever the parameters.
THEOREM GuessesStayBounded == Limit!Spec => []GuessesAreBounded
<1> USE LimitAssumption DEF Limit!ParametersFit
<1>1. LimitInv => GuessesAreBounded
  <2> SUFFICES ASSUME LimitInv, NEW ip \in Ip, count[ip] > FailMax
               PROVE  (count[ip] - FailMax) * BlockSec <= FailWindow
    BY DEF GuessesAreBounded, Limit!GuessesAreBounded
  <2>1. /\ count[ip] \in Nat /\ first_fail[ip] \in Nat /\ blocked_until[ip] \in Nat
        /\ (count[ip] - FailMax) * BlockSec \in Int
    BY DEF LimitInv, Limit!TypeOK
  <2>2. /\ blocked_until[ip] <= first_fail[ip] + FailWindow + BlockSec
        /\ first_fail[ip] + (count[ip] - FailMax) * BlockSec + BlockSec
             <= blocked_until[ip]
    BY <2>1 DEF LimitInv, EntryInv
  <2> DEFINE m == (count[ip] - FailMax) * BlockSec
  <2> HIDE DEF m
  <2> QED BY <2>1, <2>2 DEF m
<1> QED BY <1>1, LimitHolds, PTL

\* A block is served in full and not extended.  The cleanup leaves it alone
\* because a block is no longer than the window.
THEOREM BlocksAreServed == Limit!Spec => BlockIsServed
<1> USE LimitAssumption DEF Limit!ParametersFit
<1>1. LimitInv /\ [Limit!Next]_(Limit!vars) =>
        [\A ip \in Ip : Limit!IsBlocked(ip) =>
           count'[ip] # 0 /\ blocked_until'[ip] = blocked_until[ip]]_(Limit!vars)
  <2> SUFFICES ASSUME LimitInv, Limit!Next, NEW ip \in Ip, Limit!IsBlocked(ip)
               PROVE  count'[ip] # 0 /\ blocked_until'[ip] = blocked_until[ip]
    BY DEF Limit!vars
  <2>1. /\ now \in Nat /\ count[ip] \in Nat \ {0} /\ first_fail[ip] \in Nat
        /\ blocked_until[ip] \in Nat /\ now < blocked_until[ip]
        /\ blocked_until[ip] <= first_fail[ip] + FailWindow + BlockSec
    BY DEF LimitInv, Limit!TypeOK, EntryInv, Limit!IsBlocked
  <2>2. ASSUME NEW j \in Ip, Limit!AttemptFails(j) PROVE ip # j
    BY <2>2 DEF Limit!AttemptFails
  <2>3. ASSUME NEW j \in Ip, Limit!AttemptFails(j)
        PROVE  count'[ip] # 0 /\ blocked_until'[ip] = blocked_until[ip]
    BY <2>1, <2>2, <2>3 DEF Limit!AttemptFails, Limit!RecordFailure, LimitInv, Limit!TypeOK
  <2>4. ASSUME NEW j \in Ip, Limit!AttemptSucceeds(j)
        PROVE  count'[ip] # 0 /\ blocked_until'[ip] = blocked_until[ip]
    BY <2>1, <2>4 DEF Limit!AttemptSucceeds, Limit!Forget
  <2>5. CASE Limit!Cleanup
    <3>1. ~(now - first_fail[ip] > 2 * FailWindow)
      BY <2>1
    <3> QED BY <2>1, <2>5, <3>1 DEF Limit!Cleanup, Limit!Forget
  <2>6. CASE Limit!Tick
    BY <2>1, <2>6 DEF Limit!Tick
  <2> QED BY <2>3, <2>4, <2>5, <2>6 DEF Limit!Next
<1> QED BY <1>1, LimitHolds, PTL DEF Limit!Spec, BlockIsServed, Limit!BlockIsServed
=============================================================================
