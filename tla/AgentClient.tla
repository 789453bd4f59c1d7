----------------------------- MODULE AgentClient -----------------------------
(***************************************************************************)
(* An agent program and its connection to the server, through losses of    *)
(* the network, rejections, kicks and retries: the main loop (main.go, or  *)
(* main of the Python agent), the loop that reads the socket, the handlers *)
(* it starts, each in a goroutine or thread of its own (agent.go), and the *)
(* server's view (server.py) of one code and of the sockets of this agent. *)
(*                                                                         *)
(* What one agent can notice of others is left to its surroundings: the    *)
(* block of its address, the revocation and expiry of its code.  The       *)
(* tables of the sessions are those of module RelaySessions.               *)
(***************************************************************************)
EXTENDS Naturals, Sequences

CONSTANTS
  Conn,       \* socket ids
  NoConn,     \* no connection was made yet
  MaxUses,    \* max_uses of the code
  MaxRuns,    \* bound on the times the program is started
  MaxBreaks,  \* bound on the losses of the connection
  MaxBlocks   \* bound on the hellos that meet a block of the address

ASSUME ClientAssumption ==
  /\ NoConn \notin Conn
  /\ MaxUses \in Nat \ {0}
  /\ {MaxRuns, MaxBreaks, MaxBlocks} \subseteq Nat

VARIABLES
  \* the agent program
  python,     \* it is the Python agent
  main,       \* where its main loop is
  shutdown,   \* the channel is closed, or the Event set
  fatalReject,
  retryDelay, \* "long" from a minute on: the lengths of pauses do not matter
  conn,       \* its latest connection
  open,       \* it has not closed it (conn of the SocketIO is not nil)
  reader,     \* where the loop that reads conn is
  hello,      \* agent_hello is still to be sent on conn
  pending,    \* handlers that were started and have not run
  \* the network
  link,       \* conn works
  wire,       \* what the server sent on conn and the agent has not read
  \* the server
  sockets,    \* sockets it believes to be open
  agents,     \* those with a session (_agents, _agent_tokens)
  closing,    \* those that _delayed_disconnect is going to close
  unlimited,  \* the code has unlimited_uses
  in_use, used, use_count, expired,
  blocks,     \* hellos that met a block of the agent's address
  \* history of this run of the program
  begun,      \* sessions it got
  failed,     \* failures it was charged with
  breaks,     \* losses of its connection
  deaf,       \* it was told to quit while it was dialling
  runs, broken \* runs and losses so far

flags   == <<shutdown, fatalReject, retryDelay>>
socket  == <<conn, open, reader, hello>>
net     == <<link, wire>>
program == <<main, flags, socket, pending, python>>
token   == <<unlimited, in_use, used, use_count, expired>>
server  == <<sockets, agents, closing, token, blocks>>
past    == <<begun, failed, breaks, deaf, runs, broken>>
vars    == <<program, net, server, past>>

\* What a rejection says: the code is at work elsewhere; the address is
\* blocked for a short or a long time; the code is no good.
Reason == {"other", "soon", "later", "no good"}

Event == Reason \cup {"kicked"}

TypeOK ==
  /\ python \in BOOLEAN
  /\ main \in {"dial", "wait", "decide", "pause", "ended"}
  /\ shutdown \in BOOLEAN /\ fatalReject \in BOOLEAN
  /\ retryDelay \in {"short", "long"}
  /\ conn \in Conn \cup {NoConn}
  /\ open \in BOOLEAN
  /\ reader \in {"top", "read", "over"}
  /\ hello \in BOOLEAN
  /\ pending \subseteq [of : Conn, event : Event]
  /\ link \in BOOLEAN
  /\ wire \in Seq(Event)
  /\ sockets \subseteq Conn /\ agents \subseteq Conn /\ closing \subseteq Conn
  /\ unlimited \in BOOLEAN /\ in_use \in BOOLEAN /\ used \in BOOLEAN
  /\ use_count \in 0 .. MaxUses
  /\ expired \in BOOLEAN
  /\ blocks \in 0 .. MaxBlocks
  /\ begun \in Nat /\ failed \in Nat /\ breaks \in Nat
  /\ deaf \in BOOLEAN
  /\ runs \in 0 .. MaxRuns /\ broken \in 0 .. MaxBreaks

Init ==
  /\ python \in BOOLEAN
  /\ main = "ended"
  /\ shutdown = FALSE /\ fatalReject = FALSE /\ retryDelay = "short"
  /\ conn = NoConn /\ open = FALSE /\ reader = "over" /\ hello = FALSE
  /\ pending = {}
  /\ link = FALSE /\ wire = <<>>
  /\ sockets = {} /\ agents = {} /\ closing = {}
  /\ unlimited \in BOOLEAN
  /\ in_use = FALSE /\ used = FALSE /\ use_count = 0 /\ expired = FALSE
  /\ blocks = 0
  /\ begun = 0 /\ failed = 0 /\ breaks = 0 /\ deaf = FALSE
  /\ runs = 0 /\ broken = 0

-----------------------------------------------------------------------------
\* Each definition named Wrong... is a plausible slip in the one after it; the
\* specification does not use it.

\* The agent's end of its latest connection is there.
Connected == open /\ reader # "over"

\* The server has a session with the agent, and they can reach each other.
InSession == conn \in agents \ closing /\ Connected /\ link

-----------------------------------------------------------------------------
\* The user.

\* The program is started, and given the code.
StartProgram ==
  /\ main = "ended"
  /\ runs < MaxRuns
  /\ runs' = runs + 1
  /\ main' = "dial"
  /\ UNCHANGED <<python, flags, socket, pending, net, server, begun, failed, breaks,
                 deaf, broken>>

\* The program ends, and the operating system closes its connection.  Nothing of
\* its state is left for the next run.
Exit ==
  /\ main' = "ended"
  /\ shutdown' = FALSE /\ fatalReject' = FALSE /\ retryDelay' = "short"
  /\ conn' = NoConn /\ open' = FALSE /\ reader' = "over" /\ hello' = FALSE
  /\ pending' = {}
  /\ link' = FALSE /\ wire' = <<>>
  /\ begun' = 0 /\ failed' = 0 /\ breaks' = 0 /\ deaf' = FALSE
  /\ UNCHANGED <<python, server, runs, broken>>

\* The connection stays open, and the reader with it.
WrongInterrupt ==
  /\ main # "ended"
  /\ ~shutdown
  /\ shutdown' = TRUE
  /\ deaf' = (main = "dial")
  /\ UNCHANGED <<python, main, fatalReject, retryDelay, socket, pending,
                 net, server, begun, failed, breaks, runs, broken>>

\* Control-C.  The handler closes the connection, if there is one.
Interrupt ==
  /\ main # "ended"
  /\ ~shutdown
  /\ shutdown' = TRUE
  /\ open' = FALSE
  /\ deaf' = (main = "dial")
  /\ UNCHANGED <<python, main, fatalReject, retryDelay, conn, reader, hello, pending,
                 net, server, begun, failed, breaks, runs, broken>>

-----------------------------------------------------------------------------
\* The main loop.

\* Ids that nothing refers to.
Fresh == Conn \ (sockets \cup closing \cup {conn} \cup {h.of : h \in pending})

\* The server can be reached.  Which of the fresh ids the connection gets makes
\* no difference.
DialSucceeds ==
  /\ main = "dial"
  /\ Fresh # {}
  /\ main' = "wait"
  /\ conn' = CHOOSE c \in Fresh : TRUE
  /\ open' = TRUE /\ reader' = "top" /\ hello' = TRUE
  /\ link' = TRUE /\ wire' = <<>>
  /\ sockets' = sockets \cup {conn'}
  /\ UNCHANGED <<python, flags, pending, agents, closing, token, blocks, past>>

DialFails ==
  /\ main = "dial"
  /\ main' = "pause"
  /\ UNCHANGED <<python, flags, socket, pending, net, server, past>>

\* The loop looks at its connection again: Wait returns when the reader is
\* over; the Python agent also looks whether it is to quit.
ConnectionEnds ==
  /\ main = "wait"
  /\ reader = "over" \/ (python /\ shutdown)
  /\ main' = "decide"
  /\ UNCHANGED <<python, flags, socket, pending, net, server, past>>

\* The program goes on.
Resume ==
  /\ main' = IF python THEN "dial" ELSE "pause"
  /\ retryDelay' = "short"
  /\ UNCHANGED <<python, shutdown, fatalReject, socket, pending, net, server, past>>

\* Whether to go on.  The Python agent knows no pause.
Decide ==
  /\ main = "decide"
  /\ IF shutdown \/ fatalReject \/ retryDelay = "long" THEN Exit ELSE Resume

\* Three or five seconds are over, or the program is to quit.  They are long for
\* a goroutine that can run: all handlers have.
PauseEnds ==
  /\ main = "pause"
  /\ pending = {}
  /\ IF shutdown THEN Exit
     ELSE main' = "dial" /\ UNCHANGED <<python, flags, socket, pending, net, server, past>>

-----------------------------------------------------------------------------
\* The loop that reads the socket.

\* It goes round.  Without a connection the Go agent crashes here: Disconnect
\* has set the pointer to nil.
ReadAgain ==
  /\ main # "ended"
  /\ reader = "top"
  /\ IF ~open /\ ~python THEN Exit
     ELSE /\ reader' = "read"
          /\ UNCHANGED <<python, main, flags, conn, open, hello, pending, net, server, past>>

\* A message comes in, and its handler is started.
ReadMessage ==
  /\ main # "ended"
  /\ reader = "read"
  /\ open /\ link
  /\ wire # <<>>
  /\ wire' = Tail(wire)
  /\ pending' = pending \cup {[of |-> conn, event |-> Head(wire)]}
  /\ reader' = "top"
  /\ UNCHANGED <<python, main, flags, conn, open, hello, link, server, past>>

\* The connection was closed here, or by the server, or the keep-alive of the
\* operating system found it dead.
ReadFails ==
  /\ main # "ended"
  /\ reader = "read"
  /\ ~open \/ ~link \/ (conn \notin sockets /\ wire = <<>>)
  /\ reader' = "over"
  /\ UNCHANGED <<python, main, flags, conn, open, hello, pending, net, server, past>>

\* The reason is not among those that are final.
WrongObeys(reason) ==
  /\ shutdown' = (shutdown \/ python)
  /\ retryDelay' = IF reason = "later" THEN "long" ELSE retryDelay
  /\ UNCHANGED fatalReject

\* What the handler of a rejection does to the flags: the Python agent ends,
\* whatever the reason.
Obeys(reason) ==
  /\ shutdown' = (shutdown \/ python \/ reason = "no good")
  /\ fatalReject' = (fatalReject \/ (~python /\ reason = "no good"))
  /\ retryDelay' = CASE python \/ reason = "no good" -> retryDelay
                     [] reason = "later" -> "long"
                     [] OTHER -> "short"

\* agent_rejected, agent_kicked.  The Go agent closes the connection the event
\* came on.
HandlerRuns(h) ==
  /\ main # "ended"
  /\ h \in pending
  /\ pending' = pending \ {h}
  /\ IF h.event = "kicked"
     THEN shutdown' = TRUE /\ UNCHANGED <<fatalReject, retryDelay>>
     ELSE Obeys(h.event)
  /\ open' = (open /\ (python \/ h.of # conn))
  /\ UNCHANGED <<python, main, conn, reader, hello, net, server, past>>

-----------------------------------------------------------------------------
\* The server.

\* What it sends to a socket arrives on the agent's latest connection only.
Send(c, event) == wire' = IF c = conn /\ link THEN Append(wire, event) ELSE wire

\* _burn_token
BurnToken ==
  IF in_use /\ ~used
  THEN /\ in_use' = FALSE
       /\ use_count' = IF unlimited THEN use_count ELSE use_count + 1
       /\ used' = (~unlimited /\ use_count' >= MaxUses)
  ELSE UNCHANGED <<in_use, use_count, used>>

\* Another socket has a session on the code.
AtWork == in_use /\ agents # {}

\* agent_hello arrives.
CanGreet == main # "ended" /\ hello /\ Connected /\ link /\ conn \in sockets

\* agent_hello is turned down, in the order of the checks: the address is blocked,
\* which others behind it can bring about at any time (FailureLimit); the code is
\* used up, at work, or out of date.  The address is charged with it if the code
\* is no good.
HelloRejected ==
  \E reason \in Reason :
    /\ CanGreet
    /\ \/ blocks < MaxBlocks /\ reason \in {"soon", "later"}
       \/ used /\ reason = "no good"
       \/ ~used /\ AtWork /\ reason = "other"
       \/ ~used /\ ~AtWork /\ expired /\ reason = "no good"
    /\ blocks' = IF reason \in {"soon", "later"} THEN blocks + 1 ELSE blocks
    /\ hello' = FALSE
    /\ Send(conn, reason)
    /\ closing' = closing \cup {conn}
    /\ failed' = IF reason = "no good" THEN failed + 1 ELSE failed
    /\ in_use' = (in_use /\ reason # "no good")
    /\ UNCHANGED <<python, main, flags, conn, open, reader, pending, link, sockets, agents,
                   unlimited, used, use_count, expired,
                   begun, breaks, deaf, runs, broken>>

\* agent_hello starts a session.
HelloAccepted ==
  /\ CanGreet
  /\ ~used /\ ~AtWork /\ ~expired
  /\ hello' = FALSE
  /\ agents' = agents \cup {conn}
  /\ in_use' = TRUE
  /\ begun' = begun + 1
  /\ UNCHANGED <<python, main, flags, conn, open, reader, pending, net, sockets, closing,
                 unlimited, used, use_count, expired, blocks,
                 failed, breaks, deaf, runs, broken>>

\* The kick by the administrator, or the end of the session's time.
Expel(c) ==
  /\ c \in agents \ closing
  /\ Send(c, "kicked")
  /\ BurnToken
  /\ closing' = closing \cup {c}
  /\ UNCHANGED <<program, link, sockets, agents, unlimited, expired, blocks, past>>

\* The table of agents keeps the one that has gone.
WrongSocketCloses(c) ==
  /\ sockets' = sockets \ {c}
  /\ closing' = closing \ {c}
  /\ UNCHANGED <<agents, in_use, used, use_count>>

\* The server's end of a socket goes, and on_disconnect runs.
SocketCloses(c) ==
  /\ sockets' = sockets \ {c}
  /\ closing' = closing \ {c}
  /\ agents' = agents \ {c}
  /\ IF c \in agents THEN BurnToken ELSE UNCHANGED <<in_use, used, use_count>>

\* _delayed_disconnect
DelayedDisconnect(c) ==
  /\ c \in closing
  /\ SocketCloses(c)
  /\ UNCHANGED <<program, net, unlimited, expired, blocks, past>>

\* The agent closed the socket, or did not answer pings for two minutes.
AgentGone(c) ==
  /\ c \in sockets
  /\ c # conn \/ ~Connected \/ ~link \/ main = "ended"
  /\ SocketCloses(c)
  /\ UNCHANGED <<program, net, unlimited, expired, blocks, past>>

-----------------------------------------------------------------------------
\* The surroundings.

LoseConnection ==
  /\ broken' = broken + 1
  /\ breaks' = breaks + 1
  /\ link' = FALSE
  /\ wire' = <<>>

\* The network fails for a moment.  Neither end knows.
LinkBreaks ==
  /\ main # "ended" /\ link
  /\ broken < MaxBreaks
  /\ LoseConnection
  /\ UNCHANGED <<program, server, begun, failed, deaf, runs>>

\* Sockets and sessions are gone, and _reset_in_use_on_start drops the lock.
ServerRestarts ==
  /\ broken < MaxBreaks
  /\ LoseConnection
  /\ sockets' = {} /\ agents' = {} /\ closing' = {}
  /\ in_use' = FALSE
  /\ UNCHANGED <<program, unlimited, used, use_count, expired, blocks, begun, failed, deaf, runs>>

\* The date of the code passes.
ExpiryPasses ==
  /\ ~expired
  /\ expired' = TRUE
  /\ UNCHANGED <<program, net, sockets, agents, closing, unlimited, in_use, used, use_count,
                 blocks, past>>

-----------------------------------------------------------------------------
MainLoop == ConnectionEnds \/ Decide \/ PauseEnds

Reader == ReadAgain \/ ReadMessage \/ ReadFails

Greeting == HelloRejected \/ HelloAccepted

Next ==
  \/ StartProgram \/ Interrupt
  \/ DialSucceeds \/ DialFails \/ MainLoop \/ Reader \/ Greeting
  \/ \E h \in pending : HandlerRuns(h)
  \/ \E c \in Conn : Expel(c) \/ DelayedDisconnect(c) \/ AgentGone(c)
  \/ LinkBreaks \/ ServerRestarts \/ ExpiryPasses

\* Goroutines and green threads run, a message arrives or the connection is
\* found dead, and so does the server find a dead socket.  Of all attempts to
\* reach the server some succeed.
Fairness ==
  /\ WF_vars(MainLoop) /\ WF_vars(Reader) /\ WF_vars(Greeting)
  /\ SF_vars(DialSucceeds)
  /\ WF_vars(\E h \in pending : HandlerRuns(h))
  /\ \A c \in Conn : WF_vars(DelayedDisconnect(c)) /\ WF_vars(AgentGone(c))

Spec == Init /\ [][Next]_vars

FairSpec == Spec /\ Fairness

-----------------------------------------------------------------------------
\* Left alone, the Go agent does no harm by trying again: in one run of the
\* program the server gives it a session or charges its address with a failure
\* once, and once more for each loss of the connection.  Whatever it is told for
\* good, by a rejection or a kick, ends the program before it dials again, even
\* if the connection is gone before the handler has run: so it neither spends
\* the uses of the code nor blocks the address of others.  (The Python agent
\* dials at once and may overtake its own handler.)
RetriesAreHarmless == python \/ begun + failed <= 1 + breaks

\* An agent whose connection is lost, or whose code the server still believes to
\* be at work elsewhere because of that, gets a session again or ends.
SessionBackOrEnds == []<>(InSession \/ main = "ended")

\* A program that is told to quit ends, unless it is the Go agent and was told
\* while it was dialling: then Disconnect finds no connection, and Wait does not
\* look at the channel.
QuitsWhenTold == shutdown /\ (python \/ ~deaf) ~> main = "ended"

\* What the program prints and does not keep: "Signal received.  Ending..."
\* (main.go:53).  A program that is told to quit ends.
SignalEnds == shutdown ~> main = "ended"
=============================================================================
