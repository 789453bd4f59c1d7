----------------------------- MODULE RemoteControl -----------------------------
(***************************************************************************)
(* Remote control: an operator at a command line (remote_control.py) takes *)
(* over the terminal of a browser (app.js) through the server (server.py). *)
(* The operator's program names an access code and waits; a browser paired *)
(* with an agent on that code asks for control, the server picks a free    *)
(* operator, and the operator accepts or declines.                         *)
(*                                                                         *)
(* A handler of the server is one action.  What the server sends travels   *)
(* in order and arrives later; what a client sends is handled in the       *)
(* client's own action, since a client cannot see a difference between its *)
(* message being slow and its next event being late.                       *)
(*                                                                         *)
(* Agents and their sessions, which RelaySessions models, appear as the    *)
(* set of codes that have one and the code each browser is paired on.  As  *)
(* there, Browser and Controller are pools of socket ids, used again only  *)
(* when the server has forgotten them.                                     *)
(***************************************************************************)
EXTENDS Naturals, Sequences

CONSTANTS
  Browser,      \* session ids of browser sockets
  Controller,   \* session ids of operators' sockets
  Code,         \* access codes
  NoBrowser, NoController, NoCode,
  MaxLag        \* clients make no new request beyond this many messages behind

ASSUME SidAssumption ==
  /\ Browser \cap Controller = {}
  /\ NoBrowser \notin Browser
  /\ NoController \notin Controller
  /\ NoCode \notin Code
  /\ MaxLag \in Nat \ {0}

VARIABLES
  agents,              \* codes with an agent
  paired_code,         \* browser -> code of the agent it is paired with
  online,              \* ids with an open socket
  \* the server
  watching,            \* _ctrl_watching_code, and _controllers: its domain
  controller_browser,  \* _controller_browser
  browser_controller,  \* _browser_controller
  rc_active,           \* _rc_active
  closing,             \* operators that a _delayed_disconnect will close
  \* the operator's program
  cli,                 \* where its main thread is
  request,             \* operators whose _request_event is set
  session_active,      \* operators whose _session_active is true
  to_ctrl,             \* messages on their way to it
  \* the browser's page
  ui,                  \* what it shows: _rcActive and _rcRequestTimer
  to_browser           \* messages on their way to it

relay   == <<agents, paired_code>>
partners == <<controller_browser, browser_controller, rc_active>>
server  == <<watching, partners, closing>>
program == <<cli, request, session_active>>
vars    == <<relay, online, server, program, to_ctrl, ui, to_browser>>

\* off: not running; hello: waits for the server's answer; looping: about to
\* clear _request_event; waiting: for a request; asking: the operator whether to
\* accept; busy: waits for the device's data or a result; prompt: for a command.
CliState == {"off", "hello", "looping", "waiting", "asking", "busy", "prompt"}

CtrlMessage    == {"ready", "error", "request", "ended"}
BrowserMessage == {"active", "inactive", "cmd"}

TypeOK ==
  /\ agents \subseteq Code
  /\ paired_code \in [Browser -> Code \cup {NoCode}]
  /\ online \subseteq Browser \cup Controller
  /\ watching \in [Controller -> Code \cup {NoCode}]
  /\ controller_browser \in [Controller -> Browser \cup {NoBrowser}]
  /\ browser_controller \in [Browser -> Controller \cup {NoController}]
  /\ rc_active \subseteq Browser
  /\ closing \subseteq Controller
  /\ cli \in [Controller -> CliState]
  /\ request \subseteq Controller
  /\ session_active \subseteq Controller
  /\ to_ctrl \in [Controller -> Seq(CtrlMessage)]
  /\ ui \in [Browser -> {"idle", "requesting", "active"}]
  /\ to_browser \in [Browser -> Seq(BrowserMessage)]

Init ==
  /\ agents = {}
  /\ paired_code = [b \in Browser |-> NoCode]
  /\ online = {}
  /\ watching = [k \in Controller |-> NoCode]
  /\ controller_browser = [k \in Controller |-> NoBrowser]
  /\ browser_controller = [b \in Browser |-> NoController]
  /\ rc_active = {}
  /\ closing = {}
  /\ cli = [k \in Controller |-> "off"]
  /\ request = {}
  /\ session_active = {}
  /\ to_ctrl = [k \in Controller |-> <<>>]
  /\ ui = [b \in Browser |-> "idle"]
  /\ to_browser = [b \in Browser |-> <<>>]

-----------------------------------------------------------------------------
\* Steps shared by the handlers.

TellCtrl(k, m)    == to_ctrl' = [to_ctrl EXCEPT ![k] = Append(@, m)]
TellBrowser(b, m) == to_browser' = [to_browser EXCEPT ![b] = Append(@, m)]

\* Operator k loses the browser it has, which is told.
ReleaseBrowser(k) ==
  \/ \E b \in Browser :
       /\ controller_browser[k] = b
       /\ controller_browser' = [controller_browser EXCEPT ![k] = NoBrowser]
       /\ browser_controller' = [browser_controller EXCEPT ![b] = NoController]
       /\ rc_active' = rc_active \ {b}
       /\ TellBrowser(b, "inactive")
  \/ controller_browser[k] = NoBrowser /\ UNCHANGED <<partners, to_browser>>

\* Browser b loses the operator it has, which is told.
ReleaseController(b) ==
  /\ \/ \E k \in Controller :
          /\ browser_controller[b] = k
          /\ browser_controller' = [browser_controller EXCEPT ![b] = NoController]
          /\ controller_browser' = [controller_browser EXCEPT ![k] = NoBrowser]
          /\ TellCtrl(k, "ended")
     \/ /\ browser_controller[b] = NoController
        /\ UNCHANGED <<browser_controller, controller_browser, to_ctrl>>
  /\ rc_active' = rc_active \ {b}

\* The operator's socket closes: on_disconnect, and the program ends.
DropController(k) ==
  /\ ReleaseBrowser(k)
  /\ watching' = [watching EXCEPT ![k] = NoCode]
  /\ online' = online \ {k}
  /\ cli' = [cli EXCEPT ![k] = "off"]
  /\ request' = request \ {k}
  /\ session_active' = session_active \ {k}
  /\ to_ctrl' = [to_ctrl EXCEPT ![k] = <<>>]

-----------------------------------------------------------------------------
\* Agents and pairings, as far as remote control can see them.

AgentStarts(c) ==
  /\ c \notin agents
  /\ agents' = agents \cup {c}
  /\ UNCHANGED <<paired_code, online, server, program, to_ctrl, ui, to_browser>>

\* The session on c ends and its browsers are unpaired; nothing is done about
\* remote control.
AgentEnds(c) ==
  /\ c \in agents
  /\ agents' = agents \ {c}
  /\ paired_code' = [b \in Browser |->
       IF paired_code[b] = c THEN NoCode ELSE paired_code[b]]
  /\ UNCHANGED <<online, server, program, to_ctrl, ui, to_browser>>

BrowserPairs(b, c) ==
  /\ b \in online
  /\ paired_code[b] = NoCode
  /\ c \in agents
  /\ paired_code' = [paired_code EXCEPT ![b] = c]
  /\ UNCHANGED <<agents, online, server, program, to_ctrl, ui, to_browser>>

-----------------------------------------------------------------------------
\* The browser.

\* browser_hello answers nothing about remote control.
WrongBrowserConnect(b) ==
  /\ b \notin online
  /\ online' = online \cup {b}
  /\ UNCHANGED <<relay, server, program, to_ctrl, ui, to_browser>>

\* The page connects, for the first time or again with what it showed before,
\* and browser_hello answers that no remote control is active.
BrowserConnect(b) ==
  /\ b \notin online
  /\ online' = online \cup {b}
  /\ TellBrowser(b, "inactive")
  /\ UNCHANGED <<relay, server, program, to_ctrl, ui>>

\* on_disconnect for a browser's socket.
BrowserDisconnect(b) ==
  /\ b \in online
  /\ online' = online \ {b}
  /\ paired_code' = [paired_code EXCEPT ![b] = NoCode]
  /\ ReleaseController(b)
  /\ to_browser' = [to_browser EXCEPT ![b] = <<>>]
  /\ UNCHANGED <<agents, watching, closing, program, ui>>

\* remote_control_request is turned down.
RequestRefused(b) ==
  /\ \/ browser_controller[b] # NoController
     \/ b \in rc_active
     \/ paired_code[b] = NoCode
     \/ \A k \in Controller :
          watching[k] = paired_code[b] => controller_browser[k] # NoBrowser
  /\ TellBrowser(b, "inactive")
  /\ UNCHANGED <<partners, to_ctrl>>

\* remote_control_request finds a free operator on the browser's code.
RequestGranted(b) ==
  \E k \in Controller :
    /\ browser_controller[b] = NoController
    /\ b \notin rc_active
    /\ paired_code[b] # NoCode
    /\ watching[k] = paired_code[b]
    /\ controller_browser[k] = NoBrowser
    /\ Len(to_ctrl[k]) < MaxLag
    /\ controller_browser' = [controller_browser EXCEPT ![k] = b]
    /\ browser_controller' = [browser_controller EXCEPT ![b] = k]
    /\ TellCtrl(k, "request")
    /\ UNCHANGED <<rc_active, to_browser>>

\* rcRequest: the user's click, and its repetition every five seconds.
RequestControl(b) ==
  /\ b \in online
  /\ ui[b] # "active"
  /\ Len(to_browser[b]) < MaxLag
  /\ ui' = [ui EXCEPT ![b] = "requesting"]
  /\ RequestRefused(b) \/ RequestGranted(b)
  /\ UNCHANGED <<relay, online, watching, closing, program>>

\* rcStopRequest tells the server nothing.
StopRequest(b) ==
  /\ b \in online
  /\ ui[b] = "requesting"
  /\ ui' = [ui EXCEPT ![b] = "idle"]
  /\ UNCHANGED <<relay, online, server, program, to_ctrl, to_browser>>

\* remote_control_end, from the button shown while control is active.
BrowserEndsControl(b) ==
  /\ b \in online
  /\ ui[b] = "active"
  /\ Len(to_browser[b]) < MaxLag
  /\ ReleaseController(b)
  /\ TellBrowser(b, "inactive")
  /\ UNCHANGED <<relay, online, watching, closing, program, ui>>

\* The next message reaches the page.  A command is run whatever the page shows.
BrowserReceives(b) ==
  /\ b \in online
  /\ to_browser[b] # <<>>
  /\ to_browser' = [to_browser EXCEPT ![b] = Tail(@)]
  /\ ui' = [ui EXCEPT ![b] =
       CASE Head(to_browser[b]) = "active"   -> "active"
         [] Head(to_browser[b]) = "inactive" -> "idle"
         [] OTHER -> @]
  /\ UNCHANGED <<relay, online, server, program, to_ctrl>>

-----------------------------------------------------------------------------
\* The operator.

\* The program starts, connects and names a code: controller_hello.  It is turned
\* away where no agent serves the code, or if its address is blocked (Attempts).
ControllerStarts(k, c) ==
  /\ k \notin online \cup closing
  /\ online' = online \cup {k}
  /\ cli' = [cli EXCEPT ![k] = "hello"]
  /\ \/ /\ c \in agents
        /\ watching' = [watching EXCEPT ![k] = c]
        /\ TellCtrl(k, "ready")
        /\ UNCHANGED closing
     \/ /\ closing' = closing \cup {k}
        /\ TellCtrl(k, "error")
        /\ UNCHANGED watching
  /\ UNCHANGED <<relay, partners, request, session_active, ui, to_browser>>

\* The next message reaches the program's socket thread.  An error ends the
\* program only while it waits for the answer to its hello.
ControllerReceives(k) ==
  /\ k \in online
  /\ to_ctrl[k] # <<>>
  /\ LET m == Head(to_ctrl[k]) IN
     \/ /\ m = "error" /\ cli[k] = "hello"
        /\ DropController(k)
     \/ /\ ~(m = "error" /\ cli[k] = "hello")
        /\ to_ctrl' = [to_ctrl EXCEPT ![k] = Tail(@)]
        /\ cli' = IF m = "ready" THEN [cli EXCEPT ![k] = "looping"] ELSE cli
        /\ request' = IF m = "request" THEN request \cup {k} ELSE request
        /\ session_active' = IF m = "ended" THEN session_active \ {k}
                             ELSE session_active
        /\ UNCHANGED <<online, watching, partners, to_browser>>
  /\ UNCHANGED <<relay, closing, ui>>

\* The top of the loop in run(): _request_event.clear().
LoopTop(k) ==
  /\ cli[k] = "looping"
  /\ cli' = [cli EXCEPT ![k] = "waiting"]
  /\ request' = request \ {k}
  /\ UNCHANGED <<relay, online, server, session_active, to_ctrl, ui, to_browser>>

\* The wait ends, and the operator is asked.
RequestNoticed(k) ==
  /\ cli[k] = "waiting"
  /\ k \in request
  /\ cli' = [cli EXCEPT ![k] = "asking"]
  /\ UNCHANGED <<relay, online, server, request, session_active, to_ctrl, ui, to_browser>>

\* Anything but "y": the server is not told.
OperatorDeclines(k) ==
  /\ cli[k] = "asking"
  /\ cli' = [cli EXCEPT ![k] = "looping"]
  /\ UNCHANGED <<relay, online, server, request, session_active, to_ctrl, ui, to_browser>>

\* The browser is not told that the operator has taken over.
WrongOperatorAccepts(k) ==
  /\ cli[k] = "asking"
  /\ cli' = [cli EXCEPT ![k] = "busy"]
  /\ session_active' = session_active \cup {k}
  /\ rc_active' = rc_active \cup ({controller_browser[k]} \cap Browser)
  /\ UNCHANGED <<relay, online, watching, controller_browser, browser_controller,
                 closing, request, to_ctrl, ui, to_browser>>

\* "y": controller_accept activates the browser the server has for the operator
\* now, if any; if that browser is active already, the server breaks the pair
\* and closes the operator's socket.
OperatorAccepts(k) ==
  /\ cli[k] = "asking"
  /\ cli' = [cli EXCEPT ![k] = "busy"]
  /\ session_active' = session_active \cup {k}
  /\ \/ /\ controller_browser[k] = NoBrowser
        /\ UNCHANGED <<partners, closing, to_ctrl, to_browser>>
     \/ \E b \in Browser \cap rc_active :
          /\ controller_browser[k] = b
          /\ controller_browser' = [controller_browser EXCEPT ![k] = NoBrowser]
          /\ browser_controller' = [browser_controller EXCEPT ![b] = NoController]
          /\ closing' = closing \cup {k}
          /\ TellCtrl(k, "error")
          /\ UNCHANGED <<rc_active, to_browser>>
     \/ \E b \in Browser \ rc_active :
          /\ controller_browser[k] = b
          /\ rc_active' = rc_active \cup {b}
          /\ TellBrowser(b, "active")
          /\ UNCHANGED <<controller_browser, browser_controller, closing, to_ctrl>>
  /\ UNCHANGED <<relay, online, watching, request, ui>>

\* The wait for the device's data or for a result ends, with it or by timeout,
\* and the loop looks at _session_active.
WaitEnds(k) ==
  /\ cli[k] = "busy"
  /\ cli' = [cli EXCEPT ![k] = IF k \in session_active THEN "prompt" ELSE "looping"]
  /\ UNCHANGED <<relay, online, server, request, session_active, to_ctrl, ui, to_browser>>

\* A command line.  input() was waiting for it all along: _session_active is not
\* looked at again.  controller_cmd forwards it to the operator's browser.
OperatorCommands(k) ==
  /\ cli[k] = "prompt"
  /\ cli' = [cli EXCEPT ![k] = "busy"]
  /\ \/ \E b \in Browser :
          /\ controller_browser[k] = b
          /\ Len(to_browser[b]) < MaxLag
          /\ TellBrowser(b, "cmd")
     \/ controller_browser[k] = NoBrowser /\ UNCHANGED to_browser
  /\ UNCHANGED <<relay, online, server, request, session_active, to_ctrl, ui>>

\* An empty line only makes the loop look at _session_active.
EmptyLine(k) ==
  /\ cli[k] = "prompt"
  /\ k \notin session_active
  /\ cli' = [cli EXCEPT ![k] = "looping"]
  /\ UNCHANGED <<relay, online, server, request, session_active, to_ctrl, ui, to_browser>>

\* The browser stays among the active ones.
WrongOperatorExits(k) ==
  /\ cli[k] = "prompt"
  /\ cli' = [cli EXCEPT ![k] = "looping"]
  /\ session_active' = session_active \ {k}
  /\ controller_browser' = [controller_browser EXCEPT ![k] = NoBrowser]
  /\ rc_active' = rc_active \ {controller_browser[k]}
  /\ UNCHANGED <<relay, online, watching, browser_controller, closing, request,
                 to_ctrl, ui, to_browser>>

\* ".exit": controller_end.
OperatorExits(k) ==
  /\ cli[k] = "prompt"
  /\ cli' = [cli EXCEPT ![k] = "looping"]
  /\ session_active' = session_active \ {k}
  /\ ReleaseBrowser(k)
  /\ UNCHANGED <<relay, online, watching, closing, request, to_ctrl, ui>>

\* The program is left, is killed, or loses its connection.
ControllerLeaves(k) ==
  /\ k \in online
  /\ DropController(k)
  /\ UNCHANGED <<relay, closing, ui>>

\* _delayed_disconnect after its half second.
DelayedDisconnect(k) ==
  /\ k \in closing
  /\ closing' = closing \ {k}
  /\ \/ k \in online /\ DropController(k)
     \/ k \notin online /\ UNCHANGED <<online, watching, partners, program,
                                       to_ctrl, to_browser>>
  /\ UNCHANGED <<relay, ui>>

-----------------------------------------------------------------------------
BrowserStep(b) ==
  \/ BrowserConnect(b)
  \/ BrowserDisconnect(b)
  \/ \E c \in Code : BrowserPairs(b, c)
  \/ RequestControl(b)
  \/ StopRequest(b)
  \/ BrowserEndsControl(b)
  \/ BrowserReceives(b)

ControllerStep(k) ==
  \/ \E c \in Code : ControllerStarts(k, c)
  \/ ControllerReceives(k)
  \/ LoopTop(k)
  \/ RequestNoticed(k)
  \/ OperatorDeclines(k)
  \/ OperatorAccepts(k)
  \/ WaitEnds(k)
  \/ OperatorCommands(k)
  \/ EmptyLine(k)
  \/ OperatorExits(k)
  \/ ControllerLeaves(k)
  \/ DelayedDisconnect(k)

Next ==
  \/ \E c \in Code : AgentStarts(c) \/ AgentEnds(c)
  \/ \E b \in Browser : BrowserStep(b)
  \/ \E k \in Controller : ControllerStep(k)

Spec == Init /\ [][Next]_vars

\* A message sent to a page that stays connected arrives.
Fairness == \A b \in Browser : WF_vars(BrowserReceives(b))

FairSpec == Spec /\ Fairness

-----------------------------------------------------------------------------
\* Properties.

\* The two tables that pair operators and browsers are each other's inverse: six
\* handlers delete from both.
PairsAreInverse ==
  \A k \in Controller, b \in Browser :
    controller_browser[k] = b <=> browser_controller[b] = k

\* Only what is connected is paired, watched or active, so a socket that closes,
\* whichever side it is on, frees its partner for the next request.
PairsAreConnected ==
  /\ \A k \in Controller :
       /\ controller_browser[k] # NoBrowser => watching[k] # NoCode
       /\ watching[k] # NoCode => k \in online
  /\ \A b \in Browser :
       b \in rc_active \/ browser_controller[b] # NoController => b \in online

\* The two pairing tables are sound: each is the other's inverse, and both ends of
\* a pair are connected, whichever of them left last.
PairsAreSound == PairsAreInverse /\ PairsAreConnected

\* Once its messages are in, a page that shows remote control as active is right:
\* no user goes on watching an operator who has gone.
NoStaleActive ==
  \A b \in Browser \cap online :
    to_browser[b] = <<>> /\ ui[b] = "active" => b \in rc_active

\* A page learns that its control was taken over, unless it ends before.
ActivationIsShown ==
  \A b \in Browser : b \in rc_active ~> ui[b] = "active" \/ b \notin rc_active

-----------------------------------------------------------------------------
\* What the code's comments and messages say and the code does not keep.

\* "Enter an access code and you are connected to that agent's session"
\* (remote_control.py:4): the operator's commands go to an agent on that code.
ControlStaysOnCode ==
  \A b \in rc_active : browser_controller[b] # NoController =>
    paired_code[b] \in {NoCode, watching[browser_controller[b]]}

\* "Waiting for a remote control request" (remote_control.py:144): an operator
\* whose program says so, and for whom nothing is on its way, can be given one.
WaitingIsFree ==
  \A k \in Controller :
    cli[k] = "waiting" /\ k \notin request /\ to_ctrl[k] = <<>>
      => controller_browser[k] = NoBrowser

\* "Turned down if another remote control has activated the browser session"
\* (server.py:896): an operator who is turned down is not the one in control.
RefusalIsForOthers ==
  \A k \in Controller :
    cli[k] = "asking" /\ controller_browser[k] \in rc_active =>
      \E other \in Controller \ {k} : controller_browser[other] = controller_browser[k]

\* _rc_active holds "the browsers whose remote control is active" (server.py:120):
\* a command reaches no other browser.
CommandsAreAccepted ==
  [][\A k \in Controller :
       OperatorCommands(k) /\ controller_browser[k] # NoBrowser
         => controller_browser[k] \in rc_active]_vars
=============================================================================
