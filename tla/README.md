# RemoteDiag in TLA+

RemoteDiag lets a support engineer diagnose a router or modem that is plugged
into a customer's computer.  An **agent** on that computer (a Go program; an
older one is in Python) connects to a **server** (`server.py`, Flask-SocketIO on
eventlet) with an access code.  The engineer's **browser** pairs with the agent
by the same code and sends it commands: list devices, open a serial port, send
AT or shell commands, stream logs, collect and upload log files.  An
**operator** at a command line (`remote_control.py`) can take over the browser's
terminal.  The codes live in `tokens.json`, which `manage_tokens.py` edits.

This directory holds models of these parts in TLA+, configurations that check
them with TLC, and proofs for TLAPS.  Line numbers are those of `src/`.

    tlasany M.tla                       parse
    tlc -workers 2 -config X.cfg M      model-check (module and cfg of a run below)
    tlapm M_proofs.tla                  check the proofs

`PROJECT.json` lists components, runs, hazards, theorems, for each property a
plausible slip in the code that TLC finds with it (`mutants`), and for each
definition the lines it stands for (`map`).

## 1. The system

### 1.1 Server (`server.py`)

One process, one OS thread, cooperative green threads (`eventlet.monkey_patch`).
A Socket.IO handler has no sleep and no blocking call that yields between its
first and last line except `emit`, `disconnect` and file I/O, which do not
change what a second handler reads; so **one handler is one action**.  The
background tasks (`_session_timer`, `_delayed_disconnect`, two clean-up loops)
yield only in `socketio.sleep`; **each stretch between two sleeps is one
action**.

| Part | State | Operations | Who else is involved |
|---|---|---|---|
| Codes | `tokens.json`: `used`, `in_use`, `use_count`, `max_uses`, `unlimited_uses`, `expires_at` | `_load_tokens`, `_save_tokens`, `_burn_token`, `_reset_in_use_on_start`, `_cleanup_orphaned_tokens` | the same file is written by `manage_tokens.py` |
| Agent sessions | `_agents`, `_agent_tokens`, `_agent_allow_multi` | `agent_hello`, `on_disconnect`, `_session_timer`, `_delayed_disconnect`, `api_admin_kick` | codes, pairing |
| Pairing | `_agent_browser`, `_browser_agent`, `_pending_browser` | `browser_hello`, `browser_pair`, `_pair`, `_unpair_agent`, `_unpair_browser` | sessions |
| Failure limit | `_failed_attempts` by address | `_is_blocked`, `_record_failure`, `_record_success`, `_cleanup_failed_attempts` | `agent_hello`, `browser_pair`, `controller_hello` ask it first |
| Remote control | `_controllers`, `_ctrl_watching_code`, `_controller_browser`, `_browser_controller`, `_rc_active` | `controller_hello/accept/cmd/end`, `remote_control_request/end`, both sides of `on_disconnect` | operator's program, browser page |
| Relay | none but the routing tables; `_agent_stream_type` | `on_command`, `on_result`, `on_log_line`, `on_kmsg_line` | agents, browsers |
| Upload | files | `POST /api/log-upload` | agents; the session must still be there |
| HTTP | none | pages, profiles, `/api/admin/*`, agent download | `manage_tokens.py`, `check_connections.py` |

Correct means: one session per code; every session is counted once and at most
`max_uses` are ever counted; no session without an end; the routing tables agree
with each other and with the open sockets; a waiting browser is paired when its
agent comes; guessing is slow but nobody is shut out for good.

### 1.2 Operator's program (`remote_control.py`)

Two threads: the socket thread sets `_request_event`, `_result_event`,
`_session_active`; the main thread (`run`) waits on them and blocks in `input()`.
Correct: it is offered each request made to it, its commands go where the
operator was told they go, and it notices the end of a session.

### 1.3 Browser page (`static/js/app.js`, `index.html`, engines)

Single-threaded JavaScript with `async` functions: what another event handler
does at an `await` is the difficulty.  Socket.IO reconnects by itself, under a new
id.  State: the connection and pairing overlay,
`pending` (commands by id, with a timeout of sixty seconds), selected device and
port, open ports, log streams and their polls, `_rcActive`/`_rcRequestTimer`, and
the engines for diagnosis and device information (profile fetch, dynamic import,
mount).  Correct: what is shown is about the device that is selected, and every
wait ends.

### 1.4 Go agent (`go_agent/`)

`main.go` loops: connect, run until the connection is lost, retry (five seconds,
or `retryDelay` after some rejections; a fatal rejection ends it).  `socketio.go`
reads messages and starts **a goroutine for every event**.  `agent.go` keeps
`accepted`, `fatalReject`, `retryDelay`; `log_stream.go` one `streamProc` with a lock for
each kind of stream;
`serial_port.go` a map of open ports; `upload.go` collects files and posts them;
`srsd.go` speaks a framed binary protocol; `adb.go`, `timesync.go`,
`modem_windows.go` run tools and parse their output.
Correct: one stream per kind and device, no process left that nobody can stop,
one AT exchange at a time on a port, and a retry exactly when the server says so.

The Python agent (`woorinet_remote_diag_agent.py`) does the same with threads: one
for each event, a global variable for each kind of stream, a table of open ports
with a lock, and one Socket.IO client for all its connections.  It ends on any
rejection, and dials again without a pause when a connection was lost.

### 1.5 Administration (`manage_tokens.py`)

Menus that load the file, talk to the administrator for as long as that takes,
and save the whole file.  Kick goes through the server instead.
Correct: what the server counted meanwhile is not undone.

### 1.6 The rest

`manage_users.py`, `manage_rc_tokens.py` (write files this server no longer
reads), `modules/` (not imported), build and deployment scripts, static markup,
the vendored Socket.IO client, and two test scripts that need a running server.

### 1.7 What is hard here

* **Timers that are not cancelled.**  `_session_timer` sleeps for the length of a
  session and then burns *by code*; the session may have ended and another begun.
* **State released before the socket closes.**  Kick and timer burn the code at
  once and close the socket half a second later; rejections do the same.
* **Tables updated by many handlers**: five for sessions and pairing, five for
  remote control, deleted from by six handlers on either side.
* **Restart**: memory and sockets are lost, `tokens.json` is not.
* **Decisions on old information**: an acceptance for a request that has been
  replaced, a command typed after the session ended, a menu saving what it read
  minutes ago, a page acting on a device that is no longer selected.
* **Threads**: two in the operator's program; one per event in the Go agent.
* **Messages late relative to each other**: a browser's reconnection answer, an
  activation and an end travel in one stream; results race timeouts.

Each is listed at its line under `hazards` in `PROJECT.json`, with the
properties that watch it.

## 2. Modules

| Module | Models | Lines of the code |
|---|---|---|
| `RelaySessions` | codes, agent sessions, pairing, timers, kick, clean-up, restart | `server.py` 83-260, 447-524, 563-699, 702-813 |
| `CodeLease` | the abstract promise of a code: leased to one session, counted once, spent | (abstract) |
| `RelaySessions_proofs` | invariants and refinement, and the limiter's properties, proved | |
| `FailureLimit` | the brute-force limiter, over time | `server.py` 48-100 |
| `Attempts` | the limiter beside the sessions: an instance of `FailureLimit` | |
| `RemoteControl` | operator's program (both threads), server tables, page | `server.py` 489-524, 862-1000; `remote_control.py` 44-260; `app.js` 325-425 |
| `Page` | a page's three sides, which share no state: `RemoteControl`, and instances of `UsbPort` and `Engines` | |
| `RemoteControl_proofs` | the safety properties of the three, proved | |
| `LogUpload` | one upload from the page's button to the page's report | `app.js` 84-126, 432-451, 709-785; `server.py` 334-391, 820-850; `upload.go`, `commands.go` 136-160; `woorinet_remote_diag_agent.py` 1050-1171 |
| `LogUpload_proofs` | its types, reports and buttons, proved | |
| `TokenFile` | `tokens.json` shared by server and administration program | `manage_tokens.py`; `server.py` 83-120, 205-260, 563-657 |
| `TokenFile_proofs` | its accounting and its two action properties, proved | |
| `LogStreams` | log streams of the Python agent | `woorinet_remote_diag_agent.py` 45-50, 713-822 |
| `AgentStreams` | the streams of both agents: `LogStreams`, and an instance of `GoStreams` | |
| `LogStreams_proofs` | who can be stopped, and what a command alone does, proved for both agents | |
| `SerialPort` | AT commands over a serial port, Python agent | `woorinet_remote_diag_agent.py` 42-45, 590-708 |
| `Modem` | what an agent sends to a modem: `SerialPort`, and instances of `Srsd` and `SrsdCrc` | |
| `SerialPort_proofs` | whose lines a response holds, what a request returns, and the checksum, proved | |
| `AgentClient` | an agent's connection: main loop, reader, handlers, retries | `main.go`, `agent.go`, `socketio.go`; `woorinet_remote_diag_agent.py` 1176-1224; `server.py` |
| `AgentClient_proofs` | what retries may cost, proved | |
| `CommandRelay` | commands, results, logout and the page's view of the agent | `app.js` 72-150, 205-259, 432-451; `server.py` 442-464, 509-559, 667-691, 753-849 |
| `CommandRelay_proofs` | its safety properties, proved | |
| `GoStreams` | log streams of the Go agent | `log_stream.go`; `socketio.go` 179-196 |
| `UsbPort` | the page's ports, their USB modes and the adb device | `app.js` 3-10, 221-252, 444-450, 523-627, 907-1097 |
| `Engines` | the page's tabs, the reading of attributes, and the engines | `app.js` 485-604, 1077-1090, 1271-1279; `diag/engine.js` and `devinfo/engine.js` 25-83 |
| `Srsd` | a request over UDP, its answer in packets, and the parsing | `woorinet_remote_diag_agent.py` 884-980; `srsd.go` 89-111 |
| `SrsdCrc` | the checksum of a frame, beside its definition | `woorinet_remote_diag_agent.py` 868-894; `srsd.go` 40-49 |
| `MC...` | symmetry and constant values for TLC; which modules share a run | |

Definitions named `Wrong...` (or after the slip they contain: `CountingBurnToken`,
`LeavingAdmitWaiting`) are not used by any specification.  Each stands for a plausible bug, next to the
definition it would replace; replacing it makes TLC find the named property
violated.

### 2.1 RelaySessions

Variables carry the names of the code's tables without the underscore.
`tokens.json` is three variables (`used`, `in_use`, `use_count`); `_agents` is the
domain of `_agent_tokens` (`Live`), as the code writes and deletes the two
together; the sleeping tasks are `session_timer` (agent -> the code it will burn)
and `closing` (ids that a `_delayed_disconnect`, or the end of a session timer,
will close).

| Action | Code |
|---|---|
| `AgentConnect`, `BrowserConnect` | `on_connect`; `browser_hello` |
| `AgentHelloUnknown`, `AgentHelloRejected`, `AgentHelloAccepted` | the paths of `on_agent_hello` |
| `AgentDisconnect`, `BrowserDisconnect` | `on_disconnect` |
| `DelayedDisconnect`, `SessionTimer` | the tasks after their sleep |
| `BrowserWait`, `BrowserPair` | `on_browser_pair` after its checks |
| `AdminKick`, `AdminRevoke`, `AdminUnlock` | `api_admin_kick`; `menu_revoke`, `menu_unlock` |
| `CleanupOrphanedTokens` | one round of the loop |
| `ExpiryPasses`, `ServerRestart` | the calendar; the process |

`_burn_token` is `BurnToken`, conjoined into each action whose handler calls it.

A socket id is used for one connection.  `Agent` and `Browser` are **pools**: an id
may be used again once nothing in the server refers to it (`UnknownAgent`,
`UnknownBrowser`), when it cannot be told from a fresh one.  So two ids stand for
any number of connections in sequence, and for two at a time.

Expiry is a one-way set (the date passes), not a clock; the length of a session
and the half second of a delayed disconnect are not timed: a task may wake at any
moment, which covers every choice of durations (`max_hours` and the administrator's
timing).  Here a handler's load and save are one step, and the administration
program's are too; `TokenFile` takes them apart, and has the menus that create,
delete and purge codes.

### 2.2 CodeLease

What a code is worth without the server: `free`, `leased`, `spent`, with a count
of leases that ended and were counted.  `RelaySessions` implements it under
`LeaseOf`: used is spent, in use (and not used) is leased.  The refinement says
that the four parties that may end the same session (disconnect, timer, kick,
clean-up) count it once between them, and that nothing but an operator, the
clean-up or a restart gives a lease back uncounted.  What it does *not* say is that
the lease belongs to the session whose end is counted; that is the point of the
finding.

### 2.3 FailureLimit

`now` is the clock; `count = 0` means no entry.  Every outcome of a handler that
asks `_is_blocked` is one action; a blocked address changes nothing.  The
constants keep what matters of 5 failures, 300 s and 600 s: a block is not longer
than a window (`LimitAssumption`).

### 2.4 RemoteControl

Three parties.  Messages from the server travel in a queue for each client and
arrive in order (one WebSocket); what a client sends is part of the client's
action, because a client whose message is slow cannot be told from a client whose
next event is late.  `cli` is where the main thread of the operator's program is
(`off`, `hello`, `looping`, `waiting`, `asking`, `busy`, `prompt`); the socket
thread is `ControllerReceives`, and may run between any two steps of the main
thread, in particular between the end of a session and `_request_event.clear()`.
The page's state is `ui`; it survives a reconnection, as the page does.

Agents appear as the set of codes that have one, and the pairing as the code each
browser is paired on: what remote control reads of `RelaySessions`.  `AgentEnds`
unpairs the browsers on the code, as `_unpair_agent` does.  A hello of the program may be rejected at any time, as it is from
a blocked address.

`MaxLag` bounds how many unread messages a client may have when *it* or its
counterpart makes a further request; the server itself is never held up.

The widget is modelled as `app.js` and the server implement it; in the shipped page
its tab is hidden (`index.html:165`, and the list in `app.js:270` that shows tabs
after pairing omits it), so today it is reached only by showing it again.

### 2.5 LogUpload

An upload is a triple: the page that asks, the kind (`log`, `kmsg`), and which time.
`stage` follows it through agent and server; `busy` is the set of kinds whose button
is disabled on a page (`btn.disabled`), `waiting` the uploads whose `sendCommand` is
unresolved (`_pending`), and `inbox` what the server has sent to the page and the page
has not yet handled.  `reachable` says that the `browser_sid` an upload carries is
still the page's: a page that reconnects has a new one, and what is sent to the old
one is lost.

| Action | Code |
|---|---|
| `AskForUpload` | `uploadLogs`, `uploadKmsg` up to their `await`, and `on_command` |
| `SixtySeconds`, `PageReceives` | the end of `sendCommand`; the page's event handlers |
| `AgentTakes`, `AgentPosts` | the command's case in `commands.go`; `doLogUpload` and its kin |
| `ServerStores`, `AgentIsAnswered`, `PostFails` | `api_log_upload` for a code in use; its answer, read; its 401, or no answer |
| `AgentArrives`, `CodeIsBurned`, `AgentLeaves`, `PagePairs`, `PageReconnects`, `PageReloads` | what an upload can notice of sessions and sockets |

There is one agent and one code.  `locked` is the code's `in_use`; as in
`RelaySessions` it is cleared before the socket closes.  `python`, which never
changes, chooses the Python agent, which holds a lock for each kind until the server's answer has been
read (`stage` is `over` then), and skips an upload, with a line on its console, when the lock is taken.  `MaxLag` bounds how much a page may
have unread when it pairs again.  `spoiled` is history: pages one of whose uploads did not go through.

### 2.6 TokenFile

`tokens.json` between two processes that share no lock.  `file` is the last content
that was written whole, `torn` says that it cannot be read now.  A program's `saves`
are the tables it is about to write; `OpenFile` empties the file, `FillFile` fills it,
and either program may die between the two (`ServerCrash`, `AdminQuits`).  A file that
cannot be read counts as no codes, in both programs.

| Action | Code |
|---|---|
| `OpenFile`, `FillFile` | the two halves of `write_text` in `_save_tokens` and `_save` |
| `HelloAccepted`, `HelloRejected` | what `on_agent_hello` reads and writes; a lock without an agent is dropped with a save of its own |
| `SessionEnds`, `SessionTimer`, `MenuKick` | the three callers of `_burn_token` |
| `CleanupOrphanedTokens`, `ServerStart` | the two places that drop locks uncounted |
| `OpenMenu`, `LeaveMenu` | `_load` at the top of a menu; the menus that save nothing |
| `MenuCreate` ... `MenuDeleteAll` | the menus; what they save is the copy from before the administrator's input |

The server gives way to no other of its handlers between load and save, so only the
administration program comes in between.  `unseen`, `lost`, `started` and `released` are
history: which codes changed since a program read its copy, which changes a save of an
older copy undid, how many sessions started, and how many locks were dropped uncounted.
The properties say what is true of every code that has not met such a save; that such
saves happen is the nature of the program, not a violation.  Permissions, names and dates
of an entry are left out; an expiry date is a one-way set, as in `RelaySessions`.

### 2.7 LogStreams

The Python agent keeps one slot for each kind of stream (`_logcat_stop`, `_log_stop`,
`_kmsg_stop`); the code is the same three times, so there is one slot here.  A handler is a
thread of python-socketio, a stream is an Event with its thread and its adb process.
`Test`, `SetEvent` and `Clear` are the three accesses of the stop function, `Register` and
`Launch` those of the start function; `Spawn`, `TestEvent`, `ReadLine` and `Emit` the
thread's loop.  `Connection` comes and goes.  `alone`, `stray` and `late` are history:
commands that nothing overlapped, streams that overlapping commands pushed out of the
slot, lines sent after the Event was set.

### 2.8 SerialPort

The Python agent's AT commands.  `_serial_lock` guards the table, so `AtOpen`, `AtClose` and
the look-up in `AtSend` are one step each; the exchange (`ResetInput`, `WriteCommand`,
`ReadLine`, `Deadline`) works on the connection it found, without a lock.  The modem is
external: it answers what it was asked in order, `Info` lines and a result code each, and
loses its power when it is unplugged.  A line is the command it answers and whether it is
the last.  `AtClose` has the two ways in which `close()` raises: the entry stays in the table, and the
connection works no more, whether or not it still counts as open.  `rivals` is history: the commands that were unanswered or waiting when a command
cleared the buffer, and those that cleared or wrote while it waited.

### 2.9 AgentClient

One agent program against the server's view of one code.  `main` is where the main loop is,
`reader` where the loop on the socket is, `pending` the handlers that were started and have
not run: a goroutine or thread for each event, in any order.  `python`, which never changes,
chooses the program.

| Action | Code |
|---|---|
| `DialSucceeds`, `DialFails`, `ConnectionEnds`, `Decide`, `PauseEnds` | `main.go` 103-168; `main` of the Python agent |
| `ReadAgain`, `ReadMessage`, `ReadFails` | `readLoop` |
| `HandlerRuns` | `agent_rejected`, `agent_kicked` |
| `Interrupt` | the signal handler |
| `HelloAccepted`, `HelloRejected`, `Expel`, `DelayedDisconnect`, `AgentGone` | `on_agent_hello`, kick and timer, the ends of a socket |
| `LinkBreaks`, `ServerRestarts`, `ExpiryPasses` | the surroundings |

What the model found in the code and keeps: the Go reader ends the program when
`Disconnect` has set its connection to nil before it reads again (`ReadAgain`); Ctrl-C while the Go
agent dials closes nothing, and `Wait` does not look at the channel (`deaf`); a handler that
runs late may set `retryDelay` after the loop has reset it, and a later loss then ends the program.  A
block of the address, which others behind it can cause, is a rejection at any time,
`MaxBlocks` of them.  `PauseEnds` is the one assumption about time: a pause of three or
five seconds is longer than a goroutine that can run has to wait.  Which of the fresh
socket ids a connection gets makes no difference; two are enough for the present one and
one the server has not given up.

### 2.10 CommandRelay

Pages, the server's relay and one agent.  A page survives its sockets; what it sends without
one is kept and sent, before the page's `connect` handler says hello (this is how the
vendored client, 4.7.5, flushes its buffer).  So a `browser_pair` may come before the `browser_hello`
of its socket: the server pairs the two, fails at `_browser_auth` (`server.py:808`), which the hello
fills, and sends neither an answer nor a status (`BrowserPair`).  The hello that follows finds the
socket paired and says so; that is what `StatusIsTrue` rests on then.  A dead socket stays in the server's tables until
`BrowserDisconnect`, and may hold a pairing until then.  `asker` in a command or result is
history, the page that still wants it; `id` and `sid` are what the code goes by.  After a
disconnection the work of an agent goes on (`AgentDisconnect`): the threads of the Python
agent answer over its next connection, before or after the hello.

The page is `agentConnected`, `overlay`, `step2` and `popup` (the 100 ms before the alert,
during which it may be paired again).  `lost` is history and names the two ways in which a
page waits in vain: its socket was replaced while it waited (`browser_hello` does not renew
the wait), or the agent preferred another browser in single mode (the refusal is shown in
step 1, which a page in step 2 does not show).  A page that asks again, or hears of an agent,
leaves `lost` unless it has yet to hear that an earlier request waits (`Welcome`): that answer
puts it back to waiting.  `Logout` is the part of `doLogout` after its
commands to a port, which are `UsbPort`'s: the page forgets its agent, shows the overlay and
replaces its socket; its commands go on waiting.
A kicked agent's pages are told half a second before its pairing ends, so `StatusIsTrue`
leaves that half second out.  Stream lines go by the same table as results and are not
followed.

### 2.11 GoStreams

`log_stream.go`, beside `LogStreams`.  The slot is a `streamProc` with a mutex: `Kill` and
`Store` are its two critical sections, and between them `Spawn` starts the process without the
lock.  A stop closes a channel and kills the process, so the reader's scan returns whatever the
device does; that is why `StoppedStreamsEnd` has no exception here, and why two starts that
overlap leave a running stream behind (`stray`).  Closing a channel twice would be a panic, and
the end of the agent: `ClosedOnce`.

### 2.12 UsbPort

`openPort` is a chain of up to a dozen commands (leave the old port, open, unlock, read the USB
mode, set it, look for the adb device, restart the device and look again for a minute), and
`closePort`, `closeDevice` and `doLogout` are shorter ones.  `ops` says for each operation under way
which command it waits for, and `port`, `serial`, `orig`, `matched` and `list` are the page's
variables, which the operation reads and writes between two awaits.  `Carry` and `Fail` are the
agent; a command that is answered after its minute is a failed one.  A device list comes at any time.

| Action | Code |
|---|---|
| `OpenPort`, `Leave`, `Opened`, `Prepare`, `Match` | `openPort` between its awaits |
| `Retry`, `Reopen` | its repetitions and `_tryOpenADB` |
| `ClosePort`, `Closing`; `CloseDevice`, `ClosingDevice` | `closePort`; `closeDevice` |
| `Logout`, `LoggingOut` | `doLogout`, up to its request to the server |
| `DeviceList`, `SelectDevice` | `applyDeviceList`; a click on a device |

`own` (the mode a device has of its own) and `trouble` are history.  `trouble` is `failed` when operations
have overlapped, or when one of the commands has failed after which the code does lose the device
(`Decisive`: unlocking and reading the mode, setting it back, and the close of a logout); `again` when a port was opened
while one was selected, which leaves the first in mode 3 or reads back the page's own 0; else `none`.
An open that fails, a search that finds nothing, a device that does not come back from its restart and a close that
fails are no trouble, and `ModesAreRestored` speaks of every moment, in the middle of any operation too.

### 2.13 Engines

`engine.js` exists twice, the same code for diagnosis and for device information; so does an
engine here, as a member of `Engine`.  `visits` are its `enter()` calls under way, in front of the
profile (`fetch`) or of the component's module (`import`); `FetchProfile` and `Mount` are what comes
after each await.  The page's part is `SwitchTab`, the selections, and `AttrsRead`, the end of
`_readDeviceAttrs`, which resets both engines and enters the one that is shown.  A component is named
by the device it was chosen for.  `asked`, `crossed` and `overtaken` are history: whose attributes
were asked for last, whether two readings overlapped, and the engines whose last reset came in the
middle of an `enter()`.

### 2.14 Srsd and SrsdCrc

`Srsd` is one request with a socket of its own: `Answer` cuts a frame into packets, which the
network loses, doubles and reorders; `Receive` puts together what comes until it has as much as the
first number says, and `Timeout` parses what is there.  A frame is a sequence of numbers; the header's
length is a constant and its fields are its two lengths.  `SrsdCrc` is the checksum: `Step` is the
loop of `_srsd_crc16`, on words that are functions from places to bits, and `RefStep` is the
polynomial, a bit at a time.

## 3. Runs

| Run | Configuration | Instance | Shows |
|---|---|---|---|
| `relay_safety` | `RelaySafety.cfg` | 2 agents, 2 browsers, a code with two uses and an unlimited one; symmetric ids; 591,672 states | the invariants of `RelaySessions` and the refinement of `CodeLease` |
| `relay_liveness` | `RelayLiveness.cfg` | 2 agents, 1 browser; 310,272 states | every session ends; orphan locks are released |
| `page_safety` | `PageSafety.cfg` | `RemoteControl` with 2 browsers, 2 operators, 1 code, lag 1, or `UsbPort` with 2 devices and 2 operations; symmetric; 2,762,581 states, about two minutes | tables inverse and connected, page not stale; modes restored, the selected device has a port |
| `page_liveness` | `PageLiveness.cfg` | `RemoteControl` with 2 browsers, 1 operator, or `Engines` with one engine and 2 devices, readings and calls; 128,329 states | an activation is shown; the tab is served, shows the selected device, and does not stay blank |
| `log_upload` | `LogUpload.cfg` | 1 page, logs once and kernel messages twice, either agent; 1,418,154 states, about two minutes | reports true and given once; no button disabled for nothing; buttons come back |
| `server_records` | `TokenFile.cfg` | `TokenFile` with a limited code with two sessions, an unlimited one, one crash, or `FailureLimit` with 2 addresses, 3 failures, block 2, window 4, 12 ticks; 575,085 states | uses add up; the server keeps codes; a session starts on a free code; locks are released; guesses bounded, blocks served |
| `log_streams` | `LogStreams.cfg` | 2 handlers, 3 streams of the Python agent, or 2 of the Go agent; 1,436,348 states, three and a half minutes | streams can be stopped, a command alone works, stopped streams end |
| `serial_port` | `SerialPort.cfg` | `SerialPort` with 2 commands, 2 connections, answers of three lines, or `Srsd` with answers in up to 3 packets, or `SrsdCrc` with up to 2 bytes; 335,264 states | no late answers of others; clean answers; answers over UDP are true; frames are sound |
| `agent_client` | `AgentClient.cfg` | one run, two losses, one block, a code with one use or unlimited, either agent; 349,359 states | retries are harmless, the session comes back or the program ends, it quits when told |
| `command_relay` | `CommandRelay.cfg` | 2 pages, either 2 sockets and one command a page, or 3 sockets and two requests under way; symmetric; 2,933,473 states, two and a half minutes | results reach who asked; the status shown is true; waits are known to the server |

`relay_double_burn` (`RelayNoDoubleBurn.cfg`) and `own_refusal` (`OwnRefusal.cfg`) each check one
property and expect a violation: the findings of section 5.

**Modules that share a run.**  `MCLogStreams`, `MCSerialPort`, `MCTokenFile` and `MCPage` each hold two or three
modules that have no state in common.  A variable that is chosen at the start and never changes
(`agent`, `way`, `record`, `part`) says which one takes its steps; the variables of the others stay as they are
at the start, so the states are the sum of the modules' states and not their product, and each is
checked as if it were alone.  `MCCommandRelay` does the same with one module: its `topic` says whether pages
issue commands, with fewer sockets and requests, or only ask for the agent.  A property of an instantiated module has its name in the `MC` module,
which also joins what belongs together (`EnginesShow`, `AnswersAreTrue`, ...).

`TypeOK` is among a run's invariants only in `CommandRelay.cfg`, or in such a joint property; for the
other modules with proofs it is a theorem too.

**Why these bounds are enough to be interesting.**  Two agents are needed for a hello
during another agent's last half second and for a timer outliving its session; two
browsers for single mode, the pick among waiters, and a waiter that pairs
elsewhere; a code with *two* uses reaches its limit by a second session while a
code with one would be spent by the first; an unlimited code can be reused for
ever, so the stale timer can meet any number of sessions.  Two operators and two
browsers are needed for a refusal and for a free operator being chosen while another is
kept.  In `FailureLimit` the window holds exactly two
blocks, the same proportion as in the code, and the clock runs past two windows and
a block, so that entries are old enough for the clean-up.
Three uploads on one page are what it takes for a report to give back the other kind's
button and for that kind to be asked for again meanwhile; a page that gives up after sixty
seconds and asks again is enough for the Python agent's lock to be taken.  Pages share
nothing but the session and that lock; `ReportsAreTrue` is proved for any number of them,
`BusyIsCovered` and `ButtonsComeBack` are checked for one.

In `TokenFile` the limited code has one use and two sessions, the second after a lock was
dropped uncounted, so a timer of the first can meet it; the unlimited code is there for a
save to lose.  Two handlers are what it takes to push a stream out of the slot, and the
third stream runs beside two strays.  Two commands are a command and its rival; the second
connection is a port that is reopened under a command.  Two losses let a retry fail too.
Two pages have colliding command numbers, and the third socket is a dead one while both are
connected; two requests under way are what it takes for a kept one to go before the hello of its socket.
Names that nobody bears are interchangeable, and `MCLogStreams` gives them out in order,
as symmetry would, which TLC does not combine with liveness.

In `UsbPort` the modes are one with adb (0), the page's default (3) and one that is neither (2).
Devices have any of them while one operation runs at a time; two operations overlap if the devices'
own mode is 3, and `MaxOverlaps` times in a run, so that a trace has failures, an overlap of any
two chains, and any number of single operations after it.  Without that bound the overlapping
part has 4,865,438 states and finds nothing else.  Two readings and two `enter()` calls are what it takes for the later of
two to come first; both engines together have been run too (without `TabComes`).  Three packets
can be reordered so that the middle one comes first; small checksums matter because a number that
is taken for a length must be smaller than what has come.  Two bytes bring the checksum's register to
each of its 65,536 values, and each of them is taken by every byte.
`CommandRelay` has also been run with three sockets and a command a page at once (one request under way;
4,682,461 states, more than four minutes), and its part without commands with two popups of a
page at a time (3,146,678 states), which bring nothing new.

`CHECK_DEADLOCK FALSE` appears in two configurations: `TokenFile.cfg`, where sessions, menus and
crashes run out and the clock of `FailureLimit` stops at `MaxTime`, and
`AgentClient.cfg`, where the program may have ended for good.

**Fairness.**  `RelaySessions!Fairness` is weak fairness of the session timer, the
delayed disconnect and the clean-up: a green thread asleep in `socketio.sleep` is
woken by the hub, and nothing in the server can hold the hub for ever.  Nothing is
assumed of agents, browsers, administrators or the process; a restart may always
come, and it ends sessions too.  `RemoteControl!FairSpec` is weak fairness of
`BrowserReceives`: what was written to a socket that stays open arrives.  Operators
and users may stop at any point.  `LogUpload!FairSpec` is weak fairness of goroutines,
of `setTimeout`, of a POST (it is answered or fails, within 120 seconds) and of what
is sent to a page; users and administrators may do anything or nothing.

`TokenFile!Fairness` is weak fairness of a save that was begun and of the restart of a
server that crashed (the container is restarted), and strong fairness of the clean-up,
which sleeps a minute and then runs, whatever handlers run in between.  In `LogStreams` the
threads of streams run; `ReadLine` is not fair, since a silent device sends no line, and
`StoppedStreamsEnd` excepts that case.  `AgentClient!Fairness` is weak fairness of main
loop, reader, handlers and server tasks, and of the server finding a dead socket by its
pings; strong fairness of `DialSucceeds`: of all attempts to connect some succeed.  Users,
kicks, losses and expiry are not fair.  `GoStreams!Fairness` is weak fairness of the readers:
goroutines run, and a read of a pipe whose process is gone returns.  `Engines!Fairness` is weak
fairness of what comes after an await of `enter()`: a request of the browser, and an `import`, is
answered or fails.

## 4. Proofs

TLC checks the instances above; TLAPS proves the following for every number of
connections, codes, addresses and messages, from the named assumptions in the
modules (ids of different kinds differ; `MaxUses` is positive; a block is not
longer than a window; texts and bytes are sequences of numbers and of eight bits).

**RelaySessions.**  The inductive invariant is the conjunction of all the
invariants of the run.  None of the important ones is inductive alone:
`SessionHasEnd` needs `TablesAgree` (a delayed disconnect that finds its socket
gone must not have been the last task of a live session); `SingleMode` needs it too
(the agent that says hello starts with an empty set); `RouteIsAlive` needs that an
agent's end clears the table of every browser in its set *and* that there is no
browser naming it outside the set; `NoMissedWaiter` rests on pairing and hello
emptying the same set.  From it follow `TypesAreCorrect`, `UseLimitIsKept`,
`SessionsHaveAnEnd`, `RoutesAreAlive`, `SingleModeIsKept`, `WaitersAreServed`.
`ServerKeepsLeases` is the refinement: `BurnToken` is a `Settle`, `Release` or
stutter, clean-up, unlock and restart are `Forfeit` of the locks they clear,
rejection of an exhausted code is a stutter because `UseLimitKept` says it is
marked used already (this is where the refinement needs the invariant).

**FailureLimit** (theorems in `RelaySessions_proofs`).  `EntryInv` ties an entry's count to the
time since its first failure: each failure beyond the limit can only be recorded after another full
block, so `count - FailMax` blocks fit in the time passed.  `BlocksEnd` and
`GuessesStayBounded` follow.  `BlocksAreServed` uses the assumption
that a block is no longer than a window: otherwise the clean-up, which looks at the
first failure only, could forget a running block.

**RemoteControl.**  Inverse tables, connectedness and types are inductive together.
`NoStaleActive` speaks of empty queues and is not: the invariant that carries it,
`ActiveUntilTold`, says of a page that shows or is about to show an activation the
server no longer has that an `inactive` is behind it in the queue.

**UsbPort** (theorems in `RemoteControl_proofs`).  `ModesAreRestored` speaks of every
moment without trouble.  `PortsInv` says at each step of each chain
(`PortStage`) which device is in a mode other than its own, and that the page knows the mode to go
back to or has the step that sets it still before it; and that one operation runs at a time.
`SelectionIsMatched` is an action property: `PortsListed` says that the list the page chooses from
has matched devices only while a port is open.

**Engines** (theorem in `RemoteControl_proofs`).  Two invariants make `EnginesShow` inductive.
`EngServedInv`: an engine whose tab is open, or that has chosen a component, shows something or has a
call under way that will.  `EngChosenInv`: as long as readings did not overlap, whatever an engine has
chosen, and whatever a call under way will choose, is for the device whose attributes were asked for
last, or for none, except in engines that were reset in the middle of a call.

**LogUpload.**  Types and `ReportsAreTrue` are inductive together; that a report is
the only one of its upload rests on the stages, since the report is appended by the
step that makes the upload stored, and no upload is stored twice.  `BusyIsCovered` is inductive
beside them: a button that is disabled is an upload that was not open before (its report would say
that it is stored), a report that is read takes one upload and gives back one button, and agent and
server move an upload on without closing it, or the page is `spoiled`.

**TokenFile.**  The invariant follows the copies.  `unseen` holds the codes that changed
since a program read the file; for all others the save it is about to write fits the file
as it is now (`Fits`): what the save counts, locks and drops of a code is balanced against
what the file holds.  The server may have two saves in line, the second fitting what the
first will have written.  `UsesDoAddUp`, `ServerDoesKeepCodes` and `SessionsStartOnFreeCode`
follow for any codes, limits and number of sessions; `ExhaustedAreMarked`, which has no run
of its own, is part of the typing of tables.

**LogStreams.**  `Stoppable` is kept by overlapping commands because they note what they push
out of the slot, and by a command alone only because of what it found in the slot a step
before: `AloneInv` says what that is at each of its steps.  `AloneCommandsDoWork` follows, and
`OneLineIsLate` (a stream sends one line at most after it was told to stop).

**GoStreams** (theorems in `LogStreams_proofs`).  A stream that runs and was not stopped is in the
slot, or a stray.  `GoNewInv` says that what a start is about to store is its own, not closed and in
nobody else's hands: so the channel a kill closes was never closed (`ClosedOnce`).  `GoAloneInv` is
what a command that nothing overlaps finds at each step.  `GoStreamsCanBeStopped` follows, and
`GoCommandsDoWork`, the action part of the run's `GoCommandsWork`.

**SerialPort.**  `RivalInv` says of every command that has cleared the buffer that all it can
come across is its own or a rival's.  Without a rival, what the command has read, followed
by what waits in the buffer, is what the modem has sent of its answer (`Clean`), as long as its
connection works; a connection that is closed or unplugged never works again.
`ForeignLinesComeFromRivals` and `AnswersAreClean` follow, for answers of any length.
`OneIsOpen` (no connection is left open outside the table) has no run of its own.

**Srsd** (theorem in `SerialPort_proofs`).  `RequestInv` says of packets that came in order that what
the agent has is the beginning of the frame, that the packets under way are what is missing of it,
one after the other (`Rest`), and that the agent waits only while something is missing: it stops at
the frame's own first number, which is the frame's length (`FrameForm`).  `AnswersComeTrue` follows with
`ParseOfPart`: of all of a frame `Parse` makes its text, of a beginning of the frame a beginning of
the text.  Texts, checksums and packets are any and any number; the assumption is that the header
has at least its two lengths.

**SrsdCrc** (theorem in `SerialPort_proofs`).  Each shift and exclusive or is a formula for each bit
(`XorBit`, `RightBit`, `LeftBit`); `StepBit` puts the formulas of the code's step together, and
`RefStepIs` those of eight steps of the reference.  They agree on all sixteen bits
(`StepIsRefStep`), for every state of the register, so the two registers stay equal whatever bytes
come.  The two bytes of a checksum turn any register into the residue (`TrailerGivesResidue`).

**CommandRelay.**  The properties speak of pages that have handled everything, and none is inductive.
`CommandsInv` follows a command's number through queues, work and results: whoever of a page has a
number has been given it by that page, and if the page waits for it, is what the page asked.
`StatusInv` says of a page whose hello is not under way that the *last* `agent_status` on its way, or
else what it shows, is what the server's tables have.  `WaitInv` says of a page that waits, and of
every answer "waiting" on its way, that word of the agent comes after it or that the page is excused
(among the waiters, or `lost`).  This proof found a mistake in the model's history: `lost` forgot a page
that asked again while an earlier "waiting" was still on its way to it, which the instance that TLC checks
does not reach.  `AnswersAreOwn`, `StatusComesTrue` and `WaitsAreRemembered` follow, for queues of any length.

**AgentClient.**  A run of the program has one attempt, and one more for each loss.
`NoneLeft` says of the moments when none is left that the program has been told for good, or
that a handler will tell it, or that its connection is sound and the end can only come
over it.  So a pause that leads to another attempt is never reached without one.  The
theorem is about the Go agent: the Python agent dials at once and may overtake its own handler.

**Only model-checked:** every safety property and every action property of the runs is proved.  What
is left to TLC are the liveness properties (`SessionsEnd`, `OrphanLocksCleared`,
`ActivationIsShown`, `TabComes`, `ButtonsComeBack`, `LocksReleased`, `StoppedStreamsEnd` and that part of
`GoCommandsWork`, `SessionBackOrEnds`, `QuitsWhenTold`), as fairness and `ENABLED` are beyond the
prover; and the findings.

## 5. Findings

Two have a run of their own.

* `relay_double_burn`: **a timer burns the next session.**  The guard that `server.py:225`
  names (the code is no longer in use) does not tell one session from the next; nothing
  cancels the timer of a session that ended early.
* `own_refusal`: **an operator is refused because of himself.**  `server.py:896` refuses if *another*
  operator has activated the browser; `_rc_active` does not say whose control it is.  An
  operator accepts the request of a browser that has gone, after a second browser was given to him: this
  activates the second.  When the second's own request reaches him and he accepts it, he is
  refused, disconnected, and the pair is broken, although nobody else is there.  `MaxLag` is 2, as it
  takes two requests under way to one operator.

More properties say what a comment, a text on the screen or the purpose of a piece of code promises, and
fail.  They are stated in the modules and have no run; put in the place of the properties of a
`.cfg` above (under its specification), TLC finds each violated within seconds.

| Property | What happens | Configuration |
|---|---|---|
| `RelaySessions!OneAgentPerCode` | `server.py:613` says concurrent use is blocked.  Kick and session timer release the code half a second before the agent's socket closes, and `agent_hello` looks for another agent only if the code is locked. | `RelaySafety` |
| `RelaySessions!BrowserHasOneAgent` | `browser_pair` leaves the browser among the waiters of another code; the hello of that code's agent pairs it a second time without unpairing it. | `RelaySafety` |
| `RemoteControl!ControlStaysOnCode` | Codes are compared when control is requested and not again when it is accepted; the browser may have paired on another code in between. | `PageSafety`, with two codes |
| `RemoteControl!WaitingIsFree` | `run()` clears `_request_event` at the top of its loop; a request that arrived since the last session is wiped, the program says that it waits for one, and the server keeps the pair. | `PageSafety` |
| `RemoteControl!CommandsAreAccepted` | The program still sits in `input()` of the ended session, and `controller_cmd` does not ask whether control is active, so a command can run in a browser that has asked again and was not yet accepted. | `PageSafety`, as a property |
| `UsbPort!LogoutRestores` | `app.js:9` calls `_wusbdEnableOrig` the value that was read when the port was opened, and `app.js:222` says that logout restores adb.  A second click on "open" is not refused, reads back the 0 that the first one has set, and remembers it: logout then leaves adb switched on. | `PageSafety` |
| `Engines!ResultsAreKept` | `engine.js:68` says that a component which is mounted keeps its results and is not mounted again.  `enter()` tests `_current` before its two awaits and not after them; of two calls that overlap the second empties the container the first has filled. | `PageLiveness`, as a property |
| `LogUpload!FailureIsTold` | The page has a text for an upload that failed, and waits for a report with its button disabled.  The agent answers before it begins; when its post is refused (the session has ended) or fails, only its console says so, and the button stays as it is. | `LogUpload`, as a property |
| `LogUpload!ReportNamesItsUpload` | `log_upload_result` does not say which upload it is about, and the page goes by which button is disabled.  The count of buttons is right (`BusyIsCovered`, `ButtonsComeBack`), the message shown is not. | `LogUpload`, as a property |
| `GoStreams!OneStreamRuns` | `log_stream.go:41` says that a running stream is stopped first.  Of two starts that overlap both kill, both start and both store; the first one's process goes on, and no later command reaches it. | `LogStreams` |
| `AgentClient!SignalEnds` | `main.go:53` says that the program ends.  A signal while it dials finds no connection to close, and the session that follows goes on: `Wait` does not look at the channel. | `AgentClient`, as a property |
| `TokenFile!UseLimitKept` | A menu saves the copy it read before the administrator's input; a lock or a count that the server wrote meanwhile is undone, and a code serves more sessions than its limit. | `TokenFile` |
| `Srsd!SuccessIsWhole` | `woorinet_remote_diag_agent.py:900` says that packets are received up to the frame's length.  The first number of whichever packet came first is taken for it, the deadline cuts, and neither checksum nor the payload's length is compared: part of an answer is a success. | `SerialPort` |

Where a module states what remains true beside such a behaviour, the exception is in the
property: the codes in `lost` of `TokenFile`, the strays of `LogStreams` and `GoStreams`, the `trouble` of
`UsbPort`, `crossed` and `overtaken` of `Engines`, the `spoiled` pages of `LogUpload`, the order of packets in
`Srsd`, the rivals of `SerialPort`, `deaf` of `AgentClient`, and the pages in
`lost` of `CommandRelay`, which say that they are waiting for an agent and are not waited
for.  `SessionHasEnd` and `BlockHasAnEnd` hold and are proved as invariants, and have no run.

## 6. What is not modelled

Command execution in the page, its result and the device information that the
agent sends for an operator (they change none of the modelled state; `WaitEnds`
covers both their arrival and their timeout).  A reconnection of the operator's
program by its library.  Tokens with missing fields, which the tools never write.
Which files an upload collects, and the directory it is stored in (named by the second: two
uploads of a device in one second share it).
The Go agent's serial ports: the Python agent's are modelled, and the two differ (the Go agent
does not clear the buffer).  The search for devices on a network (`srsdDiscover`), which sends the
request of `Srsd` to each address.  What a component of the engines measures.  The polls of the
page's log tabs.  The keep-alive of the Go agent's socket and its handshake are part of a
connection that breaks at any moment.
The components of 1.6, and the shell deny list, profiles, parsers and pages: no
state that several steps share.

## 7. Plan

What is left, in order of what can go wrong.

1. The Go agent's serial ports, as a variant of `SerialPort`: a port that is opened through the
   modem's set-up, and an exchange that finds the rest of an earlier answer.
2. The page's log tabs: `startLog` and `stopLog` across their awaits, polls, and a change of
   device meanwhile; composes with `LogStreams`.
3. `srsdDiscover`: one thread for each address, and a list that is read while they run.

Proofs: what the modules state and no run checks beside `SessionHasEnd`, `BlockHasAnEnd`,
`ExhaustedAreMarked`, `OneIsOpen` and `OneLineIsLate`; abstract specifications of `LogUpload` and
`CommandRelay` as `CodeLease` is one of the sessions, with their refinement; the steps of the liveness
arguments that need no fairness (a measure that no step of others increases).
