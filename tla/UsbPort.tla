-------------------------------- MODULE UsbPort --------------------------------
(***************************************************************************)
(* The page's serial port and adb device (openPort, closePort,             *)
(* closeDevice, doLogout and the device list of static/js/app.js): chains  *)
(* of commands to the agent, between which everything else goes on.        *)
(* Opening a port puts its device into a USB mode with adb; closing puts   *)
(* it back into the mode the page remembers.                               *)
(*                                                                         *)
(* A device has one port here, so that a port is named by its device.  The *)
(* agent's side is Open and Close of SerialPort.  A command whose answer   *)
(* does not come in a minute counts as failed; commands that are carried   *)
(* out after that are CommandRelay's.                                      *)
(***************************************************************************)
EXTENDS Naturals

CONSTANTS
  Device,    \* devices, and their ports
  NoDevice,  \* ''
  Mode,      \* the values of WUSBDENABLE, 0 and 3 among them
  NoMode,    \* null
  OwnMode,   \* the modes devices have before the page, some of Mode
  Operation  \* bound: operations of the page under way at a time

VARIABLES
  port,    \* selectedPort
  serial,  \* selectedSerial
  orig,    \* _wusbdEnableOrig
  matched, \* _devicePortMap: devices that are mapped to their port
  list,    \* devices the list shows
  ops,     \* operation -> how far it is
  open,    \* the agent's open ports
  mode,    \* device -> WUSBDENABLE
  \* history
  own,     \* device -> the mode it has when no page changes it
  trouble  \* "failed": a decisive command has failed or operations have overlapped;
           \* "again": a port was opened while one was selected; "none"

page   == <<port, serial, orig, matched, list>>
history == <<own, trouble>>
vars   == <<page, ops, open, mode, history>>

\* An operation: the command it waits for; its port; the port that command goes
\* to; the mode it restores or has read; the answer.
Idle == [at |-> "idle", dev |-> NoDevice, to |-> NoDevice, val |-> NoMode, reply |-> "none"]

OpenSteps  == {"leaveUnlock", "leaveMode", "leaveClose", "open", "unlock", "query", "enable",
               "match", "openADB", "reopenClose", "reopen", "matchClosed", "rematch"}
CloseSteps == {"closeMode", "close"}
DeviceSteps == {"deviceUnlock", "deviceMode"}
LogoutSteps == {"outMode", "outClose", "outFetch"}
Steps == OpenSteps \cup CloseSteps \cup DeviceSteps \cup LogoutSteps

Null == Device \cup {NoDevice}

TypeOK ==
  /\ port \in Null
  /\ serial \in Null
  /\ orig \in Mode \cup {NoMode}
  /\ matched \subseteq Device
  /\ list \subseteq Device
  /\ ops \in [Operation -> [at : Steps \cup {"idle"}, dev : Null, to : Null,
                            val : Mode \cup {NoMode}, reply : {"none", "ok", "fail"}]]
  /\ open \subseteq Device
  /\ mode \in [Device -> Mode]
  /\ own \in [Device -> OwnMode]
  /\ trouble \in {"none", "again", "failed"}

Init ==
  /\ port = NoDevice
  /\ serial = NoDevice
  /\ orig = NoMode
  /\ matched = {}
  /\ list = {}
  /\ ops = [o \in Operation |-> Idle]
  /\ open = {}
  /\ own \in [Device -> OwnMode]
  /\ mode = own
  /\ trouble = "none"

-----------------------------------------------------------------------------
\* Each definition named Wrong... is a plausible slip in the one after it; the
\* specification does not use it.

Busy == {o \in Operation : ops[o].at # "idle"}

\* What an operation that starts now makes of trouble.
Overlap == IF Busy # {} THEN "failed" ELSE trouble

\* "(_wusbdEnableOrig !== null) ? _wusbdEnableOrig : 3"
RestoreVal == IF orig = NoMode THEN 3 ELSE orig

\* The steps that set a mode again.  In closePort and in doLogout an UNLOCK goes
\* to the same port before; its answer is not looked at, and it is part of the
\* step here.
Restores == {"closeMode", "deviceMode", "outMode"}

\* Operation o sends its next command, to port p.
Send(o, at, p) ==
  ops' = [ops EXCEPT ![o].at = at, ![o].to = p, ![o].reply = "none",
                     ![o].val = IF at \in Restores THEN @ ELSE NoMode]

Done(o) == ops' = [ops EXCEPT ![o] = Idle]

\* The user starts an operation on d, whose first command goes to p.
Begin(o, at, d, p, val) ==
  /\ o \notin Busy
  /\ ops' = [ops EXCEPT ![o] = [at |-> at, dev |-> d, to |-> p, val |-> val, reply |-> "none"]]

\* The mapping of d's port goes, and with it the selection and the list.
Forget(d) ==
  /\ matched' = matched \ {d}
  /\ serial' = NoDevice
  /\ list' = {}

\* How far openPort is stands where the list was.
Searching == list' = {} /\ UNCHANGED <<port, serial, orig, matched>>

\* applyDeviceList, when sel is selected and the devices in mapped have a port;
\* whether the selected port's device is there, and ready.  Only that device is
\* shown; it is selected when it is ready.
ApplyDeviceList(sel, mapped, there, ready) ==
  LET filtered == IF there THEN mapped \cap {port} ELSE {}
  IN  /\ list' = filtered
      /\ serial' = CASE filtered # {} /\ ready -> port
                     [] filtered = {} /\ sel \notin mapped \cap {port} -> NoDevice
                     [] OTHER -> sel

-----------------------------------------------------------------------------
\* The agent.

Carry(o) ==
  LET c == ops[o]
      mayWork == \/ c.at \in {"open", "reopen", "outFetch"}
                 \/ c.to \in open
  IN  /\ c.at # "idle" /\ c.reply = "none" /\ mayWork
      /\ ops' = [ops EXCEPT ![o].reply = "ok",
                            ![o].val = IF c.at = "query" THEN mode[c.to] ELSE @]
      /\ open' = CASE c.at \in {"open", "reopen"} -> open \cup {c.to}
                   [] c.at \in {"leaveClose", "close", "outClose", "reopenClose"} -> open \ {c.to}
                   [] OTHER -> open
      /\ mode' = CASE c.at = "leaveMode" -> [mode EXCEPT ![c.to] = 3]
                   [] c.at = "enable"    -> [mode EXCEPT ![c.to] = 0]
                   [] c.at \in Restores  -> [mode EXCEPT ![c.to] = c.val]
                   [] OTHER -> mode
      /\ UNCHANGED <<page, history>>

\* Commands whose answer the page does not look at.
Unheeded == {"leaveUnlock", "leaveMode", "enable", "reopenClose", "closeMode", "deviceUnlock",
             "deviceMode", "outMode", "outClose"}

\* Commands on whose outcome it depends that a mode is remembered and set back
\* and that the page knows which port is open.
Decisive == {"unlock", "query", "outClose"} \cup Restores

\* A command fails or is not answered.
Fail(o) ==
  /\ ops[o].at # "idle" /\ ops[o].reply = "none"
  /\ ops' = [ops EXCEPT ![o].reply = IF ops[o].at \in Unheeded THEN "ok" ELSE "fail"]
  /\ trouble' = IF ops[o].at \in Decisive THEN "failed" ELSE trouble
  /\ UNCHANGED <<page, open, mode, own>>

-----------------------------------------------------------------------------
\* openPort

\* A click on "open" with d's port chosen.  A port that is open is left first.
OpenPort(o, d) ==
  /\ IF port \notin {NoDevice, d}
     THEN Begin(o, "leaveUnlock", d, port, NoMode)
     ELSE Begin(o, "open", d, d, NoMode)
  /\ trouble' = IF Overlap = "none" /\ port # NoDevice THEN "again" ELSE Overlap
  /\ UNCHANGED <<page, open, mode, own>>

\* The port that is left: its mode is set and it is closed.  Each command goes
\* to the port that is selected by then.
Leave(o) ==
  /\ ops[o].reply # "none"
  /\ \/ ops[o].at = "leaveUnlock" /\ Send(o, "leaveMode", port) /\ UNCHANGED page
     \/ ops[o].at = "leaveMode" /\ Send(o, "leaveClose", port) /\ UNCHANGED page
     \/ /\ ops[o].at = "leaveClose"
        /\ IF ops[o].reply = "ok"
           THEN Forget(port) /\ port' = NoDevice /\ UNCHANGED orig
           ELSE UNCHANGED page
        /\ Send(o, "open", ops[o].dev)
  /\ UNCHANGED <<open, mode, history>>

\* The port is open: it is the selected one.
Opened(o) ==
  /\ ops[o].at = "open"
  /\ \/ /\ ops[o].reply = "ok"
        /\ port' = ops[o].dev
        /\ list' = {}
        /\ Send(o, "unlock", ops[o].dev)
        /\ UNCHANGED <<serial, orig, matched>>
     \/ ops[o].reply = "fail" /\ Done(o) /\ UNCHANGED page
  /\ UNCHANGED <<open, mode, history>>

\* The USB mode is read only where it has to be changed.
WrongPrepare(o) ==
  /\ ops[o].reply # "none"
  /\ \/ ops[o].at = "unlock" /\ ops[o].reply = "fail" /\ Done(o) /\ Searching
     \/ ops[o].at = "unlock" /\ ops[o].reply = "ok" /\ Send(o, "enable", ops[o].dev) /\ UNCHANGED page
     \/ ops[o].at = "enable" /\ Send(o, "match", ops[o].dev) /\ Searching
  /\ UNCHANGED <<open, mode, history>>

\* UNLOCK has to work.  The mode is read, remembered, and set to 0 if it is
\* another than 0 and 1.
Prepare(o) ==
  /\ ops[o].reply # "none"
  /\ \/ ops[o].at = "unlock" /\ ops[o].reply = "fail" /\ Done(o) /\ Searching
     \/ ops[o].at = "unlock" /\ ops[o].reply = "ok" /\ Send(o, "query", ops[o].dev) /\ UNCHANGED page
     \/ /\ ops[o].at = "query"
        /\ orig' = IF ops[o].reply = "ok" THEN ops[o].val ELSE orig
        /\ IF ops[o].reply = "ok" /\ ops[o].val \notin {0, 1}
           THEN Send(o, "enable", ops[o].dev) /\ UNCHANGED list
           ELSE Send(o, "match", ops[o].dev) /\ list' = {}
        /\ UNCHANGED <<port, serial, matched>>
     \/ ops[o].at = "enable" /\ Send(o, "match", ops[o].dev) /\ Searching
  /\ UNCHANGED <<open, mode, history>>

\* The port's adb device is found: it is mapped and selected, and the list that
\* came before the search is applied, if one came.
Match(o) ==
  /\ ops[o].at \in {"match", "matchClosed", "rematch"}
  /\ ops[o].reply = "ok"
  /\ matched' = matched \cup {ops[o].dev}
  /\ \/ serial' = ops[o].dev /\ UNCHANGED list
     \/ \E there, ready \in BOOLEAN : ApplyDeviceList(ops[o].dev, matched', there, ready)
  /\ Done(o)
  /\ UNCHANGED <<port, orig, open, mode, history>>

\* It is not found: again, five times at most; then AT$OPENADB, which makes the
\* device restart, and the port is closed and opened until that works, the
\* device sought again, for a minute at most.
Retry(o) ==
  /\ \/ /\ ops[o].at = "match" /\ ops[o].reply = "fail"
        /\ \E at \in {"match", "openADB"} : Send(o, at, ops[o].dev)
     \/ ops[o].at = "openADB" /\ ops[o].reply = "ok" /\ Send(o, "reopenClose", ops[o].dev)
     \/ ops[o].at = "openADB" /\ ops[o].reply = "fail" /\ Done(o)
     \/ /\ ops[o].at = "rematch" /\ ops[o].reply = "fail"
        /\ Done(o) \/ Send(o, "rematch", ops[o].dev)
     \/ /\ ops[o].at = "matchClosed" /\ ops[o].reply = "fail"
        /\ Done(o) \/ Send(o, "reopenClose", ops[o].dev)
  /\ Searching
  /\ UNCHANGED <<open, mode, history>>

\* A port that has been closed for the restart is opened; once that has worked
\* it is left open.
Reopen(o) ==
  /\ \/ ops[o].at = "reopenClose" /\ ops[o].reply # "none" /\ Send(o, "reopen", ops[o].dev)
     \/ ops[o].at = "reopen" /\ ops[o].reply = "ok" /\ Send(o, "rematch", ops[o].dev)
     \/ ops[o].at = "reopen" /\ ops[o].reply = "fail" /\ Send(o, "matchClosed", ops[o].dev)
  /\ UNCHANGED <<page, open, mode, history>>

-----------------------------------------------------------------------------
\* closePort, closeDevice, doLogout

\* A click on "close": the selected port, or the one that is chosen.
ClosePort(o, d) ==
  /\ port \in {NoDevice, d}
  /\ Begin(o, "closeMode", d, d, RestoreVal)
  /\ trouble' = Overlap
  /\ UNCHANGED <<page, open, mode, own>>

\* The selection stays.
WrongClosing(o) ==
  /\ ops[o].reply # "none"
  /\ \/ ops[o].at = "closeMode" /\ Send(o, "close", ops[o].dev) /\ UNCHANGED page
     \/ /\ ops[o].at = "close"
        /\ IF ops[o].reply = "ok"
           THEN /\ matched' = matched \ {ops[o].dev}
                /\ list' = {}
                /\ UNCHANGED <<port, serial, orig>>
           ELSE UNCHANGED page
        /\ Done(o)
  /\ UNCHANGED <<open, mode, history>>

Closing(o) ==
  /\ ops[o].reply # "none"
  /\ \/ ops[o].at = "closeMode" /\ Send(o, "close", ops[o].dev) /\ UNCHANGED page
     \/ /\ ops[o].at = "close"
        /\ IF ops[o].reply = "ok"
           THEN /\ Forget(ops[o].dev)
                /\ port' = IF port = ops[o].dev THEN NoDevice ELSE port
                /\ UNCHANGED orig
           ELSE UNCHANGED page
        /\ Done(o)
  /\ UNCHANGED <<open, mode, history>>

\* A click on a device's "close".
CloseDevice(o, d) ==
  /\ port # NoDevice
  /\ d \in list
  /\ Begin(o, "deviceUnlock", d, port, RestoreVal)
  /\ list' = {}
  /\ trouble' = Overlap
  /\ UNCHANGED <<port, serial, orig, matched, open, mode, own>>

\* The mode is set back; failure or not, the device is no longer mapped.
ClosingDevice(o) ==
  /\ ops[o].reply # "none"
  /\ \/ ops[o].at = "deviceUnlock" /\ Send(o, "deviceMode", port) /\ UNCHANGED page
     \/ /\ ops[o].at = "deviceMode"
        /\ serial' = IF serial = ops[o].dev THEN NoDevice ELSE serial
        /\ matched' = matched \ {ops[o].dev}
        /\ list' = {}
        /\ Done(o)
        /\ UNCHANGED <<port, orig>>
  /\ UNCHANGED <<open, mode, history>>

\* The page's state of a logout, before the server is told.
ClearAll ==
  /\ port' = NoDevice
  /\ serial' = NoDevice
  /\ orig' = NoMode
  /\ matched' = {}
  /\ UNCHANGED list

Logout(o) ==
  /\ IF port = NoDevice
     THEN Begin(o, "outFetch", NoDevice, NoDevice, NoMode) /\ ClearAll
     ELSE Begin(o, "outMode", port, port, RestoreVal) /\ UNCHANGED page
  /\ trouble' = Overlap
  /\ UNCHANGED <<open, mode, own>>

LoggingOut(o) ==
  /\ ops[o].reply # "none"
  /\ \/ ops[o].at = "outMode" /\ Send(o, "outClose", ops[o].dev) /\ UNCHANGED page
     \/ ops[o].at = "outClose" /\ Send(o, "outFetch", NoDevice) /\ ClearAll
     \/ /\ ops[o].at = "outFetch"
        /\ list' = IF ops[o].reply = "ok" THEN {} ELSE list
        /\ Done(o)
        /\ UNCHANGED <<port, serial, orig, matched>>
  /\ UNCHANGED <<open, mode, history>>

-----------------------------------------------------------------------------
\* The device list.

\* A list comes in, asked for or sent by the server.
DeviceList(there, ready) ==
  /\ ApplyDeviceList(serial, matched, there, ready)
  /\ UNCHANGED <<port, orig, matched, ops, open, mode, history>>

\* selectDevice
SelectDevice(d) ==
  /\ d \in list
  /\ serial' = d
  /\ UNCHANGED <<port, orig, matched, list, ops, open, mode, history>>

-----------------------------------------------------------------------------
GoesOn(o) ==
  \/ Leave(o) \/ Opened(o) \/ Prepare(o) \/ Match(o) \/ Retry(o) \/ Reopen(o)
  \/ Closing(o) \/ ClosingDevice(o) \/ LoggingOut(o)

Next ==
  \/ \E o \in Operation : Carry(o) \/ Fail(o) \/ GoesOn(o) \/ Logout(o)
  \/ \E o \in Operation, d \in Device : OpenPort(o, d) \/ ClosePort(o, d) \/ CloseDevice(o, d)
  \/ \E there, ready \in BOOLEAN : DeviceList(there, ready)
  \/ \E d \in Device : SelectDevice(d)

Spec == Init /\ [][Next]_vars

-----------------------------------------------------------------------------
\* The selected device, to which every shell command goes, is one the page has
\* mapped to a port: no step of operations that overlap selects another, or
\* forgets a mapping and leaves its device selected.  Only a click on a list that
\* a logout has not emptied yet, when no port is selected, selects another.
SelectedIsMatched ==
  [][serial' \in Device \ matched' =>
       \/ serial' = serial /\ serial \notin matched
       \/ port = NoDevice /\ SelectDevice(serial')]_vars

\* At every moment, in the middle of any operation too, a device that is not in
\* its own mode is the selected port's, and the page remembers the mode to set
\* back: no port that does not open, search that finds nothing, restart of the
\* device that leaves its port closed, failing close or later list loses it, and
\* no port stays open that the page has forgotten.  It does not speak of
\* overlapping operations, of a port opened while one is selected, and of a
\* failing UNLOCK, query, restoring command or close of a logout: after those the
\* code does lose it.
RestoredWithoutTrouble ==
  trouble = "none" =>
    /\ \A d \in Device : mode[d] # own[d] => port = d /\ orig = own[d]
    /\ Busy = {} /\ port = NoDevice => open = {}

\* "If the serial port is open, restore ADB, then close" (doLogout, app.js:222):
\* a logout all of whose commands work leaves the device in its own mode.  It
\* does not if the port was opened twice: _wusbdEnableOrig, "the original value
\* read when the port was opened" (app.js:9), is then the page's own 0.
LogoutRestores ==
  \A o \in Operation :
    trouble # "failed" /\ ops[o].at = "outClose" /\ ops[o].reply = "ok" =>
      mode[ops[o].dev] = own[ops[o].dev]
=============================================================================
