-------------------------------- MODULE Engines --------------------------------
(***************************************************************************)
(* The page's engines for diagnosis and device information                 *)
(* (static/diag/engine.js, static/devinfo/engine.js, the same code twice)  *)
(* and what drives them in static/js/app.js: the tabs, the selected device *)
(* and the reading of its attributes.                                      *)
(*                                                                         *)
(* enter() chooses a component by the attributes the page has, and mounts  *)
(* it after two awaits; reset() may come in between, and so may another    *)
(* enter().  The page runs one thing at a time: an action is what happens  *)
(* between two awaits.                                                     *)
(***************************************************************************)
CONSTANTS
  Engine,      \* the engines; each is a tab of its own
  OtherTab,    \* any tab without an engine
  Device,
  NoDevice,    \* '' for a device, for its attributes, for the default profile
  NoComponent, \* null
  Read,        \* bound: readings of attributes under way at a time
  Visit        \* bound: enter() calls of an engine under way at a time

VARIABLES
  tab,      \* the active tab
  device,   \* selectedSerial, or selectedSrsdIp
  attrs,    \* selectedModel and selectedCustomer: the device they are of
  reads,    \* reading -> the device it reads, while under way
  current,  \* engine -> _current: the device its component was chosen for
  content,  \* engine -> what its container has
  visits,   \* engine -> its enter() calls
  \* history
  asked,    \* the device whose attributes were asked for last
  crossed,  \* that reading began while another was under way
  overtaken \* engines whose last reset() came while an enter() was under way

page    == <<tab, device, attrs, reads, asked, crossed>>
engines == <<current, content, visits, overtaken>>
vars    == <<page, engines>>

Attrs == Device \cup {NoDevice}

\* An enter() call: none; it waits for the profile; for the component's module.
Idle  == [at |-> "idle", model |-> NoDevice]
Calls == [at : {"idle", "fetch", "import"}, model : Attrs]

TypeOK ==
  /\ tab \in Engine \cup {OtherTab}
  /\ device \in Attrs
  /\ attrs \in Attrs
  /\ reads \in [Read -> Attrs]
  /\ current \in [Engine -> Attrs \cup {NoComponent}]
  /\ content \in [Engine -> {"blank", "component", "error"}]
  /\ visits \in [Engine -> [Visit -> Calls]]
  /\ asked \in Attrs
  /\ crossed \in BOOLEAN
  /\ overtaken \subseteq Engine

Init ==
  /\ tab = OtherTab
  /\ device = NoDevice
  /\ attrs = NoDevice
  /\ reads = [r \in Read |-> NoDevice]
  /\ current = [e \in Engine |-> NoComponent]
  /\ content = [e \in Engine |-> "blank"]
  /\ visits = [e \in Engine |-> [v \in Visit |-> Idle]]
  /\ asked = NoDevice
  /\ crossed = FALSE
  /\ overtaken = {}

-----------------------------------------------------------------------------
\* Each definition named Wrong... is a plausible slip in the one after it; the
\* specification does not use it.

Reading == {r \in Read : reads[r] # NoDevice}

\* The enter() calls of e under way.
Entering(e) == {v \in Visit : visits[e][v].at # "idle"}

\* enter(), up to its first await, of the engine of tab t if it has one, when
\* the engines' components are cur and the page has the attributes a.  A
\* component that is mounted stays.
Enter(t, cur, a) ==
  IF t \in Engine /\ cur[t] = NoComponent
  THEN \E v \in Visit \ Entering(t) :
         visits' = [visits EXCEPT ![t][v] = [at |-> "fetch", model |-> a]]
  ELSE UNCHANGED visits

\* Only the engine of the active tab is reset.
WrongRefresh(a) ==
  LET none == [e \in Engine |-> IF e = tab THEN NoComponent ELSE current[e]]
  IN  /\ attrs' = a
      /\ current' = none
      /\ content' = [e \in Engine |-> IF e = tab THEN "blank" ELSE content[e]]
      /\ overtaken' = {e \in Engine : Entering(e) # {}}
      /\ Enter(tab, none, a)

\* The page has new attributes: reset() of both engines, then
\* _remountActiveEngine().
Refresh(a) ==
  LET none == [e \in Engine |-> NoComponent]
  IN  /\ attrs' = a
      /\ current' = none
      /\ content' = [e \in Engine |-> "blank"]
      /\ overtaken' = {e \in Engine : Entering(e) # {}}
      /\ Enter(tab, none, a)

-----------------------------------------------------------------------------
\* Tabs and devices.

\* switchTab; leave() does nothing.
SwitchTab(t) ==
  /\ tab' = t
  /\ Enter(t, current, attrs)
  /\ UNCHANGED <<device, attrs, reads, asked, crossed, current, content, overtaken>>

\* selectDevice, a device list that selects, openPort's match, srsdConnect: the
\* device is selected, and _readDeviceAttrs sends the two commands that read its
\* attributes.
SelectDevice(d, r) ==
  /\ r \notin Reading
  /\ device' = d
  /\ reads' = [reads EXCEPT ![r] = d]
  /\ asked' = d
  /\ crossed' = (Reading # {})
  /\ UNCHANGED <<tab, attrs, engines>>

\* selectDevice of a device that is not ready: nothing is read.
SelectUnready(d) ==
  /\ device' = d
  /\ UNCHANGED <<tab, attrs, reads, asked, crossed, engines>>

\* _readDeviceAttrs goes on: the attributes it read, or none if the commands
\* failed.
AttrsRead(r) ==
  /\ r \in Reading
  /\ \E a \in {reads[r], NoDevice} : Refresh(a)
  /\ reads' = [reads EXCEPT ![r] = NoDevice]
  /\ UNCHANGED <<tab, device, asked, crossed>>

\* closePort, or closeDevice: the attributes stay.
CloseDevice ==
  /\ device' = NoDevice
  /\ UNCHANGED <<tab, attrs, reads, asked, crossed, engines>>

\* srsdDisconnect, with _clearDeviceAttrs.
SrsdDisconnect ==
  /\ device' = NoDevice
  /\ Refresh(NoDevice)
  /\ UNCHANGED <<tab, reads, asked, crossed>>

-----------------------------------------------------------------------------
\* enter(), after its awaits.

\* The profile is there, or the default one if it could not be fetched.  The
\* container is emptied.
FetchProfile(e, v) ==
  /\ visits[e][v].at = "fetch"
  /\ \E m \in {visits[e][v].model, NoDevice} :
       visits' = [visits EXCEPT ![e][v] = [at |-> "import", model |-> m]]
  /\ content' = [content EXCEPT ![e] = "blank"]
  /\ UNCHANGED <<page, current, overtaken>>

\* A module that does not load is asked for again.
WrongMount(e, v) ==
  /\ visits[e][v].at = "import"
  /\ \/ /\ current' = [current EXCEPT ![e] = visits[e][v].model]
        /\ content' = [content EXCEPT ![e] = "component"]
        /\ visits' = [visits EXCEPT ![e][v] = Idle]
     \/ /\ visits' = [visits EXCEPT ![e][v].at = "fetch"]
        /\ UNCHANGED <<current, content>>
  /\ UNCHANGED <<page, overtaken>>

\* The module is there: its component becomes the current one and is mounted.
\* The container has an error instead if the module does not load, or if mount
\* throws; then the component is the current one all the same.
Mount(e, v) ==
  /\ visits[e][v].at = "import"
  /\ \/ /\ current' = [current EXCEPT ![e] = visits[e][v].model]
        /\ \E shown \in {"component", "error"} : content' = [content EXCEPT ![e] = shown]
     \/ content' = [content EXCEPT ![e] = "error"] /\ UNCHANGED current
  /\ visits' = [visits EXCEPT ![e][v] = Idle]
  /\ UNCHANGED <<page, overtaken>>

-----------------------------------------------------------------------------
GoesOn(e, v) == FetchProfile(e, v) \/ Mount(e, v)

Next ==
  \/ \E t \in Engine \cup {OtherTab} : SwitchTab(t)
  \/ \E r \in Read : AttrsRead(r) \/ \E d \in Device : SelectDevice(d, r)
  \/ \E d \in Device : SelectUnready(d)
  \/ CloseDevice
  \/ SrsdDisconnect
  \/ \E e \in Engine, v \in Visit : GoesOn(e, v)

\* A request of the browser is answered or fails.
Fairness == \A e \in Engine, v \in Visit : WF_vars(GoesOn(e, v))

Spec == Init /\ [][Next]_vars

FairSpec == Spec /\ Fairness

-----------------------------------------------------------------------------
\* The tab the user looks at is not left blank: it has a component or an error,
\* or an enter() is under way that will put one there, whatever was reset in the
\* meantime (_remountActiveEngine, and "if (_current) return").
TabIsServed ==
  \A e \in Engine : tab = e => content[e] # "blank" \/ Entering(e) # {}

\* A component that was chosen for a device is shown for the selected device
\* only, from the selection over the reading, the reset and the two awaits of
\* enter() to the container, if neither two readings nor a reset and an enter()
\* overlapped.  It is not about a device whose attributes nobody asked for, as
\* one that was not ready.
ShownIsSelected ==
  \A e \in Engine :
    content[e] = "component" /\ current[e] # NoDevice =>
      \/ current[e] = device
      \/ device # asked
      \/ Reading # {} \/ crossed
      \/ e \in overtaken

\* Who opens a tab gets to see something, however often the device changes.
TabComes == \A e \in Engine : tab = e ~> (content[e] # "blank" \/ tab # e)

\* A mounted component keeps its results until reset(): "if a component is
\* mounted already its results are kept (no second mount)", says engine.js:68.
\* Of two enter() calls that overlap the second empties the container.
ResultsAreKept ==
  [][\A e \in Engine :
       content[e] = "component" =>
         content'[e] = "component" \/ current'[e] = NoComponent]_vars
=============================================================================
