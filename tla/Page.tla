--------------------------------- MODULE Page ---------------------------------
(***************************************************************************)
(* The browser's page: what an operator does with it (RemoteControl), what *)
(* it does with ports and devices (UsbPort), and what its engines show     *)
(* (Engines).  They share no state.                                        *)
(***************************************************************************)
EXTENDS RemoteControl

CONSTANTS
  Device, NoDevice, Mode, NoMode, OwnMode, Operation,
  Engine, OtherTab, NoComponent, Read, Visit

ASSUME PageAssumption ==
  /\ NoDevice \notin Device
  /\ {0, 3} \cup OwnMode \subseteq Mode
  /\ NoMode \notin Mode
  /\ NoComponent \notin Device \cup {NoDevice}
  /\ OtherTab \notin Engine

VARIABLES
  port, serial, orig, matched, list, ops, open, mode, own, trouble,
  tab, device, attrs, reads, current, content, visits, asked, crossed, overtaken

Ports == INSTANCE UsbPort

Eng == INSTANCE Engines

ports_vars   == <<port, serial, orig, matched, list, ops, open, mode, own, trouble>>
engines_vars == <<tab, device, attrs, reads, current, content, visits, asked, crossed, overtaken>>

-----------------------------------------------------------------------------
\* Whatever the agent answers to openPort, closePort and doLogout, a device that
\* openPort has taken out of its own mode stays the selected port's, with the mode
\* to set back remembered, until it is set back; UsbPort names what is excepted.
ModesAreRestored == Ports!TypeOK /\ Ports!RestoredWithoutTrouble

\* Shell commands go to a device that the page has mapped to a port.
SelectedIsMatched == Ports!SelectedIsMatched

\* The active tab shows what its engine has chosen for the selected device.
EnginesShow == Eng!TypeOK /\ Eng!TabIsServed /\ Eng!ShownIsSelected

\* Who opens a tab gets to see something.
TabComes == Eng!TabComes

-----------------------------------------------------------------------------
\* What the code's comments say and the code does not keep.

\* doLogout leaves a device in its own mode (app.js:9, 222).
LogoutRestores == Ports!LogoutRestores

\* A mounted component is not mounted again (engine.js:68).
ResultsAreKept == Eng!ResultsAreKept
=============================================================================
