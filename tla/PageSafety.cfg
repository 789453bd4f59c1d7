\* Two browsers and two operators.  Two devices and two operations of the page
\* at a time; a mode with adb (0), the page's default (3), and one that is
\* neither.  The engines are PageLiveness's.
CONSTANTS
  Part = {"remote", "ports"}
  MaxOverlaps = 1
  Browser = {b1, b2}
  Controller = {k1, k2}
  Code = {c1}
  NoBrowser = NoBrowser
  NoController = NoController
  NoCode = NoCode
  MaxLag = 1
  Device = {d1, d2}
  NoDevice = NoDevice
  Mode = {0, 2, 3}
  NoMode = NoMode
  OwnMode = {0, 2, 3}
  Operation = {o1, o2}
  Engine = {}
  OtherTab = OtherTab
  NoComponent = NoComponent
  Read = {}
  Visit = {}
  b1 = b1
  k1 = k1
  d1 = d1
  o1 = o1
SPECIFICATION PageSpec
SYMMETRY Symmetry
INVARIANTS
  PairsAreSound
  NoStaleActive
  
PROPERTIES
  SelectedIsMatched
