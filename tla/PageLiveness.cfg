\* Two browsers and one operator.  One engine (they are the same code), and two
\* devices with a reading of each under way and two enter() calls, what it takes
\* for the later of two to come first.  The ports are PageSafety's.
CONSTANTS
  Part = {"remote", "engines"}
  MaxOverlaps = 1
  Browser = {b1, b2}
  Controller = {k1}
  Code = {c1}
  NoBrowser = NoBrowser
  NoController = NoController
  NoCode = NoCode
  MaxLag = 1
  Device = {d1, d2}
  NoDevice = NoDevice
  Mode = {0, 3}
  NoMode = NoMode
  OwnMode = {3}
  Operation = {}
  Engine = {diag}
  OtherTab = OtherTab
  NoComponent = NoComponent
  Read = {r1, r2}
  Visit = {v1, v2}
  b1 = b1
  k1 = k1
  d1 = d1
  o1 = o1
SPECIFICATION FairPageSpec
INVARIANT EnginesShow
PROPERTIES
  ActivationIsShown
  TabComes
