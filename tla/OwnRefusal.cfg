\* Two requests on their way to one operator.
CONSTANTS
  Part = {"remote"}
  MaxOverlaps = 0
  Browser = {b1, b2}
  Controller = {k1, k2}
  Code = {c1}
  NoBrowser = NoBrowser
  NoController = NoController
  NoCode = NoCode
  MaxLag = 2
  Device = {d1, d2}
  NoDevice = NoDevice
  Mode = {0, 2, 3}
  NoMode = NoMode
  OwnMode = {0, 2, 3}
  Operation = {o1}
  Engine = {diag}
  OtherTab = OtherTab
  NoComponent = NoComponent
  Read = {r1, r2}
  Visit = {v1, v2}
  b1 = b1
  k1 = k1
  d1 = d1
  o1 = o1
SPECIFICATION PageSpec
INVARIANT RefusalIsForOthers
