\* Codes: a limited code that may expire and have two sessions, so that the timer
\* of the first meets the second, and an unlimited one that the menus handle; one
\* crash between any two steps.
\* Attempts: three failures, a window of four ticks and blocks of two: a window
\* holds two full blocks, as the 600 and 300 seconds of the code do.  Twelve ticks
\* are two windows, a block and more: entries age past the clean-up's limit.
CONSTANTS
  c1 = c1
  c2 = c2
  Code = {c1, c2}
  Unlimited = {c2}
  MaxUses <- Uses
  Expiring = {c1}
  Server = server
  Admin = admin
  NoCode = NoCode
  NoScreen = NoScreen
  MaxStarted <- Sessions
  MaxCrashes = 1
  Ip = {i1, i2}
  FailMax = 3
  BlockSec = 2
  FailWindow = 4
  MaxTime = 12
SPECIFICATION RecordSpec
INVARIANTS
  UsesAddUp
  GuessesAreBounded
PROPERTIES
  ServerKeepsCodes
  StartsOnFreeCode
  BlockIsServed
  LocksReleased
\* Sessions, menus and crashes run out, both programs may be gone, and the clock
\* stops at MaxTime.
CHECK_DEADLOCK FALSE
