SPECIFICATION Spec
CONSTANTS
  a1 = a1
  a2 = a2
  b1 = b1
  b2 = b2
  limited = limited
  unlimited = unlimited
  NoCode = NoCode
  NoAgent = NoAgent
  Agent = {a1, a2}
  Browser = {b1, b2}
  Code = {limited, unlimited}
  Unlimited = {unlimited}
  MaxUses <- MCMaxUses
SYMMETRY Symmetry
INVARIANTS
  UseLimitKept
  RoutesAreSound
  SingleMode
  WaitingIsSound
PROPERTY
  KeepsLeases
