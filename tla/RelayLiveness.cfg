SPECIFICATION FairSpec
CONSTANTS
  a1 = a1
  a2 = a2
  b1 = b1
  b2 = b2
  limited = limited
  unlimited = unlimited
  NoCode = NoCode
  NoAgent = NoAgent
  Agent = {a1, a2}
  Browser = {b1}
  Code = {limited, unlimited}
  Unlimited = {unlimited}
  MaxUses <- MCMaxUses
PROPERTIES
  SessionsEnd
  OrphanLocksCleared
