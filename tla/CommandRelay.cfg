\* Two pages on one agent.  A page's command has the same number after each load
\* as before, and as the other page's.  With a third socket id a dead socket can
\* be among the server's browsers while both pages are connected; with two
\* requests under way one that a page has kept goes before its socket's hello.
CONSTANTS
  Page = {p1, p2}
  Sid = {s1, s2, s3}
  NoSid = NoSid
  Nobody = Nobody
  MaxCommands = 1
  MaxWork = 1
  MaxAsked = 2
  MaxLag = 0
  MaxPopups = 1
SPECIFICATION TopicSpec
SYMMETRY Symmetry
INVARIANTS
  TypeOK
  ResultsAreOwn
  StatusIsTrue
  WaitsAreKnown
