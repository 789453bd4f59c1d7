\* Two commands at a time, as many as it takes for one to push another's stream
\* out of the slot; three streams, so that one can run beside the strays of both.
\* The Go agent's streams end sooner: two are enough for a stray and another.
CONSTANTS
  Handler = {h1, h2}
  Stream = {s1, s2, s3}
  GoStream = {s1, s2}
  NoStream = NoStream
  h1 = h1
  h2 = h2
  s1 = s1
  s2 = s2
  s3 = s3
SPECIFICATION StreamsSpec
INVARIANTS
  Stoppable
  GoStreamsAreStoppable
PROPERTIES
  AloneCommandsWork
  StoppedStreamsEnd
  GoCommandsWork
