\* Two commands and two openings of the port at a time; two lines before the
\* result code make an answer that a rival can take the middle of.
\* Requests have a header of three, of which two are lengths, and answers in up
\* to three packets, cut anywhere, with one doubled.
\* Checksums are of all data of up to two bytes, which bring the register to
\* each of its 65,536 values.
CONSTANTS
  c1 = c1
  c2 = c2
  p1 = p1
  p2 = p2
  Cmd = {c1, c2}
  Handle = {p1, p2}
  NoHandle = NoHandle
  Info = 2
  Text <- Answers
  ErrorText <- Errors
  Checksum <- Checksums
  Provider = 65
  HeaderLen = 3
  MaxPackets = 3
  MaxDoubled = 1
  Byte <- AllBytes
  MaxBytes = 2
SPECIFICATION ModemSpec
INVARIANTS
  ForeignLinesAreRivals
  CleanAnswer
  AnswersAreTrue
  FramesAreSound
