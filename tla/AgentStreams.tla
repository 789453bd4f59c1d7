---------------------------- MODULE AgentStreams ----------------------------
(***************************************************************************)
(* The log streams of both agents: LogStreams is the Python agent's, Go    *)
(* the Go agent's.  A device runs one of the two.                          *)
(***************************************************************************)
EXTENDS LogStreams

CONSTANT GoStream  \* streams of the Go agent

ASSUME GoStreamAssumption == NoStream \notin GoStream

VARIABLES
  go_slot, go_command, go_at, go_new, running, closed, reader, go_alone, go_stray, go_late

Go == INSTANCE GoStreams WITH
  Stream <- GoStream, slot <- go_slot, command <- go_command, at <- go_at, new <- go_new,
  alone <- go_alone, stray <- go_stray, late <- go_late

go_vars ==
  <<go_slot, go_command, go_at, go_new, running, closed, reader, go_alone, go_stray, go_late>>

-----------------------------------------------------------------------------
\* The Go agent's streams can be stopped as the Python agent's can, and no
\* channel is closed twice, which would be a panic (streamProc.kill).
GoStreamsAreStoppable == Go!TypeOK /\ Go!ClosedOnce /\ Go!Stoppable

\* A command of the Go agent that nothing overlaps leaves just its own stream
\* behind, and a stopped stream ends without the device's help.
GoCommandsWork == Go!AloneCommandsWork /\ Go!StoppedStreamsEnd

\* The Go agent runs one stream of a kind, which log_stream.go:41 says and the
\* code does not keep.
GoOneStreamRuns == Go!OneStreamRuns
=============================================================================
