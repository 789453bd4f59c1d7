------------------------------- MODULE GoStreams -------------------------------
(***************************************************************************)
(* The log streams of the Go agent (go_agent/log_stream.go).  As in the    *)
(* Python agent (LogStreams) a kind of stream has one slot, a streamProc,  *)
(* and the three kinds are the same code three times over; but the slot    *)
(* has a lock, a stream's process runs before it is in the slot, and a     *)
(* stop kills the process, so that the reader need not wait for a line.    *)
(*                                                                         *)
(* Every command is a goroutine of its own (socketio.go), and so is the    *)
(* reader of every stream.                                                 *)
(***************************************************************************)
EXTENDS Naturals

CONSTANTS
  Handler,  \* goroutines that carry out a command
  Stream,   \* streams with their process, channel and reader
  NoStream  \* nil, not a stream

VARIABLES
  slot,     \* logProc, logcatProc or kmsgProc: its cmd and its stop
  command,  \* handler -> the command it carries out
  at,       \* handler -> its next step
  new,      \* handler -> the stream whose process it has started
  running,  \* streams whose process runs
  closed,   \* streams whose stop channel is closed
  reader,   \* stream -> what its reader does
  \* history
  alone,    \* handlers that no other command overlapped so far
  stray,    \* streams that overlapping commands pushed out of the slot
  late      \* stream -> lines sent since its channel was closed; 2 for more than one

handlers == <<slot, command, at, new, alone, stray>>
vars     == <<handlers, running, closed, reader, late>>

Command == {"start", "stop"}

TypeOK ==
  /\ slot \in Stream \cup {NoStream}
  /\ command \in [Handler -> Command]
  /\ at \in [Handler -> {"idle", "kill", "spawn", "store"}]
  /\ new \in [Handler -> Stream \cup {NoStream}]
  /\ running \subseteq Stream
  /\ closed \subseteq Stream
  /\ reader \in [Stream -> {"none", "scan", "select", "emit", "done"}]
  /\ alone \subseteq Handler
  /\ stray \subseteq Stream
  /\ late \in [Stream -> 0..2]

Init ==
  /\ slot = NoStream
  /\ command = [h \in Handler |-> "stop"]
  /\ at = [h \in Handler |-> "idle"]
  /\ new = [h \in Handler |-> NoStream]
  /\ running = {}
  /\ closed = {}
  /\ reader = [s \in Stream |-> "none"]
  /\ alone = {}
  /\ stray = {}
  /\ late = [s \in Stream |-> 0]

-----------------------------------------------------------------------------
\* Each definition named Wrong... is a plausible slip in the one after it; the
\* specification does not use it.

Busy == {h \in Handler : at[h] # "idle"}

\* Streams whose process runs and that nothing has stopped.
Unstopped == running \ closed

\* Nothing refers to s: a new stream may bear the name.
Unknown(s) ==
  /\ s \notin running
  /\ reader[s] \in {"none", "done"}
  /\ slot # s
  /\ \A h \in Handler : new[h] # s

Goto(h, where) == at' = [at EXCEPT ![h] = where]

-----------------------------------------------------------------------------
\* The commands.

\* A start or a stop comes in; a start without a path is refused at once.
\* Whatever a command overlaps is not alone.
Begin(h, cmd) ==
  /\ h \notin Busy
  /\ command' = [command EXCEPT ![h] = cmd]
  /\ Goto(h, "kill")
  /\ alone' = IF Busy = {} THEN {h} ELSE {}
  /\ UNCHANGED <<slot, new, stray, running, closed, reader, late>>

\* What was killed stays in the slot.
WrongKillKeeps(h) ==
  /\ at[h] = "kill"
  /\ closed' = closed \cup ({slot} \ {NoStream})
  /\ running' = running \ {slot}
  /\ Goto(h, IF command[h] = "start" THEN "spawn" ELSE "idle")
  /\ UNCHANGED <<slot, command, new, alone, stray, reader, late>>

\* streamProc.kill, which a start command begins with: under the lock the
\* channel of the stream in the slot is closed, its process killed, and both are
\* forgotten.
Kill(h) ==
  /\ at[h] = "kill"
  /\ slot' = NoStream
  /\ closed' = closed \cup ({slot} \ {NoStream})
  /\ running' = running \ {slot}
  /\ Goto(h, IF command[h] = "start" THEN "spawn" ELSE "idle")
  /\ UNCHANGED <<command, new, alone, stray, reader, late>>

\* proc.Start, without the lock.
Spawn(h, s) ==
  /\ at[h] = "spawn"
  /\ Unknown(s)
  /\ new' = [new EXCEPT ![h] = s]
  /\ running' = running \cup {s}
  /\ closed' = closed \ {s}
  /\ reader' = [reader EXCEPT ![s] = "none"]
  /\ late' = [late EXCEPT ![s] = 0]
  /\ stray' = stray \ {s}
  /\ Goto(h, "store")
  /\ UNCHANGED <<slot, command, alone>>

\* The pipe or the process cannot be made.
SpawnFails(h) ==
  /\ at[h] = "spawn"
  /\ Goto(h, "idle")
  /\ UNCHANGED <<slot, command, new, alone, stray, running, closed, reader, late>>

\* The new stream goes into the slot, under the lock, and its reader starts.  A
\* stream that another start has put there since the kill goes astray.
Store(h) ==
  /\ at[h] = "store"
  /\ slot' = new[h]
  /\ stray' = IF slot \in Unstopped /\ h \notin alone THEN stray \cup {slot} ELSE stray
  /\ reader' = [reader EXCEPT ![new[h]] = "scan"]
  /\ new' = [new EXCEPT ![h] = NoStream]
  /\ Goto(h, "idle")
  /\ UNCHANGED <<command, alone, running, closed, late>>

-----------------------------------------------------------------------------
\* The reader of a stream, and its process.

\* scanner.Scan gives a line, as long as the process writes or a line is left in
\* the pipe.
ReadLine(s) ==
  /\ reader[s] = "scan"
  /\ reader' = [reader EXCEPT ![s] = "select"]
  /\ UNCHANGED <<handlers, running, closed, late>>

\* The pipe is at its end.
ReadEnd(s) ==
  /\ reader[s] = "scan"
  /\ s \notin running
  /\ reader' = [reader EXCEPT ![s] = "done"]
  /\ UNCHANGED <<handlers, running, closed, late>>

\* The channel is not looked at.
WrongSelect(s) ==
  /\ reader[s] = "select"
  /\ reader' = [reader EXCEPT ![s] = "emit"]
  /\ UNCHANGED <<handlers, running, closed, late>>

\* "case <-stop": the reader kills the process once more and leaves.
Select(s) ==
  /\ reader[s] = "select"
  /\ IF s \in closed
     THEN reader' = [reader EXCEPT ![s] = "done"] /\ running' = running \ {s}
     ELSE reader' = [reader EXCEPT ![s] = "emit"] /\ UNCHANGED running
  /\ UNCHANGED <<handlers, closed, late>>

\* sio.Emit; an error, as without a connection, is ignored.
Emit(s) ==
  /\ reader[s] = "emit"
  /\ reader' = [reader EXCEPT ![s] = "scan"]
  /\ late' = [late EXCEPT ![s] = IF s \in closed /\ @ < 2 THEN @ + 1 ELSE @]
  /\ UNCHANGED <<handlers, running, closed>>

\* The process ends by itself: dmesg is through, or the device is gone.
ProcessEnds(s) ==
  /\ s \in running
  /\ running' = running \ {s}
  /\ UNCHANGED <<handlers, closed, reader, late>>

-----------------------------------------------------------------------------
Handle(h) ==
  \/ Kill(h) \/ SpawnFails(h) \/ Store(h)
  \/ \E s \in Stream : Spawn(h, s)

Reads(s) == Select(s) \/ Emit(s) \/ ReadEnd(s)

Next ==
  \/ \E h \in Handler : Handle(h) \/ \E cmd \in Command : Begin(h, cmd)
  \/ \E s \in Stream : Reads(s) \/ ReadLine(s) \/ ProcessEnds(s)

\* The runtime runs every goroutine that can run, and a read of a pipe whose
\* process is gone returns.  When a running process writes is up to the device.
Fairness == \A s \in Stream : WF_vars(Reads(s))

Spec == Init /\ [][Next]_vars

FairSpec == Spec /\ Fairness

-----------------------------------------------------------------------------
\* Closing a channel twice is a panic, which ends the agent: what is in the slot
\* has an open channel, whatever commands overlap (kill closes and forgets under
\* one lock).
ClosedOnce == slot \notin closed

\* A stream that runs and was not stopped is in the slot, or on its way there,
\* unless commands that overlapped pushed it out: kill and store take the lock
\* one at a time, and two starts may both kill before either stores.
Stoppable == Unstopped \ stray \subseteq {slot} \cup {new[h] : h \in Handler}

\* What a command on its own leaves behind: nothing that runs but its own stream
\* and strays; after a stop an empty slot.
AloneCommandsWork ==
  [][\A h \in alone \cap Busy : at'[h] = "idle" =>
       /\ Unstopped' \ stray' \subseteq (IF command[h] = "start" THEN {slot'} ELSE {})
       /\ command[h] = "stop" => slot' = NoStream
       /\ at[h] = "store" => slot' = new[h]]_vars

\* A stopped stream's reader ends, whatever the device does: the process is
\* killed, and what is left in the pipe ends at the first line.  A line that was
\* past the select is still sent, but no other.
StoppedStreamsEnd ==
  \A s \in Stream : s \in closed ~> (reader[s] = "done" /\ late[s] <= 1)

\* What the code's comment says and the code does not keep: "if one is running
\* already, stop it first" (log_stream.go:41).  When no command is under way, one
\* stream runs at most.
OneStreamRuns == Busy = {} => \A s, t \in Unstopped : s = t
=============================================================================
