------------------------------ MODULE LogStreams ------------------------------
(***************************************************************************)
(* The log streams of the Python agent (woorinet_remote_diag_agent.py): a  *)
(* browser starts and stops logcat, a log file or the kernel messages of a *)
(* device, and a thread passes the lines of an adb process on to it.       *)
(*                                                                         *)
(* The three kinds are the same code three times over, each with its slot, *)
(* a global variable with the Event that stops the latest stream, so this  *)
(* module has one slot.  python-socketio runs each command in a thread of  *)
(* its own, and nothing guards the slot: between two accesses of one       *)
(* thread all others may run.                                              *)
(***************************************************************************)
EXTENDS Naturals

CONSTANTS
  Handler,  \* threads that carry out a command
  Stream,   \* streams with their Event, thread and process
  NoStream  \* None

ASSUME StreamAssumption == NoStream \notin Stream

VARIABLES
  slot,       \* _logcat_stop, _log_stop or _kmsg_stop: the stream it can stop
  command,    \* handler -> the command it carries out
  at,         \* handler -> its next step
  new,        \* handler -> the stream its start command has made
  stage,      \* stream -> what its thread does
  is_set,     \* streams whose Event is set
  adb,        \* streams whose adb process is there
  connected,  \* the agent's connection to the server
  \* history
  alone,      \* handlers that no other command overlapped so far
  stray,      \* streams that overlapping commands pushed out of the slot
  late        \* running stream -> lines it has sent since its Event was set

slots   == <<slot, command, at, new, alone, stray>>
threads == <<stage, adb, late>>
vars    == <<slots, threads, is_set, connected>>

Command == {"start", "stop"}

\* A stream's thread: not there; started; testing the Event; waiting for a
\* line; having one; over.
Stage == {"none", "launched", "test", "read", "emit", "ended"}

TypeOK ==
  /\ slot \in Stream \cup {NoStream}
  /\ command \in [Handler -> Command]
  /\ at \in [Handler -> {"idle", "test", "set", "clear", "register", "launch"}]
  /\ new \in [Handler -> Stream \cup {NoStream}]
  /\ stage \in [Stream -> Stage]
  /\ is_set \subseteq Stream
  /\ adb \subseteq Stream
  /\ connected \in BOOLEAN
  /\ alone \subseteq Handler
  /\ stray \subseteq Stream
  /\ late \in [Stream -> Nat]

Init ==
  /\ slot = NoStream
  /\ command = [h \in Handler |-> "stop"]
  /\ at = [h \in Handler |-> "idle"]
  /\ new = [h \in Handler |-> NoStream]
  /\ stage = [s \in Stream |-> "none"]
  /\ is_set = {}
  /\ adb = {}
  /\ connected = TRUE
  /\ alone = {}
  /\ stray = {}
  /\ late = [s \in Stream |-> 0]

-----------------------------------------------------------------------------
\* Each definition named Wrong... is a plausible slip in the one after it; the
\* specification does not use it.

Busy == {h \in Handler : at[h] # "idle"}

Running(s) == stage[s] \in {"launched", "test", "read", "emit"}

\* Streams that run and that nothing has told to stop.
Unstopped == {s \in Stream : Running(s) /\ s \notin is_set}

\* Nothing refers to s: a new stream may bear the name.
Unknown(s) ==
  /\ ~Running(s)
  /\ s \notin adb
  /\ slot # s
  /\ \A h \in Handler : new[h] # s

Goto(h, where) == at' = [at EXCEPT ![h] = where]

\* The handler writes v into the slot.  A stream that is in it and has not been
\* told to stop goes astray, if another command meddled.
Write(h, v) ==
  /\ slot' = v
  /\ stray' = (IF slot \in Unstopped /\ h \notin alone
               THEN stray \cup {slot} ELSE stray) \ {v}

-----------------------------------------------------------------------------
\* The commands.

\* on_command: a start or a stop comes in.  Whatever it overlaps is not alone.
Begin(h, cmd) ==
  /\ connected
  /\ h \notin Busy
  /\ command' = [command EXCEPT ![h] = cmd]
  /\ Goto(h, "test")
  /\ alone' = IF Busy = {} THEN {h} ELSE {}
  /\ UNCHANGED <<slot, new, stray, threads, is_set, connected>>

\* A start command leaves the stream that runs alone.
WrongTest(h) ==
  /\ at[h] = "test"
  /\ Goto(h, IF command[h] = "start" THEN "register"
             ELSE IF slot # NoStream THEN "set" ELSE "idle")
  /\ UNCHANGED <<slot, command, new, alone, stray, threads, is_set, connected>>

\* "if _logcat_stop", the test of _logcat_stop_fn, which a start command calls
\* first.
Test(h) ==
  /\ at[h] = "test"
  /\ Goto(h, IF slot # NoStream THEN "set"
             ELSE IF command[h] = "start" THEN "register" ELSE "idle")
  /\ UNCHANGED <<slot, command, new, alone, stray, threads, is_set, connected>>

\* "_logcat_stop.set()".  The slot is read anew: another command may have put
\* None into it, and this one fails with an exception.
SetEvent(h) ==
  /\ at[h] = "set"
  /\ IF slot = NoStream
     THEN Goto(h, "idle") /\ UNCHANGED is_set
     ELSE Goto(h, "clear") /\ is_set' = is_set \cup {slot}
  /\ UNCHANGED <<slot, command, new, alone, stray, threads, connected>>

\* The slot keeps the stream that was stopped.
WrongClear(h) ==
  /\ at[h] = "clear"
  /\ Goto(h, IF command[h] = "start" THEN "register" ELSE "idle")
  /\ UNCHANGED <<slot, command, new, alone, stray, threads, is_set, connected>>

\* "_logcat_stop = None"
Clear(h) ==
  /\ at[h] = "clear"
  /\ Write(h, NoStream)
  /\ Goto(h, IF command[h] = "start" THEN "register" ELSE "idle")
  /\ UNCHANGED <<command, new, alone, threads, is_set, connected>>

\* "stop = threading.Event(); _logcat_stop = stop"
Register(h, s) ==
  /\ at[h] = "register"
  /\ Unknown(s)
  /\ Write(h, s)
  /\ new' = [new EXCEPT ![h] = s]
  /\ stage' = [stage EXCEPT ![s] = "none"]
  /\ is_set' = is_set \ {s}
  /\ late' = [late EXCEPT ![s] = 0]
  /\ Goto(h, "launch")
  /\ UNCHANGED <<command, alone, adb, connected>>

\* The stream's thread starts, and the command is done.  The stream may have
\* been pushed out of the slot before it runs.
Launch(h) ==
  /\ at[h] = "launch"
  /\ stage' = [stage EXCEPT ![new[h]] = "launched"]
  /\ stray' = IF slot # new[h] /\ new[h] \notin is_set
              THEN stray \cup {new[h]} ELSE stray
  /\ new' = [new EXCEPT ![h] = NoStream]
  /\ Goto(h, "idle")
  /\ UNCHANGED <<slot, command, alone, adb, late, is_set, connected>>

-----------------------------------------------------------------------------
\* The thread of a stream.

\* The thread is over.  Its process goes too, unless terminate() was not
\* reached.
End(s, terminated) ==
  /\ stage' = [stage EXCEPT ![s] = "ended"]
  /\ adb' = IF terminated THEN adb \ {s} ELSE adb
  /\ late' = [late EXCEPT ![s] = 0]

\* Popen, which fails without an adb program.
Spawn(s) ==
  /\ stage[s] = "launched"
  /\ \/ stage' = [stage EXCEPT ![s] = "test"] /\ adb' = adb \cup {s} /\ UNCHANGED late
     \/ End(s, TRUE)
  /\ UNCHANGED <<slots, is_set, connected>>

\* A thread that finds its Event set waits instead of leaving its loop.
WrongTestEvent(s) ==
  /\ stage[s] = "test"
  /\ s \notin is_set
  /\ stage' = [stage EXCEPT ![s] = "read"]
  /\ UNCHANGED <<slots, adb, late, is_set, connected>>

\* "while not stop.is_set()"
TestEvent(s) ==
  /\ stage[s] = "test"
  /\ \/ s \in is_set /\ End(s, TRUE)
     \/ s \notin is_set /\ stage' = [stage EXCEPT ![s] = "read"] /\ UNCHANGED <<adb, late>>
  /\ UNCHANGED <<slots, is_set, connected>>

\* readline returns: a line, or nothing when the process has ended.
ReadLine(s) ==
  /\ stage[s] = "read"
  /\ \/ stage' = [stage EXCEPT ![s] = "emit"] /\ UNCHANGED <<adb, late>>
     \/ End(s, TRUE)
  /\ UNCHANGED <<slots, is_set, connected>>

\* The line goes to the server.  Without a connection emit raises an exception,
\* and so does the emit that would report it: the thread is gone without having
\* ended its process.
Emit(s) ==
  /\ stage[s] = "emit"
  /\ \/ /\ connected
        /\ stage' = [stage EXCEPT ![s] = "test"]
        /\ late' = [late EXCEPT ![s] = IF s \in is_set THEN @ + 1 ELSE @]
        /\ UNCHANGED adb
     \/ ~connected /\ End(s, FALSE)
  /\ UNCHANGED <<slots, is_set, connected>>

\* A process that nobody reads from fails at its next line.
AdbDies(s) ==
  /\ s \in adb /\ ~Running(s)
  /\ adb' = adb \ {s}
  /\ UNCHANGED <<slots, stage, late, is_set, connected>>

\* The connection breaks, or the main loop has made a new one.
Connection ==
  /\ connected' = ~connected
  /\ UNCHANGED <<slots, threads, is_set>>

-----------------------------------------------------------------------------
Handle(h) ==
  \/ Test(h) \/ SetEvent(h) \/ Clear(h) \/ Launch(h)
  \/ \E s \in Stream : Register(h, s)

Thread(s) == Spawn(s) \/ TestEvent(s) \/ Emit(s)

Next ==
  \/ \E h \in Handler : Handle(h) \/ \E cmd \in Command : Begin(h, cmd)
  \/ \E s \in Stream : Thread(s) \/ ReadLine(s) \/ AdbDies(s)
  \/ Connection

\* The interpreter runs every thread that can run.  When the next line comes is
\* up to the device: readline may wait for ever.
Fairness == \A s \in Stream : WF_vars(Thread(s))

Spec == Init /\ [][Next]_vars

FairSpec == Spec /\ Fairness

-----------------------------------------------------------------------------
\* Who may still be stopped: a stream that runs and was not told to stop is in
\* the slot, where the next command finds it, unless commands that overlapped
\* pushed it out.  No break of the connection, no process that ends by itself
\* and no command on its own loses one (_logcat_start calls _logcat_stop_fn).
Stoppable == Unstopped \ stray \subseteq {slot}

\* What a command on its own leaves behind: it does not fail, a stop leaves
\* nothing in the slot, and of all streams that earlier commands started only
\* its own goes on, strays apart.
AloneCommandsWork ==
  [][\A h \in alone \cap Busy : at'[h] = "idle" =>
       /\ at[h] # "set"
       /\ {s \in Unstopped' : s \notin stray'} =
            IF command[h] = "start" THEN {slot'} ELSE {}
       /\ command[h] = "stop" => slot' = NoStream]_vars

\* A stream sends one line at most after it was told to stop, the one it was
\* waiting for, although nothing wakes its thread.
OneMoreLine == \A s \in Stream : late[s] <= 1

\* A stream that was told to stop ends, with its process, unless the device
\* never sends another line.
StoppedStreamsEnd ==
  \A s \in Stream :
    \/ <>[](stage[s] = "read")
    \/ []<>(s \in is_set => ~Running(s))
=============================================================================
