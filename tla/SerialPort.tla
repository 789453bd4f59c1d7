------------------------------ MODULE SerialPort ------------------------------
(***************************************************************************)
(* AT commands over a serial port, in the Python agent                     *)
(* (woorinet_remote_diag_agent.py).  Browsers open and close the port and  *)
(* send commands; each command runs in a thread of its own.  _serial_lock  *)
(* guards the table of open ports, but not the exchange with the modem,    *)
(* which works on the connection it found in the table: the port may be    *)
(* closed, reopened, unplugged or used by another command meanwhile.       *)
(*                                                                         *)
(* Ports have nothing in common but the lock, so this module has one.  The *)
(* lines of an answer are reduced to the command they answer and to        *)
(* whether they end the answer.  The modem, which is not part of the       *)
(* program, answers its commands one after the other.                      *)
(***************************************************************************)
EXTENDS Naturals, Sequences, SequencesExt

CONSTANTS
  Cmd,        \* AT commands, each with its thread
  Handle,     \* Serial objects
  NoHandle,   \* no entry in _serial_conns
  Info        \* lines of an answer before its last

ASSUME HandleAssumption ==
  NoHandle \notin Handle /\ Info \in Nat

VARIABLES
  conn,      \* _serial_conns[port]
  is_open,   \* connections whose is_open is true
  dead,      \* connections that were unplugged, or whose close() failed half-way
  at,        \* command -> its next step
  ser,       \* command -> the connection it works on
  lines,     \* command -> the lines of its response
  result,    \* command -> what it reported
  asked,     \* commands the modem has yet to answer, in order
  sent,      \* lines of the first one's answer that the modem has sent
  input,     \* lines that wait in the port's input buffer
  \* history
  rivals     \* command -> commands it shared the modem or the buffer with

table == <<conn, is_open, dead>>
modem == <<asked, sent>>
mine  == <<at, ser, lines, result, rivals>>
vars  == <<table, modem, mine, input>>

Line == [of : Cmd, final : BOOLEAN]

TypeOK ==
  /\ conn \in Handle \cup {NoHandle}
  /\ is_open \subseteq Handle
  /\ dead \subseteq Handle
  /\ at \in [Cmd -> {"idle", "reset", "write", "read"}]
  /\ ser \in [Cmd -> Handle \cup {NoHandle}]
  /\ lines \in [Cmd -> Seq(Line)]
  /\ result \in [Cmd -> {"none", "answered", "timeout", "failed"}]
  /\ asked \in Seq(Cmd)
  /\ sent \in 0 .. Info
  /\ input \in Seq(Line)
  /\ rivals \in [Cmd -> SUBSET Cmd]

Init ==
  /\ conn = NoHandle
  /\ is_open = {}
  /\ dead = {}
  /\ at = [c \in Cmd |-> "idle"]
  /\ ser = [c \in Cmd |-> NoHandle]
  /\ lines = [c \in Cmd |-> <<>>]
  /\ result = [c \in Cmd |-> "none"]
  /\ asked = <<>>
  /\ sent = 0
  /\ input = <<>>
  /\ rivals = [c \in Cmd |-> {}]

-----------------------------------------------------------------------------
\* Each definition named Wrong... is a plausible slip in the one after it; the
\* specification does not use it.

Waiting == {c \in Cmd : at[c] # "idle"}

\* Reading from and writing to the connection raises no exception.
Works(h) == h \in is_open \ dead

\* Commands that have cleared the buffer and take lines from it.
Exchanging == {c \in Cmd : at[c] \in {"write", "read"}}

\* c clears the buffer or writes while the others are at it.
Disturb(c) == [d \in Cmd |->
  IF d \in Exchanging \ {c} THEN rivals[d] \cup {c} ELSE rivals[d]]

\* Nothing refers to c: a new command may bear the name.
Unknown(c) ==
  /\ c \notin Waiting
  /\ c \notin ToSet(asked)
  /\ \A l \in ToSet(input) : l.of # c
  /\ \A d \in Waiting : c \notin rivals[d]

\* The command is done.
Finish(c, outcome) ==
  /\ at' = [at EXCEPT ![c] = "idle"]
  /\ ser' = [ser EXCEPT ![c] = NoHandle]
  /\ result' = [result EXCEPT ![c] = outcome]

-----------------------------------------------------------------------------
\* The table, under its lock.

\* _at_open of a port that is not open; else it reports success and does
\* nothing, even if the device was unplugged since.
AtOpen(h) ==
  /\ conn \notin is_open
  /\ h \notin is_open
  /\ \A c \in Cmd : ser[c] # h
  /\ conn' = h
  /\ is_open' = is_open \cup {h}
  /\ dead' = dead \ {h}
  /\ input' = <<>>
  /\ UNCHANGED <<modem, mine>>

\* _at_close of a port in the table.  If close() raises an exception, the entry
\* stays, whether the connection still counts as open or not, and the connection
\* works no more.
AtClose ==
  /\ conn # NoHandle
  /\ \/ conn' = NoHandle /\ is_open' = is_open \ {conn} /\ UNCHANGED dead
     \/ is_open' = is_open \ {conn} /\ UNCHANGED <<conn, dead>>
     \/ dead' = dead \cup {conn} /\ UNCHANGED <<conn, is_open>>
  /\ input' = <<>>
  /\ UNCHANGED <<modem, mine>>

-----------------------------------------------------------------------------
\* _at_send, step by step.

\* The connection is looked up under the lock.
AtSend(c) ==
  /\ Unknown(c)
  /\ \/ /\ conn \in is_open
        /\ at' = [at EXCEPT ![c] = "reset"]
        /\ ser' = [ser EXCEPT ![c] = conn]
        /\ result' = [result EXCEPT ![c] = "none"]
     \/ /\ conn \notin is_open
        /\ Finish(c, "failed")
  /\ lines' = [lines EXCEPT ![c] = <<>>]
  /\ rivals' = [rivals EXCEPT ![c] = {}]
  /\ UNCHANGED <<table, modem, input>>

\* What is left of earlier answers stays in the buffer.
WrongResetInput(c) ==
  /\ at[c] = "reset"
  /\ Works(ser[c])
  /\ at' = [at EXCEPT ![c] = "write"]
  /\ rivals' = [Disturb(c) EXCEPT ![c] = ToSet(asked) \cup Exchanging]
  /\ UNCHANGED <<table, modem, input, ser, lines, result>>

\* reset_input_buffer.  From here on the commands that the modem has yet to
\* answer, and those that read from the same buffer, are in the way.
ResetInput(c) ==
  /\ at[c] = "reset"
  /\ Works(ser[c])
  /\ input' = <<>>
  /\ at' = [at EXCEPT ![c] = "write"]
  /\ rivals' = [Disturb(c) EXCEPT ![c] = ToSet(asked) \cup Exchanging]
  /\ UNCHANGED <<table, modem, ser, lines, result>>

WriteCommand(c) ==
  /\ at[c] = "write"
  /\ Works(ser[c])
  /\ asked' = Append(asked, c)
  /\ at' = [at EXCEPT ![c] = "read"]
  /\ rivals' = Disturb(c)
  /\ UNCHANGED <<table, sent, input, ser, lines, result>>

\* The response ends with the first line that is there.
WrongReadLine(c) ==
  /\ at[c] = "read"
  /\ Works(ser[c])
  /\ input # <<>>
  /\ input' = Tail(input)
  /\ lines' = [lines EXCEPT ![c] = Append(@, Head(input))]
  /\ Finish(c, "answered")
  /\ UNCHANGED <<table, modem, rivals>>

\* in_waiting and readline.  OK, ERROR and the like end the response.
ReadLine(c) ==
  /\ at[c] = "read"
  /\ Works(ser[c])
  /\ input # <<>>
  /\ input' = Tail(input)
  /\ lines' = [lines EXCEPT ![c] = Append(@, Head(input))]
  /\ IF Head(input).final THEN Finish(c, "answered") ELSE UNCHANGED <<at, ser, result>>
  /\ UNCHANGED <<table, modem, rivals>>

\* The deadline: success is reported, with the lines so far.
Deadline(c) ==
  /\ at[c] = "read"
  /\ Finish(c, "timeout")
  /\ UNCHANGED <<table, modem, input, lines, rivals>>

\* The connection raises an exception.
SendFails(c) ==
  /\ c \in Waiting
  /\ ~Works(ser[c])
  /\ Finish(c, "failed")
  /\ UNCHANGED <<table, modem, input, lines, rivals>>

-----------------------------------------------------------------------------
\* The modem and its cable.

\* A line gets through if the port is open.
Arrives(l) == input' = IF Works(conn) THEN Append(input, l) ELSE input

ModemInfo ==
  /\ asked # <<>>
  /\ sent < Info
  /\ sent' = sent + 1
  /\ Arrives([of |-> Head(asked), final |-> FALSE])
  /\ UNCHANGED <<table, asked, mine>>

ModemFinal ==
  /\ asked # <<>>
  /\ sent = Info
  /\ sent' = 0
  /\ asked' = Tail(asked)
  /\ Arrives([of |-> Head(asked), final |-> TRUE])
  /\ UNCHANGED <<table, mine>>

\* The modem loses its power with its cable.
Unplug ==
  /\ Works(conn)
  /\ dead' = dead \cup {conn}
  /\ asked' = <<>>
  /\ sent' = 0
  /\ input' = <<>>
  /\ UNCHANGED <<conn, is_open, mine>>

-----------------------------------------------------------------------------
\* What a command's thread does once it has begun.
Step(c) ==
  \/ ResetInput(c) \/ WriteCommand(c) \/ ReadLine(c) \/ Deadline(c) \/ SendFails(c)

Next ==
  \/ \E h \in Handle : AtOpen(h)
  \/ AtClose
  \/ \E c \in Cmd : AtSend(c) \/ Step(c)
  \/ ModemInfo \/ ModemFinal \/ Unplug

Spec == Init /\ [][Next]_vars

-----------------------------------------------------------------------------
\* A port has one connection at most, and it is the one in the table: none is
\* left behind open, which would keep the port from being opened again.
OneConnection == is_open \subseteq {conn}

\* Whose lines a response may hold: the command's own, and those of commands
\* that were unanswered or waiting when it cleared the buffer or that came while
\* it waited.  The late answer of a command that had timed out and was answered
\* before is never taken for the next one's (reset_input_buffer).
ForeignLinesAreRivals ==
  \A c \in Cmd : \A l \in ToSet(lines[c]) : l.of \in {c} \cup rivals[c]

\* A command without a rival that ends before its deadline reports its own
\* answer, all of it and in order, whatever was closed, opened and unplugged.
CleanAnswer ==
  \A c \in Cmd : result[c] = "answered" /\ rivals[c] = {} =>
    lines[c] = [i \in 1 .. Info + 1 |-> [of |-> c, final |-> i = Info + 1]]
=============================================================================
