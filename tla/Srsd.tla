--------------------------------- MODULE Srsd ---------------------------------
(***************************************************************************)
(* A request of the agent to the SRSD daemon of a device over UDP, and the *)
(* parsing of its answer (_srsd_send_recv and _srsd_parse of               *)
(* woorinet_remote_diag_agent.py; go_agent/srsd.go does the same).         *)
(*                                                                         *)
(* The answer is one frame, which the device may send in several packets;  *)
(* the agent puts together what comes until it has as much as the frame    *)
(* says, or until its time is up.  Packets are lost, doubled and           *)
(* reordered.  Every request has a socket of its own, so that one request  *)
(* is enough.                                                              *)
(*                                                                         *)
(* A frame is a sequence of numbers: its length, the rest of the header,   *)
(* of which the last is the payload's length, the payload's text, and the  *)
(* checksum, which the agent does not look at.                             *)
(***************************************************************************)
EXTENDS Integers, SequencesExt

CONSTANTS
  Text,       \* what the device may answer
  ErrorText,  \* _SRSD_ERRORS, some of Text
  Checksum,   \* what may be behind the payload
  Provider,   \* what the header has between its two lengths
  HeaderLen,  \* 42; two at least
  MaxPackets, \* bound: packets of an answer, as sent
  MaxDoubled  \* bound: packets the network doubles

VARIABLES
  phase,   \* of the request
  sent,    \* whether the device has answered
  answer,  \* the text it answered
  net,     \* packets under way
  resp,    \* resp: what has come so far
  result,  \* what the command returns
  \* history
  whole,   \* the answer's frame
  orderly, \* no packet was lost, doubled or overtaken
  doubled  \* packets that were doubled

vars == <<phase, sent, answer, net, resp, result, whole, orderly, doubled>>

Failure == [success |-> FALSE, text |-> <<>>]

TypeOK ==
  /\ phase \in {"idle", "waiting", "done"}
  /\ sent \in BOOLEAN
  /\ answer \in Text \cup {<<>>}
  /\ net \in Seq(Seq(Nat))
  /\ resp \in Seq(Nat)
  /\ result \in [success : BOOLEAN, text : Seq(Nat)]
  /\ whole \in Seq(Nat)
  /\ orderly \in BOOLEAN
  /\ doubled \in 0..MaxDoubled

Init ==
  /\ phase = "idle"
  /\ sent = FALSE
  /\ answer = <<>>
  /\ net = <<>>
  /\ resp = <<>>
  /\ result = Failure
  /\ whole = <<>>
  /\ orderly = TRUE
  /\ doubled = 0

-----------------------------------------------------------------------------
\* Each definition named Wrong... is a plausible slip in the one after it; the
\* specification does not use it.

\* The frame of a text.
Frame(text, checksum) ==
  LET header == [i \in 1..HeaderLen |->
                   CASE i = 1 -> HeaderLen + Len(text) + 1
                     [] i = HeaderLen -> Len(text)
                     [] OTHER -> Provider]
  IN  header \o text \o <<checksum>>

\* The ways to cut a sequence into n packets.
Cuts(seq, n) ==
  LET ends == {e \in [0..n -> 0..Len(seq)] :
                 e[0] = 0 /\ e[n] = Len(seq) /\ \A i \in 1..n : e[i - 1] < e[i]}
  IN  {[i \in 1..n |-> SubSeq(seq, e[i - 1] + 1, e[i])] : e \in ends}

\* The checksum counts as text.
WrongParse(data) ==
  IF Len(data) < HeaderLen
  THEN Failure
  ELSE LET end  == HeaderLen + data[HeaderLen] + 1
           text == SubSeq(data, HeaderLen + 1, IF end < Len(data) THEN end ELSE Len(data))
       IN  [success |-> text \notin ErrorText, text |-> text]

\* _srsd_parse: the text is as long as the header says, or as there is.  What
\* the daemon says of an error is a failure.
Parse(data) ==
  IF Len(data) < HeaderLen
  THEN Failure
  ELSE LET end  == HeaderLen + data[HeaderLen]
           text == SubSeq(data, HeaderLen + 1, IF end < Len(data) THEN end ELSE Len(data))
       IN  [success |-> text \notin ErrorText, text |-> text]

-----------------------------------------------------------------------------
\* _srsd_at or _srsd_shell: a new socket, and the request goes out.  It may be
\* lost: then the device does not answer.
Request ==
  /\ phase = "idle"
  /\ phase' = "waiting"
  /\ UNCHANGED <<sent, answer, net, resp, result, whole, orderly, doubled>>

\* The device answers, in one packet or several.
Answer(text, checksum, n) ==
  /\ phase = "waiting"
  /\ ~sent
  /\ sent' = TRUE
  /\ answer' = text
  /\ whole' = Frame(text, checksum)
  /\ net' \in Cuts(whole', n)
  /\ UNCHANGED <<phase, resp, result, orderly, doubled>>

Lose(i) ==
  /\ net' = RemoveAt(net, i)
  /\ orderly' = FALSE
  /\ UNCHANGED <<phase, sent, answer, resp, result, whole, doubled>>

Double(i) ==
  /\ doubled < MaxDoubled
  /\ net' = InsertAt(net, i, net[i])
  /\ doubled' = doubled + 1
  /\ orderly' = FALSE
  /\ UNCHANGED <<phase, sent, answer, resp, result, whole>>

\* A frame of just its length is not yet enough.
WrongReceive(i) ==
  /\ phase = "waiting"
  /\ resp' = resp \o net[i]
  /\ net' = RemoveAt(net, i)
  /\ orderly' = (orderly /\ i = 1)
  /\ IF Len(resp') > resp'[1]
     THEN phase' = "done" /\ result' = Parse(resp')
     ELSE UNCHANGED <<phase, result>>
  /\ UNCHANGED <<sent, answer, whole, doubled>>

\* recvfrom: any packet may be the next.  With as much as the first number of
\* what has come, the agent stops and parses.
Receive(i) ==
  /\ phase = "waiting"
  /\ resp' = resp \o net[i]
  /\ net' = RemoveAt(net, i)
  /\ orderly' = (orderly /\ i = 1)
  /\ IF Len(resp') >= resp'[1]
     THEN phase' = "done" /\ result' = Parse(resp')
     ELSE UNCHANGED <<phase, result>>
  /\ UNCHANGED <<sent, answer, whole, doubled>>

\* The deadline: what has come so far is parsed.
Timeout ==
  /\ phase = "waiting"
  /\ phase' = "done"
  /\ result' = Parse(resp)
  /\ UNCHANGED <<sent, answer, net, resp, whole, orderly, doubled>>

\* Nobody listens at the device's port, or it cannot be reached.
Refused ==
  /\ phase = "waiting"
  /\ ~sent
  /\ phase' = "done"
  /\ result' = Failure
  /\ UNCHANGED <<sent, answer, net, resp, whole, orderly, doubled>>

\* The socket is closed; what is still under way finds nobody.
Close ==
  /\ phase = "done"
  /\ phase' = "idle"
  /\ sent' = FALSE /\ answer' = <<>> /\ whole' = <<>>
  /\ net' = <<>> /\ orderly' = TRUE /\ doubled' = 0
  /\ resp' = <<>> /\ result' = Failure

-----------------------------------------------------------------------------
Next ==
  \/ Request
  \/ \E text \in Text, checksum \in Checksum, n \in 1..MaxPackets : Answer(text, checksum, n)
  \/ \E i \in DOMAIN net : Receive(i) \/ Lose(i) \/ Double(i)
  \/ Timeout
  \/ Refused
  \/ Close

Spec == Init /\ [][Next]_vars

-----------------------------------------------------------------------------
\* An answer whose packets come one after the other, however they were cut, is
\* returned as the device gave it, errors as failures; if the deadline comes
\* first, a success has the beginning of the text.  Nothing tells such a success
\* from a whole one, and nothing is said of packets that went astray: the agent
\* checks neither the checksum nor the payload's length.
AnswersAreTrue ==
  phase = "done" /\ orderly =>
    /\ resp = whole /\ sent => result = [success |-> answer \notin ErrorText, text |-> answer]
    /\ result.success => IsPrefix(result.text, answer)

\* Nobody waits for the deadline when all of the answer is there: packets that
\* came in order are enough as soon as they are all there, and not before.
EndsWithTheLast ==
  /\ phase = "waiting" /\ orderly => resp # whole \/ ~sent
  /\ phase = "waiting" /\ orderly => IsPrefix(resp, whole)

\* What the code's docstring says and the code does not keep: "since an answer
\* may be split into several UDP packets, it is received up to frame_length"
\* (woorinet_remote_diag_agent.py:900).  A command that reports success returns
\* all of what the device answered.
SuccessIsWhole == phase = "done" /\ result.success => result.text = answer
=============================================================================
