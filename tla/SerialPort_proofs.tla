--------------------------- MODULE SerialPort_proofs ---------------------------
(***************************************************************************)
(* Proofs about what an agent sends to a modem and gets back (Modem).      *)
(*                                                                         *)
(* AT commands (SerialPort), for any number of commands and connections    *)
(* and answers of any length.  A command's rivals are whoever could put a  *)
(* line where it reads or take one away.  RivalInv says so of every        *)
(* command that has cleared the buffer; without a rival, what the command  *)
(* has read, followed by what waits in the buffer, is what the modem has   *)
(* sent of its answer, as long as its connection works (Clean).            *)
(*                                                                         *)
(* Requests over UDP (Srsd), for any texts and checksums and any number of *)
(* packets.  While packets come in order, those under way are what is      *)
(* missing of the answer (Rest), cut wherever the device has cut it.       *)
(*                                                                         *)
(* The checksum (SrsdCrc), for any number of bytes.  A bit of a word is a  *)
(* formula over the bits it comes from; what the code does with a byte in  *)
(* one go and what the reference does bit by bit are the same formula, and *)
(* so is what the two bytes of a checksum make of the register.            *)
(***************************************************************************)
EXTENDS Modem, SequenceTheorems, TLAPS

\* The answer to c.
Answer(c) == [i \in 1 .. Info + 1 |-> [of |-> c, final |-> i = Info + 1]]

\* A command that has not reported has no result, one that has not written no
\* lines; a modem with nothing to answer has sent nothing of an answer.
CmdInv ==
  /\ \A c \in Cmd : /\ at[c] # "idle" => result[c] = "none"
                    /\ at[c] \in {"reset", "write"} => lines[c] = <<>>
  /\ asked = <<>> => sent = 0

\* What c may come across is its own or a rival's.
RivalInv ==
  \A c \in Exchanging :
    /\ ToSet(asked) \subseteq {c} \cup rivals[c]
    /\ \A l \in ToSet(input) : l.of \in {c} \cup rivals[c]
    /\ Exchanging \subseteq {c} \cup rivals[c]

\* Of c's answer the modem has sent what c has read and what is in the buffer.
Progress(c) ==
  /\ asked = <<>> \/ asked = <<c>>
  /\ Len(lines[c]) + Len(input) = IF asked = <<>> THEN Info + 1 ELSE sent
  /\ \A i \in 1 .. Len(lines[c]) : lines[c][i] = Answer(c)[i]
  /\ \A i \in 1 .. Len(input) : input[i] = Answer(c)[Len(lines[c]) + i]

Clean(c) ==
  rivals[c] = {} =>
    /\ at[c] = "write" => asked = <<>> /\ input = <<>>
    /\ at[c] = "read" /\ Works(ser[c]) => Progress(c)
    /\ result[c] = "answered" => lines[c] = Answer(c)

CleanInv == \A c \in Cmd : Clean(c)

IInv ==
  /\ TypeOK /\ OneConnection /\ CmdInv
  /\ ForeignLinesAreRivals /\ RivalInv /\ CleanInv

-----------------------------------------------------------------------------
\* Facts about sequences.

LEMMA Elements ==
  ASSUME NEW S, NEW s \in Seq(S)
  PROVE  /\ ToSet(<<>>) = {}
         /\ ToSet(s) \subseteq S
         /\ \A e \in S : ToSet(Append(s, e)) = ToSet(s) \cup {e}
         /\ s # <<>> => Head(s) \in ToSet(s) /\ ToSet(Tail(s)) \subseteq ToSet(s)
         /\ ToSet(s) = {} => s = <<>>
  <1>1. ToSet(<<>>) = {} /\ ToSet(s) \subseteq S
    BY DEF ToSet
  <1>2. ASSUME NEW e \in S  PROVE ToSet(Append(s, e)) = ToSet(s) \cup {e}
    <2>1. /\ DOMAIN s = 1 .. Len(s) /\ DOMAIN Append(s, e) = 1 .. Len(s) + 1
          /\ Len(s) \in Nat
          /\ \A i \in 1 .. Len(s) : Append(s, e)[i] = s[i]
          /\ Append(s, e)[Len(s) + 1] = e
      OBVIOUS
    <2>2. ASSUME NEW x \in ToSet(Append(s, e))  PROVE x \in ToSet(s) \cup {e}
      <3>1. PICK i \in 1 .. Len(s) + 1 : x = Append(s, e)[i]
        BY <2>1, <2>2 DEF ToSet
      <3>2. i \in 1 .. Len(s) \/ i = Len(s) + 1
        BY <2>1
      <3>. QED  BY <2>1, <3>1, <3>2 DEF ToSet
    <2>3. ASSUME NEW x \in ToSet(s) \cup {e}  PROVE x \in ToSet(Append(s, e))
      <3>1. CASE x = e
        <4>1. Len(s) + 1 \in 1 .. Len(s) + 1
          BY <2>1
        <4>. QED  BY <2>1, <3>1, <4>1 DEF ToSet
      <3>2. CASE x \in ToSet(s)
        <4>1. PICK i \in 1 .. Len(s) : x = s[i]
          BY <2>1, <3>2 DEF ToSet
        <4>2. i \in 1 .. Len(s) + 1
          BY <2>1
        <4>. QED  BY <2>1, <4>1, <4>2 DEF ToSet
      <3>. QED  BY <3>1, <3>2
    <2>. QED  BY <2>2, <2>3
  <1>3. ASSUME s # <<>>
        PROVE  Head(s) \in ToSet(s) /\ ToSet(Tail(s)) \subseteq ToSet(s)
    <2>1. /\ DOMAIN s = 1 .. Len(s) /\ Len(s) \in Nat /\ Len(s) > 0
          /\ Head(s) = s[1]
          /\ DOMAIN Tail(s) = 1 .. Len(s) - 1
          /\ \A i \in 1 .. Len(s) - 1 : Tail(s)[i] = s[i + 1]
      BY <1>3
    <2>. QED  BY <2>1 DEF ToSet
  <1>4. ASSUME ToSet(s) = {}  PROVE s = <<>>
    BY <1>3, <1>4
  <1>. QED  BY <1>1, <1>2, <1>3, <1>4

\* A line more in front is a line less behind.
LEMMA Shifted ==
  \A m, k \in Int : (m + 1) + k = m + (k + 1) /\ m + (k + 1) = (m + k) + 1
  OBVIOUS

\* The lines of the answer to c: only the last one ends it.
LEMMA AnswerParts ==
  ASSUME NEW c \in Cmd, NEW i \in 1 .. Info + 1
  PROVE  /\ Answer(c)[i] = [of |-> c, final |-> i = Info + 1]
         /\ Answer(c)[i] \in Line
         /\ Answer(c)[i].final <=> i = Info + 1
  BY DEF Answer, Line

\* What Disturb does to the rivals of those in between.
LEMMA Disturbs ==
  ASSUME IInv, NEW c \in Cmd
  PROVE  /\ Disturb(c) \in [Cmd -> SUBSET Cmd]
         /\ \A d \in Cmd : rivals[d] \subseteq Disturb(c)[d]
         /\ \A d \in Exchanging \ {c} : c \in Disturb(c)[d]
         /\ \A d \in Cmd \ (Exchanging \ {c}) : Disturb(c)[d] = rivals[d]
  <1>1. rivals \in [Cmd -> SUBSET Cmd]
    BY DEF IInv, TypeOK
  <1>2. \A d \in Cmd : Disturb(c)[d] = IF d \in Exchanging \ {c} THEN rivals[d] \cup {c}
                                       ELSE rivals[d]
    BY DEF Disturb
  <1>3. \A d \in Cmd : /\ rivals[d] \subseteq Cmd
                       /\ d \in Exchanging \ {c} => Disturb(c)[d] = rivals[d] \cup {c}
                       /\ d \notin Exchanging \ {c} => Disturb(c)[d] = rivals[d]
    BY <1>1, <1>2
  <1>4. Disturb(c) = [d \in Cmd |-> Disturb(c)[d]]
    BY DEF Disturb
  <1>5. ASSUME NEW d \in Cmd  PROVE Disturb(c)[d] \in SUBSET Cmd
    <2>1. rivals[d] \subseteq Cmd /\ rivals[d] \cup {c} \subseteq Cmd
      BY <1>1
    <2>2. Disturb(c)[d] = rivals[d] \cup {c} \/ Disturb(c)[d] = rivals[d]
      BY <1>2, Zenon
    <2>. QED  BY <2>1, <2>2
  <1>6. Disturb(c) \in [Cmd -> SUBSET Cmd]
    BY <1>4, <1>5
  <1>7. \A d \in Exchanging \ {c} : d \in Cmd
    BY DEF Exchanging
  <1>8. \A d \in Exchanging \ {c} : c \in Disturb(c)[d]
    <2>1. \A d \in Exchanging \ {c} : Disturb(c)[d] = rivals[d] \cup {c}
      BY <1>2, <1>7, Zenon
    <2>. QED  BY <2>1, Zenon
  <1>9. \A d \in Cmd \ (Exchanging \ {c}) : Disturb(c)[d] = rivals[d]
    BY <1>2, Zenon
  <1>10. \A d \in Cmd : rivals[d] \subseteq Disturb(c)[d]
    <2>1. \A d \in Cmd : Disturb(c)[d] = rivals[d] \cup {c} \/ Disturb(c)[d] = rivals[d]
      BY <1>2, Zenon
    <2>. QED  BY <2>1
  <1>. QED  BY <1>6, <1>8, <1>9, <1>10

-----------------------------------------------------------------------------
LEMMA InitIInv == Init => IInv
  <1> SUFFICES ASSUME Init  PROVE IInv
    OBVIOUS
  <1>1. TypeOK
    BY HandleAssumption DEF Init, TypeOK
  <1>2. OneConnection /\ CmdInv /\ RivalInv /\ CleanInv
    BY DEF Init, OneConnection, CmdInv, RivalInv, CleanInv, Clean, Exchanging
  <1>3. ForeignLinesAreRivals
    BY DEF Init, ForeignLinesAreRivals, ToSet
  <1>. QED  BY <1>1, <1>2, <1>3 DEF IInv

\* Steps that leave the commands alone and empty the buffer: a command whose
\* connection worked has lost it.
LEMMA TableIInv ==
  ASSUME IInv, (\E h \in Handle : AtOpen(h)) \/ AtClose \/ Unplug
  PROVE  IInv'
  <1>1. /\ UNCHANGED mine /\ input' = <<>>
        /\ \/ UNCHANGED modem
           \/ asked' = <<>> /\ sent' = 0
    BY DEF AtOpen, AtClose, Unplug
  <1>2. TypeOK'
    <2>1. conn' \in Handle \cup {NoHandle} /\ is_open' \subseteq Handle /\ dead' \subseteq Handle
      BY DEF IInv, TypeOK, Works, AtOpen, AtClose, Unplug
    <2>2. <<>> \in Seq(Cmd) /\ <<>> \in Seq(Line) /\ 0 \in 0 .. Info
      BY HandleAssumption
    <2>3. asked' \in Seq(Cmd) /\ sent' \in 0 .. Info /\ input' \in Seq(Line)
      BY <1>1, <2>2 DEF IInv, TypeOK, modem
    <2>. QED  BY <1>1, <2>1, <2>3 DEF IInv, TypeOK, mine
  <1>3. OneConnection' /\ \A c \in Cmd : ~Works(ser[c])'
    BY DEF IInv, TypeOK, OneConnection, Works, mine, AtOpen, AtClose, Unplug
  <1>4. CmdInv' /\ ForeignLinesAreRivals'
    BY <1>1 DEF IInv, CmdInv, ForeignLinesAreRivals, mine, modem
  <1>5. RivalInv'
    <2>1. ToSet(input') = {} /\ ToSet(asked') \subseteq ToSet(asked)
      BY <1>1 DEF ToSet, modem
    <2>. QED  BY <1>1, <2>1 DEF IInv, RivalInv, Exchanging, mine
  <1>6. CleanInv'
    BY <1>1, <1>3 DEF IInv, CleanInv, Clean, mine, modem
  <1>. QED  BY <1>2, <1>3, <1>4, <1>5, <1>6 DEF IInv

\* A command begins.
LEMMA AtSendIInv ==
  ASSUME IInv, NEW c \in Cmd, AtSend(c)
  PROVE  IInv'
  <1>1. /\ at[c] = "idle" /\ at'[c] \in {"reset", "idle"}
        /\ lines'[c] = <<>> /\ rivals'[c] = {}
        /\ result'[c] \in {"none", "failed"}
        /\ at'[c] = "reset" => result'[c] = "none"
        /\ \A d \in Cmd \ {c} : /\ at'[d] = at[d] /\ ser'[d] = ser[d]
                                /\ lines'[d] = lines[d] /\ result'[d] = result[d]
                                /\ rivals'[d] = rivals[d]
        /\ UNCHANGED <<table, modem, input>>
    BY DEF IInv, TypeOK, AtSend, Unknown, Waiting, Finish
  <1>2. TypeOK'
    <2>1. at' \in [Cmd -> {"idle", "reset", "write", "read"}]
      BY DEF IInv, TypeOK, AtSend, Finish
    <2>2. ser' \in [Cmd -> Handle \cup {NoHandle}]
      BY DEF IInv, TypeOK, AtSend, Finish
    <2>3. result' \in [Cmd -> {"none", "answered", "timeout", "failed"}]
      BY DEF IInv, TypeOK, AtSend, Finish
    <2>4. <<>> \in Seq(Line)
      OBVIOUS
    <2>5. lines' \in [Cmd -> Seq(Line)]
      BY <2>4 DEF IInv, TypeOK, AtSend
    <2>6. rivals' \in [Cmd -> SUBSET Cmd]
      BY DEF IInv, TypeOK, AtSend
    <2>. QED  BY <1>1, <2>1, <2>2, <2>3, <2>5, <2>6 DEF IInv, TypeOK, table, modem
  <1>3. OneConnection' /\ CmdInv'
    BY <1>1 DEF IInv, OneConnection, CmdInv, table, modem
  <1>4. ForeignLinesAreRivals'
    BY <1>1 DEF IInv, ForeignLinesAreRivals, ToSet
  <1>5. Exchanging' = Exchanging /\ c \notin Exchanging
    BY <1>1 DEF Exchanging
  <1>6. RivalInv'
    BY <1>1, <1>5 DEF IInv, RivalInv, Exchanging, modem
  <1>7. CleanInv'
    <2>1. ASSUME NEW d \in Cmd \ {c}  PROVE Clean(d)'
      <3>1. /\ asked' = asked /\ sent' = sent /\ input' = input /\ is_open' = is_open
            /\ dead' = dead
        BY <1>1 DEF table, modem
      <3>2. /\ at'[d] = at[d] /\ ser'[d] = ser[d] /\ lines'[d] = lines[d]
            /\ result'[d] = result[d] /\ rivals'[d] = rivals[d]
        BY <1>1
      <3>3. Progress(d)' <=> Progress(d)
        BY <3>1, <3>2, ZenonT(60) DEF Progress
      <3>4. Works(ser[d])' <=> Works(ser[d])
        BY <3>1, <3>2 DEF Works
      <3>5. Clean(d)
        BY DEF IInv, CleanInv
      <3>. QED  BY <3>1, <3>2, <3>3, <3>4, <3>5 DEF Clean
    <2>2. Clean(c)'
      BY <1>1 DEF Clean
    <2>. QED  BY <2>1, <2>2 DEF CleanInv
  <1>. QED  BY <1>2, <1>3, <1>4, <1>6, <1>7 DEF IInv

LEMMA ResetInputIInv ==
  ASSUME IInv, NEW c \in Cmd, ResetInput(c)
  PROVE  IInv'
  <1>1. /\ at[c] = "reset" /\ at'[c] = "write" /\ input' = <<>>
        /\ \A d \in Cmd \ {c} : at'[d] = at[d]
        /\ UNCHANGED <<table, modem, ser, lines, result>>
    BY DEF IInv, TypeOK, ResetInput
  <1>2. lines[c] = <<>> /\ c \notin Exchanging /\ Exchanging' = Exchanging \cup {c}
    BY <1>1 DEF IInv, CmdInv, Exchanging
  <1>3. /\ rivals' \in [Cmd -> SUBSET Cmd]
        /\ rivals'[c] = ToSet(asked) \cup Exchanging
        /\ \A d \in Cmd \ {c} : rivals[d] \subseteq rivals'[d]
        /\ \A d \in Exchanging : c \in rivals'[d]
        /\ \A d \in Cmd \ (Exchanging \cup {c}) : rivals'[d] = rivals[d]
    <2>1. ToSet(asked) \subseteq Cmd /\ Exchanging \subseteq Cmd
      BY Elements DEF IInv, TypeOK, Exchanging
    <2>2. rivals' = [Disturb(c) EXCEPT ![c] = ToSet(asked) \cup Exchanging]
      BY DEF ResetInput
    <2>. QED  BY <1>2, <2>1, <2>2, Disturbs
  <1>4. TypeOK'
    BY <1>1, <1>3 DEF IInv, TypeOK, ResetInput, table, modem
  <1>5. OneConnection' /\ CmdInv'
    BY <1>1, <1>2 DEF IInv, OneConnection, CmdInv, table, modem
  <1>6. ForeignLinesAreRivals'
    BY <1>1, <1>2, <1>3 DEF IInv, ForeignLinesAreRivals, ToSet
  <1>7. RivalInv'
    <2>1. ToSet(input') = {}
      BY <1>1 DEF ToSet
    <2>. QED  BY <1>1, <1>2, <1>3, <2>1 DEF IInv, RivalInv, Exchanging, modem
  <1>8. CleanInv'
    <2>1. ASSUME NEW d \in Exchanging  PROVE Clean(d)'
      BY <1>3, <2>1 DEF Clean
    <2>2. Clean(c)'
      <3>1. rivals'[c] = {} => asked = <<>>
        BY <1>3, Elements DEF IInv, TypeOK
      <3>. QED  BY <1>1, <3>1 DEF Clean, modem, IInv, CmdInv
    <2>3. ASSUME NEW d \in Cmd \ (Exchanging \cup {c})  PROVE Clean(d)'
      BY <1>1, <1>3, <2>3 DEF IInv, CleanInv, Clean, Exchanging
    <2>. QED  BY <2>1, <2>2, <2>3 DEF CleanInv
  <1>. QED  BY <1>4, <1>5, <1>6, <1>7, <1>8 DEF IInv

LEMMA WriteCommandIInv ==
  ASSUME IInv, NEW c \in Cmd, WriteCommand(c)
  PROVE  IInv'
  <1>1. /\ at[c] = "write" /\ at'[c] = "read" /\ asked' = Append(asked, c)
        /\ asked \in Seq(Cmd) /\ rivals' = Disturb(c)
        /\ \A d \in Cmd \ {c} : at'[d] = at[d]
        /\ UNCHANGED <<table, sent, input, ser, lines, result>>
    BY DEF IInv, TypeOK, WriteCommand
  <1>2. Exchanging' = Exchanging /\ c \in Exchanging /\ lines[c] = <<>>
    BY <1>1 DEF IInv, CmdInv, Exchanging
  <1>3. ToSet(asked') = ToSet(asked) \cup {c} /\ asked' \in Seq(Cmd) /\ asked' # <<>>
    BY <1>1, Elements
  <1>4. /\ rivals' \in [Cmd -> SUBSET Cmd]
        /\ \A d \in Cmd : rivals[d] \subseteq rivals'[d]
        /\ \A d \in Exchanging \ {c} : c \in rivals'[d]
        /\ \A d \in Cmd \ (Exchanging \ {c}) : rivals'[d] = rivals[d]
    BY <1>1, Disturbs
  <1>5. TypeOK'
    BY <1>1, <1>3, <1>4 DEF IInv, TypeOK, WriteCommand, table
  <1>6. OneConnection' /\ CmdInv'
    BY <1>1, <1>3 DEF IInv, OneConnection, CmdInv, table
  <1>7. ForeignLinesAreRivals'
    BY <1>1, <1>4 DEF IInv, ForeignLinesAreRivals
  <1>8. RivalInv'
    <2>1. ASSUME NEW d \in Exchanging
          PROVE  /\ ToSet(asked') \subseteq {d} \cup rivals'[d]
                 /\ \A l \in ToSet(input) : l.of \in {d} \cup rivals'[d]
                 /\ Exchanging \subseteq {d} \cup rivals'[d]
      <3>1. d \in Cmd /\ rivals[d] \subseteq rivals'[d] /\ c \in {d} \cup rivals'[d]
        BY <1>4 DEF Exchanging
      <3>. QED  BY <1>3, <3>1 DEF IInv, RivalInv
    <2>. QED  BY <1>1, <1>2, <2>1 DEF RivalInv
  <1>9. CleanInv'
    <2>1. ASSUME NEW d \in Exchanging \ {c}  PROVE Clean(d)'
      BY <1>4, <2>1 DEF Clean
    <2>2. Clean(c)'
      <3>1. SUFFICES ASSUME rivals'[c] = {}
                     PROVE  Progress(c)' /\ result'[c] # "answered"
        BY <1>1 DEF Clean
      <3>2. asked = <<>> /\ input = <<>> /\ sent = 0
        BY <1>1, <1>4, <3>1 DEF IInv, CmdInv, CleanInv, Clean
      <3>3. asked' = <<c>> /\ asked' # <<>>
        BY <1>1, <1>3, <3>2
      <3>. QED  BY <1>1, <1>2, <3>2, <3>3 DEF Progress, IInv, CmdInv
    <2>3. ASSUME NEW d \in Cmd \ Exchanging  PROVE Clean(d)'
      BY <1>1, <1>2, <1>4, <2>3 DEF IInv, CleanInv, Clean, Exchanging
    <2>. QED  BY <2>1, <2>2, <2>3 DEF CleanInv
  <1>. QED  BY <1>5, <1>6, <1>7, <1>8, <1>9 DEF IInv

\* A line goes from the buffer to the response.
LEMMA ReadLineIInv ==
  ASSUME IInv, NEW c \in Cmd, ReadLine(c)
  PROVE  IInv'
  <1> DEFINE l == Head(input)
  <1>1. /\ at[c] = "read" /\ Works(ser[c]) /\ input # <<>> /\ input' = Tail(input)
        /\ lines'[c] = Append(lines[c], l)
        /\ IF l.final THEN at'[c] = "idle" /\ result'[c] = "answered"
           ELSE UNCHANGED <<at, ser, result>>
        /\ \A d \in Cmd \ {c} : /\ at'[d] = at[d] /\ ser'[d] = ser[d]
                                /\ lines'[d] = lines[d] /\ result'[d] = result[d]
        /\ UNCHANGED <<table, modem, rivals>>
    BY DEF IInv, TypeOK, ReadLine, Finish
  <1>2. /\ input \in Seq(Line) /\ input' \in Seq(Line) /\ l \in Line /\ lines[c] \in Seq(Line)
        /\ l \in ToSet(input) /\ ToSet(input') \subseteq ToSet(input)
        /\ ToSet(lines'[c]) = ToSet(lines[c]) \cup {l}
    BY <1>1, Elements DEF IInv, TypeOK
  <1>3. c \in Exchanging /\ Exchanging' \subseteq Exchanging
    BY <1>1 DEF Exchanging
  <1>4. TypeOK'
    <2>1. at' \in [Cmd -> {"idle", "reset", "write", "read"}]
      BY DEF IInv, TypeOK, ReadLine, Finish
    <2>2. ser' \in [Cmd -> Handle \cup {NoHandle}]
      BY DEF IInv, TypeOK, ReadLine, Finish
    <2>3. result' \in [Cmd -> {"none", "answered", "timeout", "failed"}]
      BY DEF IInv, TypeOK, ReadLine, Finish
    <2>4. Append(lines[c], l) \in Seq(Line)
      BY <1>2
    <2>5. lines' \in [Cmd -> Seq(Line)]
      BY <2>4 DEF IInv, TypeOK, ReadLine
    <2>. QED  BY <1>1, <1>2, <2>1, <2>2, <2>3, <2>5 DEF IInv, TypeOK, table, modem
  <1>5. OneConnection' /\ CmdInv'
    BY <1>1 DEF IInv, OneConnection, CmdInv, table, modem
  <1>6. ForeignLinesAreRivals'
    <2>1. l.of \in {c} \cup rivals[c]
      BY <1>2, <1>3 DEF IInv, RivalInv
    <2>. QED  BY <1>1, <1>2, <2>1 DEF IInv, ForeignLinesAreRivals
  <1>7. RivalInv'
    BY <1>1, <1>2, <1>3 DEF IInv, RivalInv, modem
  <1>8. CleanInv'
    <2>1. ASSUME NEW d \in Cmd \ {c}  PROVE Clean(d)'
      <3>1. SUFFICES ASSUME rivals[d] = {}  PROVE Clean(d)'
        BY <1>1 DEF Clean
      <3>2. d \notin Exchanging
        BY <1>3, <2>1, <3>1 DEF IInv, RivalInv
      <3>. QED
        BY <1>1, <2>1, <3>2 DEF IInv, CleanInv, Clean, Exchanging
    <2>2. Clean(c)'
      <3>1. SUFFICES ASSUME rivals[c] = {}  PROVE Clean(c)'
        BY <1>1 DEF Clean
      <3>2. Progress(c)
        BY <1>1, <3>1 DEF IInv, CleanInv, Clean
      <3>3. /\ Len(lines[c]) \in Nat /\ Len(input) \in Nat /\ Len(input) > 0
            /\ Len(input') = Len(input) - 1 /\ l = input[1]
            /\ \A i \in 1 .. Len(input) - 1 : input'[i] = input[i + 1]
            /\ Len(lines'[c]) = Len(lines[c]) + 1
            /\ \A i \in 1 .. Len(lines[c]) : lines'[c][i] = lines[c][i]
            /\ lines'[c][Len(lines[c]) + 1] = l
            /\ Info \in Nat /\ sent \in 0 .. Info
        BY <1>1, <1>2, HandleAssumption DEF IInv, TypeOK
      <3> HIDE DEF l
      <3>4. l = Answer(c)[Len(lines[c]) + 1] /\ Len(lines[c]) + 1 \in 1 .. Info + 1
        BY <3>2, <3>3 DEF Progress
      <3>5. l.final <=> Len(lines[c]) = Info
        <4>1. Answer(c)[Len(lines[c]) + 1].final <=> Len(lines[c]) + 1 = Info + 1
          BY <3>4, AnswerParts
        <4>2. Len(lines[c]) + 1 = Info + 1 <=> Len(lines[c]) = Info
          BY <3>3
        <4>. QED  BY <3>4, <4>1, <4>2, Zenon
      <3>6. Progress(c)'
        <4>1. asked' = asked /\ sent' = sent
          BY <1>1 DEF modem
        <4>2. Len(lines'[c]) + Len(input') = Len(lines[c]) + Len(input)
          BY <3>3
        <4>3. \A i \in 1 .. Len(lines'[c]) : lines'[c][i] = Answer(c)[i]
          BY <3>2, <3>3, <3>4 DEF Progress
        <4>4. ASSUME NEW i \in 1 .. Len(input')
              PROVE  input'[i] = Answer(c)[Len(lines'[c]) + i]
          <5>1. i + 1 \in 1 .. Len(input) /\ input'[i] = input[i + 1]
            BY <3>3
          <5>2. Len(lines'[c]) + i = Len(lines[c]) + (i + 1)
            <6>1. i \in Int /\ Len(lines[c]) \in Int /\ Len(lines'[c]) = Len(lines[c]) + 1
              BY <3>3
            <6>. QED  BY <6>1, Shifted
          <5>. QED  BY <3>2, <5>1, <5>2 DEF Progress
        <4>. QED  BY <3>2, <4>1, <4>2, <4>3, <4>4 DEF Progress
      <3>7. CASE l.final
        <4>1. Len(lines'[c]) = Info + 1 /\ lines'[c] \in Seq(Line)
          BY <1>4, <3>3, <3>5, <3>7 DEF TypeOK
        <4>2. lines'[c] = [i \in 1 .. Info + 1 |-> lines'[c][i]]
          BY <4>1
        <4>3. \A i \in 1 .. Info + 1 : lines'[c][i] = Answer(c)[i]
          BY <3>6, <4>1 DEF Progress
        <4>4. lines'[c] = Answer(c)
          BY <4>2, <4>3 DEF Answer
        <4>. QED  BY <1>1, <3>7, <4>4 DEF Clean, l
      <3>8. CASE ~l.final
        BY <1>1, <3>6, <3>8 DEF Clean, l, IInv, CmdInv
      <3>. QED  BY <3>7, <3>8
    <2>. QED  BY <2>1, <2>2 DEF CleanInv
  <1>. QED  BY <1>4, <1>5, <1>6, <1>7, <1>8 DEF IInv

\* A command gives up: its deadline is over or its connection fails.
LEMMA GiveUpIInv ==
  ASSUME IInv, NEW c \in Cmd, Deadline(c) \/ SendFails(c)
  PROVE  IInv'
  <1>1. /\ at'[c] = "idle" /\ result'[c] \in {"timeout", "failed"}
        /\ \A d \in Cmd \ {c} : /\ at'[d] = at[d] /\ ser'[d] = ser[d]
                                /\ result'[d] = result[d]
        /\ UNCHANGED <<table, modem, input, lines, rivals>>
    BY DEF IInv, TypeOK, Deadline, SendFails, Finish
  <1>2. TypeOK'
    BY <1>1 DEF IInv, TypeOK, Deadline, SendFails, Finish, table, modem
  <1>3. OneConnection' /\ CmdInv' /\ ForeignLinesAreRivals'
    BY <1>1 DEF IInv, OneConnection, CmdInv, ForeignLinesAreRivals, table, modem
  <1>4. RivalInv'
    <2>1. Exchanging' \subseteq Exchanging
      BY <1>1 DEF Exchanging
    <2>. QED  BY <1>1, <2>1 DEF IInv, RivalInv, modem
  <1>5. CleanInv'
    <2>1. ASSUME NEW d \in Cmd \ {c}  PROVE Clean(d)'
      BY <1>1, <2>1 DEF IInv, CleanInv, Clean, Works, Progress, table, modem
    <2>2. Clean(c)'
      BY <1>1 DEF Clean
    <2>. QED  BY <2>1, <2>2 DEF CleanInv
  <1>. QED  BY <1>2, <1>3, <1>4, <1>5 DEF IInv

\* The modem sends the next line of the answer to its first command.
LEMMA ModemIInv ==
  ASSUME IInv, ModemInfo \/ ModemFinal
  PROVE  IInv'
  <1> DEFINE x == Head(asked)
  <1>1. PICK l \in Line :
          /\ l.of = x /\ Arrives(l) /\ asked # <<>>
          /\ \/ l = [of |-> x, final |-> FALSE] /\ sent < Info /\ sent' = sent + 1
                  /\ asked' = asked
             \/ l = [of |-> x, final |-> TRUE] /\ sent = Info /\ sent' = 0
                  /\ asked' = Tail(asked)
          /\ UNCHANGED <<table, mine>>
    <2>1. x \in Cmd
      BY DEF IInv, TypeOK, ModemInfo, ModemFinal
    <2>2. [of |-> x, final |-> FALSE] \in Line /\ [of |-> x, final |-> TRUE] \in Line
      BY <2>1 DEF Line
    <2>. QED  BY <2>2 DEF ModemInfo, ModemFinal
  <1>2. /\ asked \in Seq(Cmd) /\ asked' \in Seq(Cmd) /\ x \in ToSet(asked)
        /\ ToSet(asked') \subseteq ToSet(asked)
    <2>1. asked \in Seq(Cmd) /\ asked # <<>>
      BY <1>1 DEF IInv, TypeOK
    <2>2. x \in ToSet(asked) /\ ToSet(Tail(asked)) \subseteq ToSet(asked)
      BY <2>1, Elements
    <2>3. Tail(asked) \in Seq(Cmd)
      BY <2>1
    <2>4. asked' = asked \/ asked' = Tail(asked)
      BY <1>1
    <2>. QED  BY <2>1, <2>2, <2>3, <2>4
  <1>3. /\ input \in Seq(Line) /\ input' \in Seq(Line)
        /\ ToSet(input') \subseteq ToSet(input) \cup {l}
        /\ Works(conn) => input' = Append(input, l)
    BY <1>1, Elements DEF IInv, TypeOK, Arrives
  <1>4. sent \in 0 .. Info /\ Info \in Nat /\ sent' \in 0 .. Info
    BY <1>1, HandleAssumption DEF IInv, TypeOK
  <1>5. TypeOK'
    BY <1>1, <1>2, <1>3, <1>4 DEF IInv, TypeOK, table, mine
  <1>6. OneConnection' /\ CmdInv' /\ ForeignLinesAreRivals'
    BY <1>1 DEF IInv, OneConnection, CmdInv, ForeignLinesAreRivals, table, mine
  <1>7. RivalInv'
    BY <1>1, <1>2, <1>3 DEF IInv, RivalInv, Exchanging, mine
  <1>8. CleanInv'
    <2>1. SUFFICES ASSUME NEW c \in Cmd, rivals[c] = {}  PROVE Clean(c)'
      BY <1>1 DEF CleanInv, Clean, mine
    <2>2. at[c] # "write"
      BY <1>1, <2>1 DEF IInv, CleanInv, Clean
    <2>3. ASSUME at[c] = "read", Works(ser[c])  PROVE Progress(c)'
      <3>1. Progress(c) /\ asked = <<c>> /\ x = c
        BY <1>1, <2>1, <2>3 DEF IInv, CleanInv, Clean, Progress
      <3>2. input' = Append(input, l)
        <4>1. Works(conn)
          BY <2>3 DEF IInv, OneConnection, Works
        <4>. QED  BY <1>3, <4>1
      <3>3. lines[c] \in Seq(Line) /\ lines' = lines
        BY <1>1 DEF IInv, TypeOK, mine
      <3>4. /\ Len(lines[c]) \in Nat /\ Len(input) \in Nat
            /\ Len(lines[c]) + Len(input) = sent
            /\ Len(input') = Len(input) + 1
            /\ \A i \in 1 .. Len(input) : input'[i] = input[i]
            /\ input'[Len(input) + 1] = l
        BY <1>1, <1>3, <3>1, <3>2, <3>3 DEF Progress
      <3>5. l = Answer(c)[sent + 1]
        <4>1. sent + 1 \in 1 .. Info + 1 /\ (sent < Info => sent + 1 # Info + 1)
          BY <1>4
        <4>2. Answer(c)[sent + 1] = [of |-> c, final |-> sent + 1 = Info + 1]
          BY <4>1, AnswerParts
        <4>3. CASE sent < Info /\ l = [of |-> c, final |-> FALSE]
          <5>1. (sent + 1 = Info + 1) = FALSE
            BY <4>1, <4>3
          <5>. QED  BY <4>2, <4>3, <5>1, Zenon
        <4>4. CASE sent = Info /\ l = [of |-> c, final |-> TRUE]
          <5>1. (sent + 1 = Info + 1) = TRUE
            BY <4>4
          <5>. QED  BY <4>2, <4>4, <5>1, Zenon
        <4>. QED  BY <1>1, <3>1, <4>3, <4>4
      <3>6. ASSUME NEW i \in 1 .. Len(input')
            PROVE  input'[i] = Answer(c)[Len(lines[c]) + i]
        <4>1. CASE i = Len(input) + 1
          <5>1. Len(lines[c]) + i = sent + 1
            <6>1. /\ Len(lines[c]) \in Int /\ Len(input) \in Int /\ i = Len(input) + 1
                  /\ Len(lines[c]) + Len(input) = sent
              BY <3>4, <4>1
            <6>. QED  BY <6>1, Shifted
          <5>. QED  BY <3>4, <3>5, <4>1, <5>1
        <4>2. CASE i # Len(input) + 1
          <5>1. i \in 1 .. Len(input)
            BY <3>4, <4>2
          <5>. QED  BY <3>1, <3>4, <5>1 DEF Progress
        <4>. QED  BY <4>1, <4>2
      <3>7. /\ asked' = <<>> \/ asked' = <<c>>
            /\ asked' = <<>> => sent + 1 = Info + 1
            /\ asked' # <<>> => sent + 1 = sent'
        <4>1. Tail(<<c>>) = <<>> /\ <<c>> # <<>>
          OBVIOUS
        <4>. QED  BY <1>1, <3>1, <4>1
      <3>8. Len(lines'[c]) + Len(input') = sent + 1
        <4>1. /\ Len(lines[c]) \in Int /\ Len(input) \in Int /\ Len(input') = Len(input) + 1
              /\ Len(lines[c]) + Len(input) = sent /\ Len(lines'[c]) = Len(lines[c])
          BY <3>3, <3>4
        <4>. QED  BY <4>1, Shifted
      <3>9. Len(lines'[c]) + Len(input') = IF asked' = <<>> THEN Info + 1 ELSE sent'
        BY <3>7, <3>8
      <3>10. \A i \in 1 .. Len(lines'[c]) : lines'[c][i] = Answer(c)[i]
        BY <3>1, <3>3 DEF Progress
      <3>. QED  BY <3>3, <3>6, <3>7, <3>9, <3>10 DEF Progress
    <2>. QED  BY <1>1, <2>1, <2>2, <2>3 DEF Clean, IInv, CleanInv, Works, table, mine
  <1>. QED  BY <1>5, <1>6, <1>7, <1>8 DEF IInv

LEMMA StutterIInv ==
  ASSUME IInv, UNCHANGED vars
  PROVE  IInv'
  BY DEF IInv, TypeOK, OneConnection, CmdInv, ForeignLinesAreRivals, RivalInv, CleanInv, Clean,
         Progress, Exchanging, Works, vars, table, modem, mine

LEMMA NextIInv == IInv /\ [Next]_vars => IInv'
  BY TableIInv, AtSendIInv, ResetInputIInv, WriteCommandIInv, ReadLineIInv, GiveUpIInv,
     ModemIInv, StutterIInv
  DEF Next, Step

THEOREM IInvHolds == Spec => []IInv
  BY InitIInv, NextIInv, PTL DEF Spec

-----------------------------------------------------------------------------
\* The port, the commands and the modem are well typed.
THEOREM TypesAreCorrect == Spec => []TypeOK
  BY IInvHolds, PTL DEF IInv

\* No connection is left open but the one in the table.
THEOREM OneIsOpen == Spec => []OneConnection
  BY IInvHolds, PTL DEF IInv

\* A response holds only lines of its command and of the command's rivals.
THEOREM ForeignLinesComeFromRivals == Spec => []ForeignLinesAreRivals
  BY IInvHolds, PTL DEF IInv

\* A command without a rival that is answered reports its own answer.
THEOREM AnswersAreClean == Spec => []CleanAnswer
<1>1. IInv => CleanAnswer
  BY DEF IInv, CleanInv, Clean, CleanAnswer, Answer
<1>. QED  BY <1>1, IInvHolds, PTL

-----------------------------------------------------------------------------
(***************************************************************************)
(* Requests.                                                               *)
(***************************************************************************)

LEMMA Slice ==
  ASSUME NEW seq \in Seq(Nat), NEW a \in Nat, NEW b \in Nat, 1 <= a, b <= Len(seq), a <= b + 1
  PROVE  /\ SubSeq(seq, a, b) \in Seq(Nat)
         /\ Len(SubSeq(seq, a, b)) = b - a + 1
         /\ \A i \in 1..b - a + 1 : SubSeq(seq, a, b)[i] = seq[a + i - 1]
  <1>1. \A i \in a..b : seq[i] \in Nat
    OBVIOUS
  <1>2. /\ SubSeq(seq, a, b) \in Seq(Nat)
        /\ Len(SubSeq(seq, a, b)) = IF a <= b THEN b - a + 1 ELSE 0
        /\ \A i \in 1..b - a + 1 : SubSeq(seq, a, b)[i] = seq[a + i - 1]
    BY <1>1, SubSeqProperties
  <1>3. (IF a <= b THEN b - a + 1 ELSE 0) = b - a + 1
    OBVIOUS
  <1>. QED  BY <1>2, <1>3, Zenon

\* The same of a beginning.
LEMMA Start ==
  ASSUME NEW seq \in Seq(Nat), NEW b \in Nat, b <= Len(seq)
  PROVE  /\ SubSeq(seq, 1, b) \in Seq(Nat)
         /\ Len(SubSeq(seq, 1, b)) = b
         /\ \A i \in 1..b : SubSeq(seq, 1, b)[i] = seq[i]
  <1> DEFINE start == SubSeq(seq, 1, b)
  <1>1. PICK a \in Nat : a = 1
    OBVIOUS
  <1>2. 1 <= a /\ a <= b + 1 /\ b - a + 1 = b
    BY <1>1
  <1>3. /\ SubSeq(seq, a, b) \in Seq(Nat)
        /\ Len(SubSeq(seq, a, b)) = b - a + 1
        /\ \A i \in 1..b - a + 1 : SubSeq(seq, a, b)[i] = seq[a + i - 1]
    BY <1>2, Slice
  <1>4. SubSeq(seq, a, b) = start
    BY <1>1
  <1> HIDE DEF start
  <1>5. ASSUME NEW i \in 1..b  PROVE start[i] = seq[i]
    <2>1. a + i - 1 = i
      BY <1>1
    <2>. QED  BY <1>2, <1>3, <1>4, <2>1
  <1>. QED  BY <1>2, <1>3, <1>4, <1>5 DEF start

LEMMA Joined ==
  ASSUME NEW s1 \in Seq(Nat), NEW s2 \in Seq(Nat)
  PROVE  /\ s1 \o s2 \in Seq(Nat)
         /\ Len(s1 \o s2) = Len(s1) + Len(s2)
         /\ \A i \in 1..Len(s1) : (s1 \o s2)[i] = s1[i]
         /\ \A i \in 1..Len(s2) : (s1 \o s2)[Len(s1) + i] = s2[i]
  <1>1. /\ s1 \o s2 \in Seq(Nat)
        /\ Len(s1 \o s2) = Len(s1) + Len(s2)
        /\ \A i \in 1..Len(s1) + Len(s2) :
             (s1 \o s2)[i] = IF i <= Len(s1) THEN s1[i] ELSE s2[i - Len(s1)]
    BY ConcatProperties
  <1>2. ASSUME NEW i \in 1..Len(s1)  PROVE (s1 \o s2)[i] = s1[i]
    BY <1>1
  <1>3. ASSUME NEW i \in 1..Len(s2)  PROVE (s1 \o s2)[Len(s1) + i] = s2[i]
    <2>1. Len(s1) + i \in 1..Len(s1) + Len(s2) /\ ~(Len(s1) + i <= Len(s1)) /\ (Len(s1) + i) - Len(s1) = i
      OBVIOUS
    <2>. QED  BY <1>1, <2>1
  <1>. QED  BY <1>1, <1>2, <1>3

\* What a frame says of itself is right.
LEMMA FrameForm ==
  ASSUME NEW text \in Seq(Nat), NEW checksum \in Nat
  PROVE  /\ Request!Frame(text, checksum) \in Seq(Nat)
         /\ Len(Request!Frame(text, checksum)) = HeaderLen + Len(text) + 1
         /\ Request!Frame(text, checksum)[1] = HeaderLen + Len(text) + 1
         /\ Request!Frame(text, checksum)[HeaderLen] = Len(text)
         /\ \A i \in 1..Len(text) : Request!Frame(text, checksum)[HeaderLen + i] = text[i]
  <1> DEFINE header == [i \in 1..HeaderLen |->
                          CASE i = 1 -> HeaderLen + Len(text) + 1
                            [] i = HeaderLen -> Len(text)
                            [] OTHER -> Provider]
             front == header \o text
             last == <<checksum>>
             frame == front \o last
  <1>0. HeaderLen \in Nat /\ HeaderLen >= 2 /\ Provider \in Nat /\ Len(text) \in Nat
    BY ModemAssumption
  <1>1. Request!Frame(text, checksum) = frame
    BY DEF Request!Frame
  <1>2. /\ header \in Seq(Nat) /\ Len(header) = HeaderLen
        /\ header[1] = HeaderLen + Len(text) + 1
        /\ header[HeaderLen] = Len(text)
    <2>1. \A i \in 1..HeaderLen : header[i] \in Nat
      BY <1>0
    <2>2. header \in [1..HeaderLen -> Nat]
      BY <2>1
    <2>3. 1 \in 1..HeaderLen /\ HeaderLen \in 1..HeaderLen /\ HeaderLen # 1
      BY <1>0
    <2>4. header[1] = HeaderLen + Len(text) + 1 /\ header[HeaderLen] = Len(text)
      BY <2>3
    <2> HIDE DEF header
    <2>. QED  BY <1>0, <2>2, <2>4
  <1> HIDE DEF header
  <1>3. /\ front \in Seq(Nat) /\ Len(front) = HeaderLen + Len(text)
        /\ \A i \in 1..HeaderLen : front[i] = header[i]
        /\ \A i \in 1..Len(text) : front[HeaderLen + i] = text[i]
    BY <1>2, Joined
  <1> HIDE DEF front
  <1>4. last \in Seq(Nat) /\ Len(last) = 1
    OBVIOUS
  <1> HIDE DEF last
  <1>5. /\ frame \in Seq(Nat) /\ Len(frame) = Len(front) + Len(last)
        /\ \A i \in 1..Len(front) : frame[i] = front[i]
    BY <1>3, <1>4, Joined
  <1> HIDE DEF frame
  <1>6. Len(frame) = HeaderLen + Len(text) + 1
    BY <1>0, <1>3, <1>4, <1>5
  <1>7. ASSUME NEW i \in 1..HeaderLen  PROVE frame[i] = header[i]
    <2>1. i \in 1..Len(front)
      BY <1>0, <1>3
    <2>. QED  BY <2>1, <1>3, <1>5
  <1>8. frame[1] = HeaderLen + Len(text) + 1 /\ frame[HeaderLen] = Len(text)
    <2>1. 1 \in 1..HeaderLen /\ HeaderLen \in 1..HeaderLen
      BY <1>0
    <2>. QED  BY <2>1, <1>2, <1>7
  <1>9. ASSUME NEW i \in 1..Len(text)  PROVE frame[HeaderLen + i] = text[i]
    <2>1. HeaderLen + i \in 1..Len(front)
      BY <1>0, <1>3
    <2>. QED  BY <2>1, <1>3, <1>5
  <1>. QED  BY <1>1, <1>5, <1>6, <1>8, <1>9

LEMMA ParseType ==
  ASSUME NEW data \in Seq(Nat)
  PROVE  Request!Parse(data) \in [success : BOOLEAN, text : Seq(Nat)]
  <1>0. HeaderLen \in Nat /\ HeaderLen >= 2
    BY ModemAssumption
  <1>1. CASE Len(data) < HeaderLen
    BY <1>1 DEF Request!Parse, Request!Failure
  <1>2. CASE ~(Len(data) < HeaderLen)
    <2>1. data[HeaderLen] \in Nat
      BY <1>0, <1>2
    <2> DEFINE end == HeaderLen + data[HeaderLen]
               to == IF end < Len(data) THEN end ELSE Len(data)
               text == SubSeq(data, HeaderLen + 1, to)
    <2>2. to \in Nat /\ to <= Len(data) /\ HeaderLen + 1 <= to + 1 /\ HeaderLen + 1 \in Nat
      BY <1>0, <1>2, <2>1
    <2>3. Request!Parse(data) = [success |-> text \notin ErrorText, text |-> text]
      BY <1>2 DEF Request!Parse
    <2> HIDE DEF to
    <2>4. text \in Seq(Nat)
      BY <2>2, <1>0, Slice
    <2> HIDE DEF text
    <2>. QED  BY <2>3, <2>4
  <1>. QED  BY <1>1, <1>2

\* Of all of a frame, Parse makes its text, and of the beginning of a frame the
\* beginning of its text.
LEMMA ParseOfPart ==
  ASSUME NEW text \in Seq(Nat), NEW checksum \in Nat,
         NEW data \in Seq(Nat),
         Len(data) <= Len(Request!Frame(text, checksum)),
         data = SubSeq(Request!Frame(text, checksum), 1, Len(data))
  PROVE  /\ Request!Parse(data).success => Request!IsPrefix(Request!Parse(data).text, text)
         /\ data = Request!Frame(text, checksum) =>
              Request!Parse(data) = [success |-> text \notin ErrorText, text |-> text]
  <1> DEFINE frame == Request!Frame(text, checksum)
  <1>0. HeaderLen \in Nat /\ HeaderLen >= 2 /\ Len(text) \in Nat /\ Len(data) \in Nat
    BY ModemAssumption
  <1>1. /\ frame \in Seq(Nat) /\ Len(frame) = HeaderLen + Len(text) + 1
        /\ frame[HeaderLen] = Len(text)
        /\ \A i \in 1..Len(text) : frame[HeaderLen + i] = text[i]
    BY FrameForm
  <1> HIDE DEF frame
  <1>2. \A i \in 1..Len(data) : data[i] = frame[i]
    <2>1. data = SubSeq(frame, 1, Len(data)) /\ Len(data) <= Len(frame)
      BY DEF frame
    <2>2. \A i \in 1..Len(data) : SubSeq(frame, 1, Len(data))[i] = frame[i]
      BY <1>0, <1>1, <2>1, Start
    <2>. QED  BY <2>1, <2>2, Zenon
  <1>3. CASE Len(data) < HeaderLen
    <2>1. Request!Parse(data).success = FALSE
      BY <1>3 DEF Request!Parse, Request!Failure
    <2>2. data # frame
      BY <1>0, <1>1, <1>3
    <2>. QED  BY <2>1, <2>2 DEF frame
  <1>4. CASE ~(Len(data) < HeaderLen)
    <2>1. data[HeaderLen] = Len(text)
      BY <1>0, <1>1, <1>2, <1>4
    <2> DEFINE end == HeaderLen + Len(text)
               to == IF end < Len(data) THEN end ELSE Len(data)
               part == SubSeq(data, HeaderLen + 1, to)
    <2>2. Request!Parse(data) = [success |-> part \notin ErrorText, text |-> part]
      BY <1>4, <2>1 DEF Request!Parse
    <2>3. /\ to \in Nat /\ to <= Len(data) /\ HeaderLen + 1 <= to + 1 /\ HeaderLen + 1 \in Nat
          /\ to - HeaderLen <= Len(text) /\ to - HeaderLen \in Nat
      BY <1>0, <1>4
    <2>all. ASSUME data = frame  PROVE to - HeaderLen = Len(text)
      <3>1. Len(data) = HeaderLen + Len(text) + 1
        BY <1>1, <2>all
      <3>2. end < Len(data)
        BY <1>0, <3>1
      <3>. QED  BY <1>0, <3>2
    <2> HIDE DEF to
    <2>4. /\ part \in Seq(Nat)
          /\ Len(part) = to - (HeaderLen + 1) + 1
          /\ \A i \in 1..to - (HeaderLen + 1) + 1 : part[i] = data[(HeaderLen + 1) + i - 1]
      BY <1>0, <2>3, Slice
    <2> HIDE DEF part
    <2>5. Len(part) = to - HeaderLen
      BY <1>0, <2>3, <2>4
    <2>6. ASSUME NEW i \in 1..Len(part)  PROVE part[i] = text[i]
      <3>1. HeaderLen + i \in 1..Len(data) /\ i \in 1..Len(text) /\ i \in 1..to - (HeaderLen + 1) + 1
        BY <1>0, <2>3, <2>5
      <3>2. (HeaderLen + 1) + i - 1 = HeaderLen + i
        BY <1>0
      <3>3. part[i] = data[HeaderLen + i]
        BY <2>4, <3>1, <3>2
      <3>. QED  BY <3>1, <3>3, <1>1, <1>2
    <2>7. Request!IsPrefix(part, text)
      <3>1. Len(part) <= Len(text)
        BY <2>3, <2>5
      <3>2. /\ SubSeq(text, 1, Len(part)) \in Seq(Nat)
            /\ Len(SubSeq(text, 1, Len(part))) = Len(part)
            /\ \A i \in 1..Len(part) : SubSeq(text, 1, Len(part))[i] = text[i]
        BY <3>1, <2>4, Slice
      <3>3. SubSeq(text, 1, Len(part)) = part
        BY <3>2, <2>4, <2>6, SeqEqual
      <3>4. SubSeq(part, 1, Len(part)) = part
        BY <2>4, SubSeqFull
      <3>. QED  BY <3>1, <3>3, <3>4 DEF Request!IsPrefix
    <2>8. data = frame => part = text
      BY <2>4, <2>5, <2>6, <2>all, SeqEqual
    <2>. QED  BY <2>2, <2>7, <2>8 DEF frame
  <1>. QED  BY <1>3, <1>4

\* The packets of net are what is missing of an answer, in its order.
Rest(packets, data, frame) ==
  \E ends \in [0..Len(packets) -> 0..Len(frame)] :
    /\ ends[0] = Len(data)
    /\ \A i \in 1..Len(packets) :
         ends[i - 1] < ends[i] /\ packets[i] = SubSeq(frame, ends[i - 1] + 1, ends[i])

\* Nothing comes before the device has answered.
QuietInv ==
  /\ phase = "idle" => ~answered
  /\ ~answered => net = <<>> /\ resp = <<>> /\ whole = <<>> /\ answer = <<>> /\ orderly

WholeInv ==
  answered => answer \in Text /\ \E checksum \in Checksum : whole = Request!Frame(answer, checksum)

\* In order, what has come is the beginning of the answer; the agent waits only
\* while something is missing, and that is under way.
ComingInv ==
  phase # "idle" /\ orderly =>
    /\ Len(resp) <= Len(whole) /\ resp = SubSeq(whole, 1, Len(resp))
    /\ phase = "waiting" /\ answered => Len(resp) < Len(whole) /\ Rest(net, resp, whole)

ReturnedInv == phase = "done" => returned = Request!Parse(resp)

RequestInv == Request!TypeOK /\ QuietInv /\ WholeInv /\ ComingInv /\ ReturnedInv

\* What is left after a packet was taken, lost or doubled is packets.
LEMMA WithoutOne ==
  ASSUME NEW packets \in Seq(Seq(Nat)), NEW i \in 1..Len(packets)
  PROVE  Request!RemoveAt(packets, i) \in Seq(Seq(Nat))
  <1>1. SubSeq(packets, 1, i - 1) \in Seq(Seq(Nat)) /\ SubSeq(packets, i + 1, Len(packets)) \in Seq(Seq(Nat))
    <2>1. \A j \in 1..i - 1 : packets[j] \in Seq(Nat)
      OBVIOUS
    <2>2. \A j \in i + 1..Len(packets) : packets[j] \in Seq(Nat)
      OBVIOUS
    <2>. QED  BY <2>1, <2>2, SubSeqProperties
  <1>. QED  BY <1>1, ConcatProperties DEF Request!RemoveAt

LEMMA WithOneTwice ==
  ASSUME NEW packets \in Seq(Seq(Nat)), NEW i \in 1..Len(packets)
  PROVE  Request!InsertAt(packets, i, packets[i]) \in Seq(Seq(Nat))
  <1>1. SubSeq(packets, 1, i - 1) \in Seq(Seq(Nat)) /\ SubSeq(packets, i, Len(packets)) \in Seq(Seq(Nat))
    <2>1. \A j \in 1..i - 1 : packets[j] \in Seq(Nat)
      OBVIOUS
    <2>2. \A j \in i..Len(packets) : packets[j] \in Seq(Nat)
      OBVIOUS
    <2>. QED  BY <2>1, <2>2, SubSeqProperties
  <1>2. <<packets[i]>> \in Seq(Seq(Nat))
    OBVIOUS
  <1>. QED  BY <1>1, <1>2, ConcatProperties DEF Request!InsertAt

LEMMA FirstRemoved ==
  ASSUME NEW packets \in Seq(Seq(Nat)), 1 \in 1..Len(packets)
  PROVE  /\ Request!RemoveAt(packets, 1) \in Seq(Seq(Nat))
         /\ Len(Request!RemoveAt(packets, 1)) = Len(packets) - 1
         /\ \A i \in 1..Len(packets) - 1 : Request!RemoveAt(packets, 1)[i] = packets[i + 1]
  <1>1. packets # <<>>
    OBVIOUS
  <1>2. /\ Tail(packets) \in Seq(Seq(Nat)) /\ Len(Tail(packets)) = Len(packets) - 1
        /\ \A i \in 1..Len(packets) - 1 : Tail(packets)[i] = packets[i + 1]
    BY <1>1
  <1> DEFINE rest == SubSeq(packets, 2, Len(packets))
  <1>3. Tail(packets) = rest
    BY <1>1, TailIsSubSeq
  <1>4. SubSeq(packets, 1, 0) = <<>>
    BY SubSeqEmpty
  <1>5. Request!RemoveAt(packets, 1) = SubSeq(packets, 1, 1 - 1) \o SubSeq(packets, 1 + 1, Len(packets))
    BY Zenon DEF Request!RemoveAt
  <1>6. 1 - 1 = 0 /\ 1 + 1 = 2
    OBVIOUS
  <1>7. Request!RemoveAt(packets, 1) = <<>> \o rest
    BY <1>4, <1>5, <1>6
  <1> HIDE DEF rest
  <1>8. <<>> \o rest = rest
    BY <1>2, <1>3, ConcatEmptySeq
  <1>. QED  BY <1>2, <1>3, <1>7, <1>8

LEMMA NoData == Request!Parse(<<>>) = Request!Failure
  <1>1. HeaderLen > Len(<<>>)
    BY ModemAssumption
  <1>. QED  BY <1>1 DEF Request!Parse

\* A frame cut into packets is all of it under way.
LEMMA CutsAreRest ==
  ASSUME NEW frame \in Seq(Nat), NEW k \in Nat, NEW packets \in Request!Cuts(frame, k)
  PROVE  packets \in Seq(Seq(Nat)) /\ Rest(packets, <<>>, frame)
  <1>1. PICK ends \in [0..k -> 0..Len(frame)] :
          /\ ends[0] = 0 /\ ends[k] = Len(frame) /\ \A i \in 1..k : ends[i - 1] < ends[i]
          /\ packets = [i \in 1..k |-> SubSeq(frame, ends[i - 1] + 1, ends[i])]
    BY Zenon DEF Request!Cuts
  <1>2. ASSUME NEW i \in 1..k
        PROVE  /\ packets[i] = SubSeq(frame, ends[i - 1] + 1, ends[i])
               /\ packets[i] \in Seq(Nat)
    <2>1. packets[i] = SubSeq(frame, ends[i - 1] + 1, ends[i])
      BY <1>1
    <2>2. i - 1 \in 0..k /\ i \in 0..k
      OBVIOUS
    <2>3. ends[i - 1] \in 0..Len(frame) /\ ends[i] \in 0..Len(frame) /\ ends[i - 1] < ends[i]
      BY <1>1, <2>2
    <2> DEFINE a == ends[i - 1] + 1
               b == ends[i]
    <2>4. a \in Nat /\ b \in Nat /\ 1 <= a /\ b <= Len(frame) /\ a <= b + 1
      BY <2>3
    <2> HIDE DEF a, b
    <2>5. SubSeq(frame, a, b) \in Seq(Nat)
      BY <2>4, Slice
    <2>. QED  BY <2>1, <2>5 DEF a, b
  <1>3. packets \in [1..k -> Seq(Nat)]
    BY <1>1, <1>2
  <1>4. packets \in Seq(Seq(Nat)) /\ Len(packets) = k
    BY <1>3
  <1>5. Len(<<>>) = 0
    OBVIOUS
  <1>. QED  BY <1>1, <1>2, <1>4, <1>5 DEF Rest

\* The first packet of those goes on where the data ends.
LEMMA FirstOfRest ==
  ASSUME NEW frame \in Seq(Nat), NEW data \in Seq(Nat), NEW packets \in Seq(Seq(Nat)),
         Len(data) <= Len(frame), data = SubSeq(frame, 1, Len(data)),
         1 \in 1..Len(packets), Rest(packets, data, frame)
  PROVE  LET more == data \o packets[1]
         IN  /\ Len(data) < Len(more) /\ Len(more) <= Len(frame)
             /\ more = SubSeq(frame, 1, Len(more))
             /\ Rest(Request!RemoveAt(packets, 1), more, frame)
  <1>1. PICK ends \in [0..Len(packets) -> 0..Len(frame)] :
          /\ ends[0] = Len(data)
          /\ \A i \in 1..Len(packets) :
               ends[i - 1] < ends[i] /\ packets[i] = SubSeq(frame, ends[i - 1] + 1, ends[i])
    BY DEF Rest
  <1> DEFINE more == data \o packets[1]
             to   == ends[1]
             tail == Request!RemoveAt(packets, 1)
             shifted == [i \in 0..Len(packets) - 1 |-> ends[i + 1]]
  <1>2. to \in 0..Len(frame) /\ Len(data) < to /\ packets[1] = SubSeq(frame, Len(data) + 1, to)
    <2>1. ends[1 - 1] < ends[1] /\ packets[1] = SubSeq(frame, ends[1 - 1] + 1, ends[1])
      BY <1>1
    <2>2. 1 - 1 = 0
      OBVIOUS
    <2>3. ends[1] \in 0..Len(frame)
      BY <1>1
    <2>. QED  BY <1>1, <2>1, <2>2, <2>3
  <1>3. more = SubSeq(frame, 1, to)
    <2>1. Len(data) \in 1 - 1..Len(frame) /\ to \in Len(data)..Len(frame) /\ 1 \in 1..Len(frame) + 1
      BY <1>2
    <2>2. SubSeq(frame, 1, Len(data)) \o SubSeq(frame, Len(data) + 1, to) = SubSeq(frame, 1, to)
      BY <2>1, ConcatAdjacentSubSeq
    <2>. QED  BY <1>2, <2>2
  <1>4. Len(more) = to
    <2>1. to \in Nat /\ to <= Len(frame) /\ 1 <= to + 1
      BY <1>2
    <2> HIDE DEF to, more
    <2>2. Len(SubSeq(frame, 1, to)) = to - 1 + 1
      BY <2>1, Slice
    <2>. QED  BY <1>3, <2>1, <2>2
  <1>5. /\ tail \in Seq(Seq(Nat)) /\ Len(tail) = Len(packets) - 1
        /\ \A i \in 1..Len(packets) - 1 : tail[i] = packets[i + 1]
    BY FirstRemoved
  <1> HIDE DEF more, tail
  <1>6. /\ shifted \in [0..Len(tail) -> 0..Len(frame)]
        /\ shifted[0] = Len(more)
        /\ \A i \in 1..Len(tail) :
             shifted[i - 1] < shifted[i] /\ tail[i] = SubSeq(frame, shifted[i - 1] + 1, shifted[i])
    <2>1. shifted \in [0..Len(tail) -> 0..Len(frame)]
      BY <1>1, <1>5
    <2>2. shifted[0] = Len(more)
      BY <1>4
    <2>3. ASSUME NEW i \in 1..Len(tail)
          PROVE  shifted[i - 1] < shifted[i] /\ tail[i] = SubSeq(frame, shifted[i - 1] + 1, shifted[i])
      <3>1. i + 1 \in 1..Len(packets) /\ i \in 1..Len(packets) - 1 /\ (i + 1) - 1 = i
        BY <1>5
      <3>2. shifted[i - 1] = ends[i] /\ shifted[i] = ends[i + 1]
        BY <3>1
      <3> HIDE DEF shifted
      <3>3. ends[(i + 1) - 1] < ends[i + 1]
            /\ packets[i + 1] = SubSeq(frame, ends[(i + 1) - 1] + 1, ends[i + 1])
        BY <1>1, <3>1
      <3>. QED  BY <1>5, <3>1, <3>2, <3>3
    <2>. QED  BY <2>1, <2>2, <2>3
  <1> HIDE DEF shifted
  <1>7. Rest(tail, more, frame)
    BY <1>6 DEF Rest
  <1>8. /\ Len(data) < Len(more) /\ Len(more) <= Len(frame)
        /\ more = SubSeq(frame, 1, Len(more))
        /\ Rest(tail, more, frame)
    <2>1. Len(data) < Len(more) /\ Len(more) <= Len(frame)
      BY <1>2, <1>4
    <2>2. more = SubSeq(frame, 1, Len(more))
      BY <1>3, <1>4, Zenon
    <2>. QED  BY <2>1, <2>2, <1>7
  <1>. QED  BY <1>8, Zenon DEF more, tail

\* What a packet that came in order does to a request that waits for more.
LEMMA NextComes ==
  ASSUME RequestInv, phase = "waiting", orderly, answered,
         NEW packets \in Seq(Seq(Nat)), NEW data \in Seq(Nat),
         1 \in 1..Len(net), packets = Request!RemoveAt(net, 1), data = resp \o net[1]
  PROVE  /\ Len(resp) < Len(data) /\ Len(data) <= Len(whole)
         /\ data = SubSeq(whole, 1, Len(data))
         /\ Rest(packets, data, whole)
         /\ Len(data) < data[1] => Len(data) < Len(whole)
  <1>1. /\ whole \in Seq(Nat) /\ resp \in Seq(Nat) /\ net \in Seq(Seq(Nat))
        /\ Len(resp) <= Len(whole) /\ resp = SubSeq(whole, 1, Len(resp))
        /\ Rest(net, resp, whole)
    BY DEF RequestInv, Request!TypeOK, ComingInv
  <1>2. /\ Len(resp) < Len(data) /\ Len(data) <= Len(whole)
        /\ data = SubSeq(whole, 1, Len(data))
        /\ Rest(packets, data, whole)
    BY <1>1, FirstOfRest
  <1>3. whole[1] = Len(whole)
    <2>1. PICK checksum \in Checksum : whole = Request!Frame(answer, checksum)
      BY DEF RequestInv, WholeInv
    <2>2. answer \in Seq(Nat) /\ checksum \in Nat
      BY ModemAssumption DEF RequestInv, WholeInv
    <2>3. PICK text \in Seq(Nat) : text = answer
      BY <2>2
    <2>4. /\ Len(Request!Frame(text, checksum)) = HeaderLen + Len(text) + 1
          /\ Request!Frame(text, checksum)[1] = HeaderLen + Len(text) + 1
      BY <2>2, FrameForm
    <2>. QED  BY <2>1, <2>3, <2>4
  <1>4. data[1] = whole[1]
    <2>1. 1 <= Len(data) /\ Len(data) \in Nat
      BY <1>1, <1>2
    <2>2. \A i \in 1..Len(data) - 1 + 1 : SubSeq(whole, 1, Len(data))[i] = whole[1 + i - 1]
      BY <1>1, <1>2, <2>1, Slice
    <2>3. SubSeq(whole, 1, Len(data))[1] = whole[1]
      BY <2>1, <2>2
    <2>. QED  BY <1>2, <2>3
  <1>. QED  BY <1>2, <1>3, <1>4

LEMMA RequestInvHolds == Request!Spec => []RequestInv
  <1>0. /\ MaxDoubled \in Nat
        /\ <<>> \in Seq(Nat) /\ <<>> \in Seq(Seq(Nat))
        /\ Request!Failure \in [success : BOOLEAN, text : Seq(Nat)]
    <2>1. MaxDoubled \in Nat
      BY ModemAssumption
    <2>2. <<>> \in Seq(Nat)
      OBVIOUS
    <2>3. <<>> \in Seq(Seq(Nat))
      OBVIOUS
    <2>4. Request!Failure \in [success : BOOLEAN, text : Seq(Nat)]
      BY <2>2 DEF Request!Failure
    <2>. QED  BY <2>1, <2>2, <2>3, <2>4
  <1> USE DEF Request!vars
  <1>1. Request!Init => RequestInv
    <2> SUFFICES ASSUME Request!Init  PROVE RequestInv
      OBVIOUS
    <2>0. 0 \in 0..MaxDoubled
      BY <1>0
    <2>1. Request!TypeOK
      BY <2>0, <1>0, Zenon DEF Request!Init, Request!TypeOK
    <2>. QED  BY <2>1 DEF Request!Init, RequestInv, QuietInv, WholeInv, ComingInv, ReturnedInv
  <1>2. ASSUME RequestInv, [Request!Next]_(Request!vars)  PROVE RequestInv'
    <2> USE <1>2 DEF RequestInv
    <2>1. CASE Request!Request
      <3>1. Request!TypeOK'
        BY <2>1 DEF Request!Request, Request!TypeOK
      <3>2. QuietInv' /\ WholeInv' /\ ReturnedInv'
        BY <2>1 DEF Request!Request, QuietInv, WholeInv, ReturnedInv
      <3>3. ComingInv'
        <4>1. resp' = <<>> /\ whole' = <<>> /\ ~answered'
          BY <2>1 DEF Request!Request, QuietInv
        <4>2. Len(<<>>) <= Len(<<>>) /\ <<>> = SubSeq(<<>>, 1, Len(<<>>))
          OBVIOUS
        <4>. QED  BY <4>1, <4>2 DEF ComingInv
      <3>. QED  BY <3>1, <3>2, <3>3
    <2>2. ASSUME NEW text \in Text, NEW checksum \in Checksum, NEW k \in 1..MaxPackets,
                 Request!Answer(text, checksum, k)
          PROVE  RequestInv'
      <3> USE <2>2 DEF Request!Answer
      <3>1. /\ text \in Seq(Nat) /\ checksum \in Nat /\ k \in Nat
            /\ whole' = Request!Frame(text, checksum) /\ net' \in Request!Cuts(whole', k)
            /\ phase = "waiting" /\ ~answered /\ resp = <<>> /\ orderly
        BY ModemAssumption DEF QuietInv
      <3>2. whole' \in Seq(Nat) /\ Len(whole') > 0
        <4>1. Len(whole') = HeaderLen + Len(text) + 1 /\ whole' \in Seq(Nat)
          BY <3>1, FrameForm
        <4>. QED  BY <4>1, <3>1, ModemAssumption
      <3>3. net' \in Seq(Seq(Nat)) /\ Rest(net', <<>>, whole')
        BY <3>1, <3>2, CutsAreRest
      <3>4. Request!TypeOK'
        BY <3>1, <3>2, <3>3 DEF Request!TypeOK
      <3>5. QuietInv' /\ WholeInv' /\ ReturnedInv'
        BY <3>1 DEF QuietInv, WholeInv, ReturnedInv
      <3>6. ComingInv'
        <4>1. resp' = <<>> /\ Len(<<>>) = 0
          BY <3>1
        <4>2. <<>> = SubSeq(whole', 1, 0)
          BY SubSeqEmpty
        <4>. QED  BY <3>2, <3>3, <4>1, <4>2 DEF ComingInv
      <3>. QED  BY <3>4, <3>5, <3>6
    <2>3. ASSUME NEW i \in DOMAIN net, Request!Receive(i)  PROVE RequestInv'
      <3> USE <2>3 DEF Request!Receive
      <3>1. /\ i \in 1..Len(net) /\ net \in Seq(Seq(Nat)) /\ resp \in Seq(Nat)
            /\ phase = "waiting" /\ phase' \in {"waiting", "done"}
        BY DEF Request!TypeOK
      <3>2. answered
        BY <3>1 DEF QuietInv
      <3>3. net' \in Seq(Seq(Nat)) /\ resp' \in Seq(Nat)
        <4>1. net[i] \in Seq(Nat)
          BY <3>1
        <4>. QED  BY <3>1, <4>1, WithoutOne, ConcatProperties
      <3>4. Request!Parse(resp') \in [success : BOOLEAN, text : Seq(Nat)]
        BY <3>3, ParseType
      <3>5. Request!TypeOK'
        <4>1. phase' \in {"idle", "waiting", "done"} /\ returned' \in [success : BOOLEAN, text : Seq(Nat)]
          BY <3>4 DEF Request!TypeOK
        <4>2. orderly' \in BOOLEAN
          BY DEF Request!TypeOK
        <4>. QED  BY <3>3, <4>1, <4>2 DEF Request!TypeOK
      <3>6. QuietInv' /\ WholeInv' /\ ReturnedInv'
        BY <3>1, <3>2 DEF QuietInv, WholeInv, ReturnedInv
      <3>7. ComingInv'
        <4> SUFFICES ASSUME orderly'
            PROVE  /\ Len(resp') <= Len(whole') /\ resp' = SubSeq(whole', 1, Len(resp'))
                   /\ phase' = "waiting" => Len(resp') < Len(whole') /\ Rest(net', resp', whole')
          BY DEF ComingInv
        <4>1. orderly /\ i = 1
          OBVIOUS
        <4>2. PICK packets \in Seq(Seq(Nat)), data \in Seq(Nat) : packets = net' /\ data = resp'
          BY <3>3
        <4>3. packets = Request!RemoveAt(net, 1) /\ data = resp \o net[1] /\ 1 \in 1..Len(net)
          BY <3>1, <4>1, <4>2
        <4>4. /\ Len(resp) < Len(data) /\ Len(data) <= Len(whole) /\ data = SubSeq(whole, 1, Len(data))
              /\ Rest(packets, data, whole)
              /\ Len(data) < data[1] => Len(data) < Len(whole)
          BY <3>1, <3>2, <4>1, <4>3, NextComes
        <4>5. phase' = "waiting" => ~(Len(resp') >= resp'[1])
          BY <3>1
        <4>6. phase' = "waiting" => Len(data) < Len(whole)
          <5>1. data # <<>>
            BY <3>1, <4>4
          <5>2. data[1] \in Nat /\ Len(data) \in Nat
            BY <5>1
          <5>. QED  BY <4>2, <4>4, <4>5, <5>2
        <4>. QED  BY <4>2, <4>4, <4>6, Zenon
      <3>. QED  BY <3>5, <3>6, <3>7
    <2>4. ASSUME NEW i \in DOMAIN net, Request!Lose(i)  PROVE RequestInv'
      <3>1. i \in 1..Len(net) /\ net \in Seq(Seq(Nat)) /\ answered
        BY <2>4 DEF Request!TypeOK, QuietInv
      <3>2. net' \in Seq(Seq(Nat))
        BY <2>4, <3>1, WithoutOne DEF Request!Lose
      <3>. QED  BY <2>4, <3>1, <3>2
             DEF Request!Lose, Request!TypeOK, QuietInv, WholeInv, ComingInv, ReturnedInv
    <2>5. ASSUME NEW i \in DOMAIN net, Request!Double(i)  PROVE RequestInv'
      <3>1. i \in 1..Len(net) /\ net \in Seq(Seq(Nat)) /\ answered
        BY <2>5 DEF Request!TypeOK, QuietInv
      <3>2. net' \in Seq(Seq(Nat))
        BY <2>5, <3>1, WithOneTwice DEF Request!Double
      <3>3. doubled' \in 0..MaxDoubled
        BY <2>5, ModemAssumption DEF Request!Double, Request!TypeOK
      <3>. QED  BY <2>5, <3>1, <3>2, <3>3
             DEF Request!Double, Request!TypeOK, QuietInv, WholeInv, ComingInv, ReturnedInv
    <2>6. CASE Request!Timeout
      <3>1. Request!Parse(resp) \in [success : BOOLEAN, text : Seq(Nat)]
        BY ParseType DEF Request!TypeOK
      <3>2. Request!TypeOK'
        BY <2>6, <3>1 DEF Request!Timeout, Request!TypeOK
      <3>. QED  BY <2>6, <3>2 DEF Request!Timeout, QuietInv, WholeInv, ComingInv, ReturnedInv
    <2>7. CASE Request!Refused
      <3>1. resp = <<>>
        BY <2>7 DEF Request!Refused, QuietInv
      <3>2. Request!TypeOK'
        BY <2>7 DEF Request!Refused, Request!TypeOK, Request!Failure
      <3>. QED  BY <2>7, <3>1, <3>2, NoData
             DEF Request!Refused, QuietInv, WholeInv, ComingInv, ReturnedInv
    <2>8. CASE Request!Close
      <3>0. 0 \in 0..MaxDoubled
        BY <1>0
      <3>1. Request!TypeOK'
        BY <3>0, <1>0, <2>8, Zenon DEF Request!Close, Request!TypeOK
      <3>. QED  BY <2>8, <3>1 DEF Request!Close, QuietInv, WholeInv, ComingInv, ReturnedInv
    <2>9. CASE UNCHANGED Request!vars
      BY <2>9 DEF Request!TypeOK, QuietInv, WholeInv, ComingInv, ReturnedInv
    <2>. QED  BY <1>2, <2>1, <2>2, <2>3, <2>4, <2>5, <2>6, <2>7, <2>8, <2>9 DEF Request!Next
  <1>. QED  BY <1>1, <1>2, PTL DEF Request!Spec

\* What a request returns is what the device answered, as far as the agent can
\* tell, and the agent waits for nothing that it has (_srsd_send_recv,
\* _srsd_parse).
THEOREM AnswersComeTrue == Request!Spec => []AnswersAreTrue
  <1>1. RequestInv => AnswersAreTrue
    <2> SUFFICES ASSUME RequestInv  PROVE AnswersAreTrue
      OBVIOUS
    <2>1. Request!TypeOK
      BY DEF RequestInv
    <2>2. Request!AnswersAreTrue
      <3> SUFFICES ASSUME phase = "done", orderly
          PROVE  /\ resp = whole /\ answered =>
                      returned = [success |-> answer \notin ErrorText, text |-> answer]
                 /\ returned.success => Request!IsPrefix(returned.text, answer)
        BY DEF Request!AnswersAreTrue
      <3>1. returned = Request!Parse(resp)
        BY DEF RequestInv, ReturnedInv
      <3>2. CASE ~answered
        <4>1. returned = Request!Failure
          BY <3>1, <3>2, NoData DEF RequestInv, QuietInv
        <4>. QED  BY <3>2, <4>1 DEF Request!Failure
      <3>3. CASE answered
        <4>1. PICK checksum \in Checksum : whole = Request!Frame(answer, checksum)
          BY <3>3 DEF RequestInv, WholeInv
        <4>2. answer \in Seq(Nat) /\ checksum \in Nat /\ resp \in Seq(Nat)
          BY <3>3, ModemAssumption DEF RequestInv, WholeInv, Request!TypeOK
        <4>3. Len(resp) <= Len(whole) /\ resp = SubSeq(whole, 1, Len(resp))
          BY DEF RequestInv, ComingInv
        <4>. QED  BY <3>1, <4>1, <4>2, <4>3, ParseOfPart
      <3>. QED  BY <3>2, <3>3
    <2>3. Request!EndsWithTheLast
      <3> SUFFICES ASSUME phase = "waiting", orderly
          PROVE  (resp # whole \/ ~answered) /\ Request!IsPrefix(resp, whole)
        BY DEF Request!EndsWithTheLast
      <3>1. /\ Len(resp) <= Len(whole) /\ resp = SubSeq(whole, 1, Len(resp))
            /\ answered => Len(resp) < Len(whole)
            /\ resp \in Seq(Nat) /\ whole \in Seq(Nat)
        BY DEF RequestInv, ComingInv, Request!TypeOK
      <3>2. SubSeq(resp, 1, Len(resp)) = resp
        BY <3>1, SubSeqFull
      <3>3. Request!IsPrefix(resp, whole)
        BY <3>1, <3>2, Zenon DEF Request!IsPrefix
      <3>. QED  BY <3>1, <3>3
    <2>. QED  BY <2>1, <2>2, <2>3 DEF AnswersAreTrue
  <1>. QED  BY <1>1, RequestInvHolds, PTL

-----------------------------------------------------------------------------
\* The checksum.

\* Bit i of the code's words, as a formula.
LEMMA XorBit ==
  ASSUME NEW S, NEW w \in [S -> BOOLEAN], NEW v \in [S -> BOOLEAN]
  PROVE  /\ Crc!Xor(w, v) \in [S -> BOOLEAN]
         /\ \A i \in S : Crc!Xor(w, v)[i] <=> ~(w[i] <=> v[i])
  <1>1. ASSUME NEW i \in S  PROVE Crc!Xor(w, v)[i] <=> ~(w[i] <=> v[i])
    <2>1. DOMAIN w = S /\ w[i] \in BOOLEAN /\ v[i] \in BOOLEAN
      OBVIOUS
    <2>2. Crc!Xor(w, v)[i] = (w[i] # v[i])
      BY <2>1, Zenon DEF Crc!Xor
    <2>3. (w[i] # v[i]) <=> ~(w[i] <=> v[i])
      BY <2>1, Zenon
    <2>. QED  BY <2>2, <2>3, Zenon
  <1>2. Crc!Xor(w, v) \in [S -> BOOLEAN]
    BY DEF Crc!Xor
  <1>. QED  BY <1>1, <1>2

LEMMA RightBit ==
  ASSUME NEW m \in Nat, NEW w \in [0..m -> BOOLEAN], NEW bits \in Nat, NEW k \in Nat
  PROVE  /\ Crc!Right(w, k, bits) \in [0..bits - 1 -> BOOLEAN]
         /\ \A i \in 0..bits - 1 : Crc!Right(w, k, bits)[i] <=> (i + k <= m /\ w[i + k])
  <1>1. ASSUME NEW i \in 0..bits - 1
        PROVE  Crc!Right(w, k, bits)[i] <=> (i + k <= m /\ w[i + k])
    <2>1. Crc!Bits(bits) = 0..bits - 1
      BY DEF Crc!Bits
    <2>2. Crc!Right(w, k, bits)[i] = Crc!Bit(w, i + k)
      BY <2>1, Zenon DEF Crc!Right
    <2>3. i + k \in DOMAIN w <=> i + k <= m
      OBVIOUS
    <2>. QED  BY <2>2, <2>3, Zenon DEF Crc!Bit
  <1>2. Crc!Right(w, k, bits) \in [0..bits - 1 -> BOOLEAN]
    BY DEF Crc!Right, Crc!Bits, Crc!Bit
  <1>. QED  BY <1>1, <1>2

LEMMA LeftBit ==
  ASSUME NEW m \in Nat, NEW w \in [0..m -> BOOLEAN], NEW bits \in Nat, NEW k \in Nat
  PROVE  /\ Crc!Left(w, k, bits) \in [0..bits - 1 -> BOOLEAN]
         /\ \A i \in 0..bits - 1 :
              Crc!Left(w, k, bits)[i] <=> (i >= k /\ i - k <= m /\ w[i - k])
  <1>1. ASSUME NEW i \in 0..bits - 1
        PROVE  Crc!Left(w, k, bits)[i] <=> (i >= k /\ i - k <= m /\ w[i - k])
    <2>1. Crc!Bits(bits) = 0..bits - 1
      BY DEF Crc!Bits
    <2>2. Crc!Left(w, k, bits)[i] = (i >= k /\ Crc!Bit(w, i - k))
      BY <2>1, Zenon DEF Crc!Left
    <2>3. i >= k => (i - k \in DOMAIN w <=> i - k <= m)
      OBVIOUS
    <2>. QED  BY <2>2, <2>3, Zenon DEF Crc!Bit
  <1>2. Crc!Left(w, k, bits) \in [0..bits - 1 -> BOOLEAN]
    BY DEF Crc!Left, Crc!Bits, Crc!Bit
  <1>. QED  BY <1>1, <1>2

\* Four bits added.
Sum4(a, b, c, e) == ~(~(a <=> b) <=> ~(c <=> e))

\* The register's low byte and the byte that comes, and ch: _srsd_crc16's names.
Low(crc, byte) == Crc!Xor(byte, Crc!Right(crc, 0, 8))
Ch(crc, byte) == Crc!Xor(Low(crc, byte), Crc!Left(Low(crc, byte), 4, 8))

LEMMA ChBit ==
  ASSUME NEW crc \in [0..15 -> BOOLEAN], NEW byte \in [0..7 -> BOOLEAN]
  PROVE  /\ Low(crc, byte) \in [0..7 -> BOOLEAN] /\ Ch(crc, byte) \in [0..7 -> BOOLEAN]
         /\ \A i \in 0..7 : Low(crc, byte)[i] <=> ~(byte[i] <=> crc[i])
         /\ \A i \in 0..7 :
              Ch(crc, byte)[i] <=> ~(Low(crc, byte)[i] <=> (i >= 4 /\ Low(crc, byte)[i - 4]))
  <1>1. /\ Crc!Right(crc, 0, 8) \in [0..7 -> BOOLEAN]
        /\ \A i \in 0..7 : Crc!Right(crc, 0, 8)[i] <=> crc[i]
    <2>1. PICK m \in Nat, bits \in Nat, k \in Nat : m = 15 /\ bits = 8 /\ k = 0
      OBVIOUS
    <2>2. crc \in [0..m -> BOOLEAN]
      BY <2>1
    <2>3. /\ Crc!Right(crc, k, bits) \in [0..bits - 1 -> BOOLEAN]
          /\ \A i \in 0..bits - 1 : Crc!Right(crc, k, bits)[i] <=> (i + k <= m /\ crc[i + k])
      BY <2>2, RightBit
    <2>. QED  BY <2>1, <2>3
  <1> DEFINE right == Crc!Right(crc, 0, 8)
  <1> HIDE DEF right
  <1>2. /\ Low(crc, byte) \in [0..7 -> BOOLEAN]
        /\ \A i \in 0..7 : Low(crc, byte)[i] <=> ~(byte[i] <=> right[i])
    BY <1>1, XorBit DEF Low, right
  <1> DEFINE low == Low(crc, byte)
             left == Crc!Left(low, 4, 8)
  <1> HIDE DEF low
  <1>3. /\ left \in [0..7 -> BOOLEAN]
        /\ \A i \in 0..7 : left[i] <=> (i >= 4 /\ i - 4 <= 7 /\ low[i - 4])
    <2>1. PICK m \in Nat, bits \in Nat, k \in Nat : m = 7 /\ bits = 8 /\ k = 4
      OBVIOUS
    <2>2. low \in [0..m -> BOOLEAN]
      BY <1>2, <2>1 DEF low
    <2>3. /\ Crc!Left(low, k, bits) \in [0..bits - 1 -> BOOLEAN]
          /\ \A i \in 0..bits - 1 :
               Crc!Left(low, k, bits)[i] <=> (i >= k /\ i - k <= m /\ low[i - k])
      BY <2>2, LeftBit
    <2>. QED  BY <2>1, <2>3
  <1> HIDE DEF left
  <1>4. /\ Ch(crc, byte) \in [0..7 -> BOOLEAN]
        /\ \A i \in 0..7 : Ch(crc, byte)[i] <=> ~(low[i] <=> left[i])
    BY <1>2, <1>3, XorBit DEF Ch, low, left
  <1>. QED  BY <1>1, <1>2, <1>3, <1>4 DEF low, right

\* What the code makes of a byte, bit by bit.
LEMMA StepBit ==
  ASSUME NEW crc \in [0..15 -> BOOLEAN], NEW byte \in [0..7 -> BOOLEAN]
  PROVE  /\ Crc!Step(crc, byte) \in [0..15 -> BOOLEAN]
         /\ \A i \in 0..15 :
              Crc!Step(crc, byte)[i] <=>
                Sum4(i <= 7 /\ crc[i + 8], i >= 8 /\ Ch(crc, byte)[i - 8],
                     i >= 3 /\ i <= 10 /\ Ch(crc, byte)[i - 3], i <= 3 /\ Ch(crc, byte)[i + 4])
  <1> DEFINE ch == Ch(crc, byte)
             a == Crc!Right(crc, 8, 16)
             b == Crc!Left(ch, 8, 16)
             c == Crc!Left(ch, 3, 16)
             e == Crc!Right(ch, 4, 16)
             ab == Crc!Xor(a, b)
             ce == Crc!Xor(c, e)
  <1>1. ch \in [0..7 -> BOOLEAN]
    BY ChBit
  <1>2. Crc!Step(crc, byte) = Crc!Xor(ab, ce)
    BY DEF Crc!Step, Ch, Low
  <1> HIDE DEF ch
  <1>3. a \in [0..15 -> BOOLEAN] /\ \A i \in 0..15 : a[i] <=> (i <= 7 /\ crc[i + 8])
    <2>1. PICK m \in Nat, bits \in Nat, k \in Nat : m = 15 /\ bits = 16 /\ k = 8
      OBVIOUS
    <2>2. crc \in [0..m -> BOOLEAN]
      BY <1>1, <2>1
    <2>3. /\ Crc!Right(crc, k, bits) \in [0..bits - 1 -> BOOLEAN]
          /\ \A i \in 0..bits - 1 :
               Crc!Right(crc, k, bits)[i] <=> (i + k <= m /\ crc[i + k])
      BY <2>2, RightBit
    <2>. QED  BY <2>1, <2>3
  <1>4. b \in [0..15 -> BOOLEAN] /\ \A i \in 0..15 : b[i] <=> (i >= 8 /\ ch[i - 8])
    <2>1. PICK m \in Nat, bits \in Nat, k \in Nat : m = 7 /\ bits = 16 /\ k = 8
      OBVIOUS
    <2>2. ch \in [0..m -> BOOLEAN]
      BY <1>1, <2>1
    <2>3. /\ Crc!Left(ch, k, bits) \in [0..bits - 1 -> BOOLEAN]
          /\ \A i \in 0..bits - 1 :
               Crc!Left(ch, k, bits)[i] <=> (i >= k /\ i - k <= m /\ ch[i - k])
      BY <2>2, LeftBit
    <2>. QED  BY <2>1, <2>3
  <1>5. c \in [0..15 -> BOOLEAN] /\ \A i \in 0..15 : c[i] <=> (i >= 3 /\ i <= 10 /\ ch[i - 3])
    <2>1. PICK m \in Nat, bits \in Nat, k \in Nat : m = 7 /\ bits = 16 /\ k = 3
      OBVIOUS
    <2>2. ch \in [0..m -> BOOLEAN]
      BY <1>1, <2>1
    <2>3. /\ Crc!Left(ch, k, bits) \in [0..bits - 1 -> BOOLEAN]
          /\ \A i \in 0..bits - 1 :
               Crc!Left(ch, k, bits)[i] <=> (i >= k /\ i - k <= m /\ ch[i - k])
      BY <2>2, LeftBit
    <2>. QED  BY <2>1, <2>3
  <1>6. e \in [0..15 -> BOOLEAN] /\ \A i \in 0..15 : e[i] <=> (i <= 3 /\ ch[i + 4])
    <2>1. PICK m \in Nat, bits \in Nat, k \in Nat : m = 7 /\ bits = 16 /\ k = 4
      OBVIOUS
    <2>2. ch \in [0..m -> BOOLEAN]
      BY <1>1, <2>1
    <2>3. /\ Crc!Right(ch, k, bits) \in [0..bits - 1 -> BOOLEAN]
          /\ \A i \in 0..bits - 1 :
               Crc!Right(ch, k, bits)[i] <=> (i + k <= m /\ ch[i + k])
      BY <2>2, RightBit
    <2>. QED  BY <2>1, <2>3
  <1> HIDE DEF a, b, c, e
  <1>7. ab \in [0..15 -> BOOLEAN] /\ \A i \in 0..15 : ab[i] <=> ~(a[i] <=> b[i])
    BY <1>3, <1>4, XorBit
  <1>8. ce \in [0..15 -> BOOLEAN] /\ \A i \in 0..15 : ce[i] <=> ~(c[i] <=> e[i])
    BY <1>5, <1>6, XorBit
  <1> HIDE DEF ab, ce
  <1>9. /\ Crc!Step(crc, byte) \in [0..15 -> BOOLEAN]
        /\ \A i \in 0..15 : Crc!Step(crc, byte)[i] <=> ~(ab[i] <=> ce[i])
    BY <1>2, <1>7, <1>8, XorBit
  <1>10. ASSUME NEW i \in 0..15
         PROVE  Crc!Step(crc, byte)[i] <=>
                  Sum4(i <= 7 /\ crc[i + 8], i >= 8 /\ ch[i - 8],
                       i >= 3 /\ i <= 10 /\ ch[i - 3], i <= 3 /\ ch[i + 4])
    BY <1>3, <1>4, <1>5, <1>6, <1>7, <1>8, <1>9 DEF Sum4
  <1>. QED  BY <1>9, <1>10 DEF ch

\* A step of the reference, bit by bit.
LEMMA RefBitIs ==
  ASSUME NEW crc \in [0..15 -> BOOLEAN], NEW bit \in BOOLEAN
  PROVE  /\ Crc!RefBit(crc, bit) \in [0..15 -> BOOLEAN]
         /\ \A i \in 0..15 :
              Crc!RefBit(crc, bit)[i] <=>
                ~((i <= 14 /\ crc[i + 1]) <=> (i \in {3, 10, 15} /\ ~(crc[0] <=> bit)))
  <1> DEFINE right == Crc!Right(crc, 1, 16)
             poly == Crc!Poly
  <1>1. right \in [0..15 -> BOOLEAN] /\ \A i \in 0..15 : right[i] <=> (i + 1 <= 15 /\ crc[i + 1])
    <2>1. PICK m \in Nat, bits \in Nat, k \in Nat : m = 15 /\ bits = 16 /\ k = 1
      OBVIOUS
    <2>2. crc \in [0..m -> BOOLEAN]
      BY <2>1
    <2>3. /\ Crc!Right(crc, k, bits) \in [0..bits - 1 -> BOOLEAN]
          /\ \A i \in 0..bits - 1 : Crc!Right(crc, k, bits)[i] <=> (i + k <= m /\ crc[i + k])
      BY <2>2, RightBit
    <2>. QED  BY <2>1, <2>3
  <1>2. poly \in [0..15 -> BOOLEAN] /\ \A i \in 0..15 : poly[i] <=> i \in {3, 10, 15}
    <2>1. Crc!Bits(16) = 0..15
      BY DEF Crc!Bits
    <2>2. poly = [i \in 0..15 |-> i \in {3, 10, 15}]
      BY <2>1, Zenon DEF Crc!Poly
    <2> HIDE DEF poly
    <2>3. ASSUME NEW i \in 0..15  PROVE poly[i] <=> i \in {3, 10, 15}
      BY <2>2, Zenon
    <2>4. poly \in [0..15 -> BOOLEAN]
      BY <2>2
    <2>. QED  BY <2>3, <2>4, Zenon
  <1>3. (crc[0] # bit) <=> ~(crc[0] <=> bit)
    <2>1. crc[0] \in BOOLEAN
      OBVIOUS
    <2>. QED  BY <2>1, Zenon
  <1>4. Crc!RefBit(crc, bit) = IF crc[0] # bit THEN Crc!Xor(right, poly) ELSE right
    BY DEF Crc!RefBit
  <1> HIDE DEF right, poly
  <1>5. /\ Crc!Xor(right, poly) \in [0..15 -> BOOLEAN]
        /\ \A i \in 0..15 : Crc!Xor(right, poly)[i] <=> ~(right[i] <=> poly[i])
    BY <1>1, <1>2, XorBit
  <1>6. CASE crc[0] # bit
    <2>1. Crc!RefBit(crc, bit) = Crc!Xor(right, poly) /\ ~(crc[0] <=> bit)
      BY <1>3, <1>4, <1>6
    <2>. QED  BY <1>1, <1>2, <1>5, <2>1
  <1>7. CASE ~(crc[0] # bit)
    <2>1. Crc!RefBit(crc, bit) = right /\ (crc[0] <=> bit)
      BY <1>3, <1>4, <1>7
    <2>. QED  BY <1>1, <2>1
  <1>. QED  BY <1>6, <1>7

\* The reference after k of a byte's bits: the register has moved by k places, and
\* each bit of ch that it has fed back has moved on from the polynomial's three.
RefForm(crc, ch, k, w) ==
  \A i \in 0..15 :
    w[i] <=> Sum4(i + k <= 15 /\ crc[i + k],
                  i <= 3 /\ i + k >= 4 /\ ch[i + k - 4],
                  i <= 10 /\ i + k >= 11 /\ ch[i + k - 11],
                  i + k >= 16 /\ ch[i + k - 16])

LEMMA RefFormStep ==
  ASSUME NEW crc \in [0..15 -> BOOLEAN], NEW byte \in [0..7 -> BOOLEAN], NEW k \in 0..7,
         NEW w \in [0..15 -> BOOLEAN], RefForm(crc, Ch(crc, byte), k, w)
  PROVE  /\ Crc!RefBit(w, byte[k]) \in [0..15 -> BOOLEAN]
         /\ RefForm(crc, Ch(crc, byte), k + 1, Crc!RefBit(w, byte[k]))
  <1> DEFINE ch == Ch(crc, byte)
             low == Low(crc, byte)
             bit == byte[k]
             next == Crc!RefBit(w, bit)
  <1>1. /\ low \in [0..7 -> BOOLEAN] /\ ch \in [0..7 -> BOOLEAN]
        /\ \A i \in 0..7 : low[i] <=> ~(byte[i] <=> crc[i])
        /\ \A i \in 0..7 : ch[i] <=> ~(low[i] <=> (i >= 4 /\ low[i - 4]))
    BY ChBit
  <1>2. bit \in BOOLEAN
    OBVIOUS
  <1>3. /\ next \in [0..15 -> BOOLEAN]
        /\ \A i \in 0..15 :
             next[i] <=> ~((i <= 14 /\ w[i + 1]) <=> (i \in {3, 10, 15} /\ ~(w[0] <=> bit)))
    BY <1>2, RefBitIs
  <1>4. RefForm(crc, ch, k, w)
    OBVIOUS
  <1> HIDE DEF ch, low, bit, next
  \* What is fed back is the bit of ch.
  <1>5. ~(w[0] <=> bit) <=> ch[k]
    <2>1. w[0] <=> Sum4(crc[k], k >= 4 /\ ch[k - 4], FALSE, FALSE)
      BY <1>4 DEF RefForm, Sum4
    <2>2. k >= 4 => (ch[k - 4] <=> low[k - 4])
      BY <1>1
    <2>3. low[k] <=> ~(bit <=> crc[k])
      BY <1>1 DEF bit
    <2>4. ch[k] <=> ~(low[k] <=> (k >= 4 /\ low[k - 4]))
      BY <1>1
    <2>. QED  BY <2>1, <2>2, <2>3, <2>4 DEF Sum4
  <1>6. ASSUME NEW i \in 0..15
        PROVE  next[i] <=> Sum4(i + (k + 1) <= 15 /\ crc[i + (k + 1)],
                                i <= 3 /\ i + (k + 1) >= 4 /\ ch[i + (k + 1) - 4],
                                i <= 10 /\ i + (k + 1) >= 11 /\ ch[i + (k + 1) - 11],
                                i + (k + 1) >= 16 /\ ch[i + (k + 1) - 16])
    <2>1. next[i] <=> ~((i <= 14 /\ w[i + 1]) <=> (i \in {3, 10, 15} /\ ch[k]))
      BY <1>3, <1>5
    <2>2. i <= 14 =>
            (w[i + 1] <=> Sum4((i + 1) + k <= 15 /\ crc[(i + 1) + k],
                               i + 1 <= 3 /\ (i + 1) + k >= 4 /\ ch[(i + 1) + k - 4],
                               i + 1 <= 10 /\ (i + 1) + k >= 11 /\ ch[(i + 1) + k - 11],
                               (i + 1) + k >= 16 /\ ch[(i + 1) + k - 16]))
      BY <1>4 DEF RefForm
    <2>3. (i + 1) + k = i + (k + 1)
      OBVIOUS
    <2>. QED  BY <2>1, <2>2, <2>3 DEF Sum4
  <1>7. RefForm(crc, ch, k + 1, next)
    BY <1>6 DEF RefForm
  <1>. QED  BY <1>3, <1>7 DEF ch, next, bit

\* The reference's function is the one its equations describe.
LEMMA RefStepIs ==
  ASSUME NEW crc, NEW byte
  PROVE  \E w : /\ w[0] = crc
                /\ w[1] = Crc!RefBit(w[0], byte[0]) /\ w[2] = Crc!RefBit(w[1], byte[1])
                /\ w[3] = Crc!RefBit(w[2], byte[2]) /\ w[4] = Crc!RefBit(w[3], byte[3])
                /\ w[5] = Crc!RefBit(w[4], byte[4]) /\ w[6] = Crc!RefBit(w[5], byte[5])
                /\ w[7] = Crc!RefBit(w[6], byte[6]) /\ w[8] = Crc!RefBit(w[7], byte[7])
                /\ Crc!RefStep(crc, byte) = w[8]
  <1> DEFINE a1 == Crc!RefBit(crc, byte[0])
             a2 == Crc!RefBit(a1, byte[1])
             a3 == Crc!RefBit(a2, byte[2])
             a4 == Crc!RefBit(a3, byte[3])
             a5 == Crc!RefBit(a4, byte[4])
             a6 == Crc!RefBit(a5, byte[5])
             a7 == Crc!RefBit(a6, byte[6])
             a8 == Crc!RefBit(a7, byte[7])
             g == [k \in 0..8 |-> CASE k = 0 -> crc [] k = 1 -> a1 [] k = 2 -> a2 [] k = 3 -> a3
                                    [] k = 4 -> a4 [] k = 5 -> a5 [] k = 6 -> a6 [] k = 7 -> a7
                                    [] OTHER -> a8]
             after == CHOOSE f : f = [k \in 0..8 |->
                        IF k = 0 THEN crc ELSE Crc!RefBit(f[k - 1], byte[k - 1])]
  <1> HIDE DEF a1, a2, a3, a4, a5, a6, a7, a8
  <1>1. /\ g[0] = crc /\ g[1] = a1 /\ g[2] = a2 /\ g[3] = a3 /\ g[4] = a4 /\ g[5] = a5
        /\ g[6] = a6 /\ g[7] = a7 /\ g[8] = a8 /\ DOMAIN g = 0..8
    OBVIOUS
  <1> HIDE DEF g
  <1>2. ASSUME NEW k \in 0..8
        PROVE  g[k] = IF k = 0 THEN crc ELSE Crc!RefBit(g[k - 1], byte[k - 1])
    BY <1>1 DEF a1, a2, a3, a4, a5, a6, a7, a8
  <1>3. g = [k \in 0..8 |-> IF k = 0 THEN crc ELSE Crc!RefBit(g[k - 1], byte[k - 1])]
    BY <1>1, <1>2 DEF g
  <1>4. after = [k \in 0..8 |-> IF k = 0 THEN crc ELSE Crc!RefBit(after[k - 1], byte[k - 1])]
    BY <1>3, Zenon
  <1>5. Crc!RefStep(crc, byte) = after[8]
    BY Zenon DEF Crc!RefStep
  <1> HIDE DEF after
  <1>6. /\ after[0] = crc
        /\ after[1] = Crc!RefBit(after[0], byte[0]) /\ after[2] = Crc!RefBit(after[1], byte[1])
        /\ after[3] = Crc!RefBit(after[2], byte[2]) /\ after[4] = Crc!RefBit(after[3], byte[3])
        /\ after[5] = Crc!RefBit(after[4], byte[4]) /\ after[6] = Crc!RefBit(after[5], byte[5])
        /\ after[7] = Crc!RefBit(after[6], byte[6]) /\ after[8] = Crc!RefBit(after[7], byte[7])
    <2>1. ASSUME NEW k \in 1..8  PROVE after[k] = Crc!RefBit(after[k - 1], byte[k - 1])
      BY <1>4
    <2>. QED  BY <1>4, <2>1
  <1>. QED  BY <1>5, <1>6

\* A step of the code is eight of the reference's.
LEMMA StepIsRefStep ==
  ASSUME NEW crc \in [0..15 -> BOOLEAN], NEW byte \in [0..7 -> BOOLEAN]
  PROVE  Crc!Step(crc, byte) = Crc!RefStep(crc, byte)
  <1> DEFINE ch == Ch(crc, byte)
             W == [0..15 -> BOOLEAN]
  <1>1. PICK w : /\ w[0] = crc
                 /\ w[1] = Crc!RefBit(w[0], byte[0]) /\ w[2] = Crc!RefBit(w[1], byte[1])
                 /\ w[3] = Crc!RefBit(w[2], byte[2]) /\ w[4] = Crc!RefBit(w[3], byte[3])
                 /\ w[5] = Crc!RefBit(w[4], byte[4]) /\ w[6] = Crc!RefBit(w[5], byte[5])
                 /\ w[7] = Crc!RefBit(w[6], byte[6]) /\ w[8] = Crc!RefBit(w[7], byte[7])
                 /\ Crc!RefStep(crc, byte) = w[8]
    BY RefStepIs
  <1>2. ch \in [0..7 -> BOOLEAN]
    BY ChBit
  <1>3. \A k \in 0..7, v \in W :
          RefForm(crc, ch, k, v) =>
            Crc!RefBit(v, byte[k]) \in W /\ RefForm(crc, ch, k + 1, Crc!RefBit(v, byte[k]))
    BY RefFormStep
  <1> HIDE DEF ch, W
  <1>4. w[0] \in W /\ RefForm(crc, ch, 0, w[0])
    BY <1>1, <1>2 DEF RefForm, Sum4, W
  <1>5. w[1] \in W /\ RefForm(crc, ch, 1, w[1])
    BY <1>1, <1>3, <1>4, 0 + 1 = 1
  <1>6. w[2] \in W /\ RefForm(crc, ch, 2, w[2])
    BY <1>1, <1>3, <1>5, 1 + 1 = 2
  <1>7. w[3] \in W /\ RefForm(crc, ch, 3, w[3])
    BY <1>1, <1>3, <1>6, 2 + 1 = 3
  <1>8. w[4] \in W /\ RefForm(crc, ch, 4, w[4])
    BY <1>1, <1>3, <1>7, 3 + 1 = 4
  <1>9. w[5] \in W /\ RefForm(crc, ch, 5, w[5])
    BY <1>1, <1>3, <1>8, 4 + 1 = 5
  <1>10. w[6] \in W /\ RefForm(crc, ch, 6, w[6])
    BY <1>1, <1>3, <1>9, 5 + 1 = 6
  <1>11. w[7] \in W /\ RefForm(crc, ch, 7, w[7])
    BY <1>1, <1>3, <1>10, 6 + 1 = 7
  <1>12. w[8] \in W /\ RefForm(crc, ch, 8, w[8])
    BY <1>1, <1>3, <1>11, 7 + 1 = 8
  <1>13. /\ Crc!Step(crc, byte) \in W
         /\ \A i \in 0..15 :
              Crc!Step(crc, byte)[i] <=>
                Sum4(i <= 7 /\ crc[i + 8], i >= 8 /\ ch[i - 8],
                     i >= 3 /\ i <= 10 /\ ch[i - 3], i <= 3 /\ ch[i + 4])
    BY StepBit DEF ch, W
  <1>14. ASSUME NEW i \in 0..15  PROVE Crc!Step(crc, byte)[i] <=> w[8][i]
    <2>1. w[8][i] <=> Sum4(i + 8 <= 15 /\ crc[i + 8], i <= 3 /\ i + 8 >= 4 /\ ch[i + 8 - 4],
                           i <= 10 /\ i + 8 >= 11 /\ ch[i + 8 - 11],
                           i + 8 >= 16 /\ ch[i + 8 - 16])
      BY <1>12 DEF RefForm
    <2>2. i + 8 - 4 = i + 4 /\ i + 8 - 11 = i - 3 /\ i + 8 - 16 = i - 8
      OBVIOUS
    <2>. QED  BY <1>13, <2>1, <2>2 DEF Sum4
  <1>15. ASSUME NEW i \in 0..15  PROVE Crc!Step(crc, byte)[i] = w[8][i]
    <2>1. Crc!Step(crc, byte)[i] \in BOOLEAN /\ w[8][i] \in BOOLEAN
      BY <1>12, <1>13 DEF W
    <2>. QED  BY <1>14, <2>1, Zenon
  <1>. QED  BY <1>1, <1>12, <1>13, <1>15 DEF W

LEMMA TrailerBits ==
  ASSUME NEW crc \in [0..15 -> BOOLEAN]
  PROVE  \E low, high \in [0..7 -> BOOLEAN] :
           /\ Crc!Trailer(crc) = <<low, high>>
           /\ \A i \in 0..7 : (low[i] <=> ~crc[i]) /\ (high[i] <=> ~crc[i + 8])
  <1> DEFINE sum == Crc!Not(crc)
             low == Crc!Right(sum, 0, 8)
             high == Crc!Right(sum, 8, 8)
  <1>1. sum \in [0..15 -> BOOLEAN] /\ \A i \in 0..15 : sum[i] <=> ~crc[i]
    <2>1. DOMAIN crc = 0..15
      OBVIOUS
    <2>2. ASSUME NEW i \in 0..15  PROVE sum[i] <=> ~crc[i]
      BY <2>1, Zenon DEF Crc!Not
    <2>3. sum \in [0..15 -> BOOLEAN]
      BY <2>1 DEF Crc!Not
    <2>. QED  BY <2>2, <2>3
  <1>2. Crc!Trailer(crc) = <<low, high>>
    BY DEF Crc!Trailer
  <1> HIDE DEF sum
  <1>3. PICK m \in Nat, bits \in Nat, k \in Nat, z \in Nat : m = 15 /\ bits = 8 /\ k = 8 /\ z = 0
    OBVIOUS
  <1>4. sum \in [0..m -> BOOLEAN]
    BY <1>1, <1>3
  <1>5. /\ Crc!Right(sum, z, bits) \in [0..bits - 1 -> BOOLEAN]
        /\ \A i \in 0..bits - 1 : Crc!Right(sum, z, bits)[i] <=> (i + z <= m /\ sum[i + z])
    BY <1>4, RightBit
  <1>6. /\ Crc!Right(sum, k, bits) \in [0..bits - 1 -> BOOLEAN]
        /\ \A i \in 0..bits - 1 : Crc!Right(sum, k, bits)[i] <=> (i + k <= m /\ sum[i + k])
    BY <1>4, RightBit
  <1>7. low \in [0..7 -> BOOLEAN] /\ \A i \in 0..7 : low[i] <=> sum[i]
    BY <1>3, <1>5
  <1>8. high \in [0..7 -> BOOLEAN] /\ \A i \in 0..7 : high[i] <=> sum[i + 8]
    BY <1>3, <1>6
  <1> HIDE DEF low, high
  <1>9. ASSUME NEW i \in 0..7  PROVE (low[i] <=> ~crc[i]) /\ (high[i] <=> ~crc[i + 8])
    BY <1>1, <1>7, <1>8
  <1>. QED  BY <1>2, <1>7, <1>8, <1>9

LEMMA SameTruth ==
  ASSUME NEW a \in BOOLEAN, NEW b \in BOOLEAN, a <=> b
  PROVE  a = b
  BY Zenon

\* Whatever the register has, its complement turns it into the residue.
LEMMA TrailerGivesResidue ==
  ASSUME NEW crc \in [0..15 -> BOOLEAN], NEW low \in [0..7 -> BOOLEAN],
         NEW high \in [0..7 -> BOOLEAN],
         \A i \in 0..7 : (low[i] <=> ~crc[i]) /\ (high[i] <=> ~crc[i + 8])
  PROVE  Crc!Step(Crc!Step(crc, low), high) = Crc!Residue
  <1> DEFINE l1 == Low(crc, low)
             ch1 == Ch(crc, low)
             mid == Crc!Step(crc, low)
             l2 == Low(mid, high)
             ch2 == Ch(mid, high)
             end == Crc!Step(mid, high)
  <1>1. /\ l1 \in [0..7 -> BOOLEAN] /\ ch1 \in [0..7 -> BOOLEAN]
        /\ \A i \in 0..7 : l1[i] <=> ~(low[i] <=> crc[i])
        /\ \A i \in 0..7 : ch1[i] <=> ~(l1[i] <=> (i >= 4 /\ l1[i - 4]))
    BY ChBit
  <1>2. /\ mid \in [0..15 -> BOOLEAN]
        /\ \A i \in 0..15 :
             mid[i] <=> Sum4(i <= 7 /\ crc[i + 8], i >= 8 /\ ch1[i - 8],
                             i >= 3 /\ i <= 10 /\ ch1[i - 3], i <= 3 /\ ch1[i + 4])
    BY StepBit
  <1> HIDE DEF l1, ch1, mid
  <1>3. /\ l2 \in [0..7 -> BOOLEAN] /\ ch2 \in [0..7 -> BOOLEAN]
        /\ \A i \in 0..7 : l2[i] <=> ~(high[i] <=> mid[i])
        /\ \A i \in 0..7 : ch2[i] <=> ~(l2[i] <=> (i >= 4 /\ l2[i - 4]))
    BY <1>2, ChBit
  <1>4. /\ end \in [0..15 -> BOOLEAN]
        /\ \A i \in 0..15 :
             end[i] <=> Sum4(i <= 7 /\ mid[i + 8], i >= 8 /\ ch2[i - 8],
                             i >= 3 /\ i <= 10 /\ ch2[i - 3], i <= 3 /\ ch2[i + 4])
    BY <1>2, StepBit
  <1> HIDE DEF l2, ch2, end
  <1>5. ASSUME NEW i \in 0..7  PROVE l1[i]
    BY <1>1
  <1>6. ASSUME NEW i \in 0..7  PROVE ch1[i] <=> i < 4
    BY <1>1, <1>5
  <1>7. ASSUME NEW i \in 0..7  PROVE mid[i] <=> ~(crc[i + 8] <=> (3 <= i /\ i <= 6))
    BY <1>2, <1>6 DEF Sum4
  <1>8. ASSUME NEW i \in 8..15  PROVE mid[i] <=> i < 12
    BY <1>2, <1>6 DEF Sum4
  <1>9. ASSUME NEW i \in 0..7  PROVE l2[i] <=> ~(3 <= i /\ i <= 6)
    BY <1>3, <1>7
  <1>10. ASSUME NEW i \in 0..7  PROVE ch2[i] <=> i # 3
    BY <1>3, <1>9
  <1>11. ASSUME NEW i \in 0..15  PROVE end[i] <=> i \in {3, 4, 5, 7, 12, 13, 14, 15}
    <2>1. i <= 7 => (mid[i + 8] <=> i < 4)
      BY <1>8
    <2>2. i >= 8 => (ch2[i - 8] <=> i # 11)
      BY <1>10
    <2>3. i >= 3 /\ i <= 10 => (ch2[i - 3] <=> i # 6)
      BY <1>10
    <2>4. i <= 3 => ch2[i + 4]
      BY <1>10
    <2>. QED  BY <1>4, <2>1, <2>2, <2>3, <2>4 DEF Sum4
  <1> DEFINE residue == Crc!Residue
  <1>12. residue \in [0..15 -> BOOLEAN]
         /\ \A i \in 0..15 : residue[i] <=> i \in {3, 4, 5, 7, 12, 13, 14, 15}
    <2>1. Crc!Bits(16) = 0..15
      BY DEF Crc!Bits
    <2>2. residue = [i \in 0..15 |-> i \in {3, 4, 5, 7, 12, 13, 14, 15}]
      BY <2>1, Zenon DEF Crc!Residue
    <2> HIDE DEF residue
    <2>3. ASSUME NEW i \in 0..15  PROVE residue[i] <=> i \in {3, 4, 5, 7, 12, 13, 14, 15}
      BY <2>2, Zenon
    <2>4. residue \in [0..15 -> BOOLEAN]
      BY <2>2
    <2>. QED  BY <2>3, <2>4, Zenon
  <1> HIDE DEF residue
  <1>13. ASSUME NEW i \in 0..15  PROVE end[i] = residue[i]
    <2>1. end[i] \in BOOLEAN /\ residue[i] \in BOOLEAN
      BY <1>4, <1>12
    <2>2. end[i] <=> residue[i]
      BY <1>11, <1>12
    <2>. QED  BY <2>1, <2>2, SameTruth
  <1>14. end = residue
    BY <1>4, <1>12, <1>13
  <1>. QED  BY <1>14 DEF end, mid, residue

CrcInv == Crc!TypeOK /\ Crc!CrcIsReference

LEMMA CrcInvHolds == Crc!Spec => []CrcInv
  <1>1. Crc!Init => CrcInv
    BY ModemAssumption DEF Crc!Init, CrcInv, Crc!TypeOK, Crc!CrcIsReference, Crc!Ones, Crc!Word, Crc!Bits
  <1>2. ASSUME CrcInv, [Crc!Next]_(Crc!vars)  PROVE CrcInv'
    <2>1. Crc!Ones \in Crc!Word(16)
      BY DEF Crc!Ones, Crc!Word, Crc!Bits
    <2>2. CASE Crc!Again
      BY <1>2, <2>1, <2>2, ModemAssumption DEF Crc!Again, CrcInv, Crc!TypeOK, Crc!CrcIsReference
    <2>3. ASSUME NEW byte \in Byte, Crc!Feed(byte)  PROVE CrcInv'
      <3>1. byte \in [0..7 -> BOOLEAN] /\ wCRC \in [0..15 -> BOOLEAN] /\ wCRC = ref
        BY <1>2, ModemAssumption DEF CrcInv, Crc!TypeOK, Crc!CrcIsReference, Crc!Word, Crc!Bits
      <3>2. Crc!Step(wCRC, byte) = Crc!RefStep(ref, byte)
        BY <3>1, StepIsRefStep
      <3>3. Crc!Step(wCRC, byte) \in Crc!Word(16)
        BY <3>1, StepBit DEF Crc!Word, Crc!Bits
      <3>4. n' \in 0..MaxBytes
        BY <1>2, <2>3, ModemAssumption DEF CrcInv, Crc!TypeOK, Crc!Feed
      <3>. QED  BY <2>3, <3>2, <3>3, <3>4 DEF CrcInv, Crc!TypeOK, Crc!CrcIsReference, Crc!Feed
    <2>4. CASE UNCHANGED Crc!vars
      BY <1>2, <2>4 DEF CrcInv, Crc!TypeOK, Crc!CrcIsReference, Crc!vars
    <2>. QED  BY <1>2, <2>2, <2>3, <2>4 DEF Crc!Next
  <1>. QED  BY <1>1, <1>2, PTL DEF Crc!Spec

\* _srsd_crc16 is the CRC with the polynomial x^16 + x^12 + x^5 + 1 of any data,
\* and a receiver with the reference finds the residue behind every frame.
THEOREM ChecksumsAreRight == Crc!Spec => []FramesAreSound
  <1>1. ASSUME CrcInv  PROVE FramesAreSound
    <2>1. wCRC \in [0..15 -> BOOLEAN] /\ wCRC = ref
      BY <1>1 DEF CrcInv, Crc!TypeOK, Crc!CrcIsReference, Crc!Word, Crc!Bits
    <2>2. PICK low \in [0..7 -> BOOLEAN], high \in [0..7 -> BOOLEAN] :
            /\ Crc!Trailer(wCRC) = <<low, high>>
            /\ \A i \in 0..7 : (low[i] <=> ~wCRC[i]) /\ (high[i] <=> ~wCRC[i + 8])
      BY <2>1, TrailerBits
    <2>3. Crc!Step(Crc!Step(wCRC, low), high) = Crc!Residue
      BY <2>1, <2>2, TrailerGivesResidue
    <2>4. Crc!Step(wCRC, low) = Crc!RefStep(ref, low) /\ Crc!Step(wCRC, low) \in [0..15 -> BOOLEAN]
      BY <2>1, StepBit, StepIsRefStep
    <2>5. Crc!RefStep(Crc!RefStep(ref, low), high) = Crc!Residue
      BY <2>3, <2>4, StepIsRefStep
    <2>6. Crc!Trailer(wCRC)[1] = low /\ Crc!Trailer(wCRC)[2] = high
      BY <2>2
    <2>. QED  BY <1>1, <2>5, <2>6 DEF CrcInv, FramesAreSound, Crc!FrameIsSound
  <1>. QED  BY <1>1, CrcInvHolds, PTL
=============================================================================
