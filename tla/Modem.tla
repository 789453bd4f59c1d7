--------------------------------- MODULE Modem ---------------------------------
(***************************************************************************)
(* What an agent sends to a modem and gets back: AT commands over a serial *)
(* port (SerialPort), requests over UDP (Srsd) and the checksum of their   *)
(* frames (SrsdCrc).  They have nothing in common.                         *)
(***************************************************************************)
EXTENDS SerialPort

CONSTANTS
  Text, ErrorText, Checksum, Provider, HeaderLen, MaxPackets, MaxDoubled,
  Byte, MaxBytes

ASSUME ModemAssumption ==
  /\ \A text \in Text : text \in Seq(Nat)
  /\ Checksum \subseteq Nat /\ Provider \in Nat
  /\ HeaderLen \in Nat /\ HeaderLen >= 2
  /\ MaxPackets \in Nat /\ MaxDoubled \in Nat
  /\ Byte \subseteq [0..7 -> BOOLEAN] /\ MaxBytes \in Nat

VARIABLES
  phase, answered, answer, net, resp, returned, whole, orderly, doubled,
  n, wCRC, ref

Request == INSTANCE Srsd WITH sent <- answered, result <- returned

Crc == INSTANCE SrsdCrc

request_vars == <<phase, answered, answer, net, resp, returned, whole, orderly, doubled>>
crc_vars     == <<n, wCRC, ref>>

-----------------------------------------------------------------------------
\* What a request returns is what the device answered, as far as the agent can
\* tell, and it returns with the last packet (_srsd_send_recv, _srsd_parse).
AnswersAreTrue == Request!TypeOK /\ Request!AnswersAreTrue /\ Request!EndsWithTheLast

\* A success is the whole answer, which the code's docstring says and the code
\* does not keep (woorinet_remote_diag_agent.py:900).
SuccessIsWhole == Request!SuccessIsWhole

\* _srsd_crc16 is the reference's CRC, and the reference finds its frames sound.
FramesAreSound == Crc!TypeOK /\ Crc!CrcIsReference /\ Crc!FrameIsSound
=============================================================================
