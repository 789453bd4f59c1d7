---------------------------- MODULE MCSerialPort ----------------------------
(***************************************************************************)
(* What an agent sends to a modem and gets back, for TLC.  Each run has    *)
(* one of commands, requests and checksums; the other two stay as they are *)
(* at the start.                                                           *)
(***************************************************************************)
EXTENDS Modem

CONSTANTS c1, c2, p1, p2

VARIABLE way  \* the one that runs

\* Characters, which as a number are more than any frame's length.
A == 65
B == 66

\* Answers of none to three characters; the error is one character and another,
\* so that its beginning is an answer too.
Answers == {<<>>, <<A>>, <<A, A, B>>, <<B, A>>}
Errors  == {<<B, A>>}

\* A checksum may be any number, small ones among them.
Checksums == {0, 1, A}

AllBytes == [0..7 -> BOOLEAN]

ModemInit == way \in {"serial", "request", "crc"} /\ Init /\ Request!Init /\ Crc!Init

ModemNext ==
  /\ UNCHANGED way
  /\ \/ way = "serial" /\ Next /\ UNCHANGED <<request_vars, crc_vars>>
     \/ way = "request" /\ Request!Next /\ UNCHANGED <<vars, crc_vars>>
     \/ way = "crc" /\ Crc!Next /\ UNCHANGED <<vars, request_vars>>

ModemSpec == ModemInit /\ [][ModemNext]_<<way, vars, request_vars, crc_vars>>
=============================================================================
