-------------------------------- MODULE SrsdCrc --------------------------------
(***************************************************************************)
(* The checksum of an SRSD frame (_srsd_crc16 in                           *)
(* woorinet_remote_diag_agent.py, srsdCRC16 in go_agent/srsd.go), a byte   *)
(* at a time, beside its reference: the CRC with the polynomial            *)
(* x^16 + x^12 + x^5 + 1, its bits in reverse order, one bit at a time.    *)
(*                                                                         *)
(* A word is a function from the places of its bits, so that what Python   *)
(* masks and Go's types cut off is left out by the domain.                 *)
(***************************************************************************)
EXTENDS Naturals

CONSTANTS
  Byte,    \* the bytes of the data, of Word(8)
  MaxBytes \* bound: length of the data

Bits(n) == 0..n - 1
Word(n) == [Bits(n) -> BOOLEAN]

VARIABLES
  n,    \* bytes so far
  wCRC, \* the code's register
  ref   \* the reference's register

vars == <<n, wCRC, ref>>

TypeOK == n \in 0..MaxBytes /\ wCRC \in Word(16) /\ ref \in Word(16)

-----------------------------------------------------------------------------
\* Each definition named Wrong... is a plausible slip in the one after it; the
\* specification does not use it.

Bit(w, i) == i \in DOMAIN w /\ w[i]

\* w << k or w >> k, in n bits.
Left(w, k, bits)  == [i \in Bits(bits) |-> i >= k /\ Bit(w, i - k)]
Right(w, k, bits) == [i \in Bits(bits) |-> Bit(w, i + k)]

Xor(w, v) == [i \in DOMAIN w |-> w[i] # v[i]]

Not(w) == [i \in DOMAIN w |-> ~w[i]]

\* The third shift is the one for another polynomial.
WrongStep(crc, byte) ==
  LET low == Xor(byte, Right(crc, 0, 8))
      ch  == Xor(low, Left(low, 4, 8))
  IN  Xor(Xor(Right(crc, 8, 16), Left(ch, 8, 16)),
          Xor(Left(ch, 2, 16), Right(ch, 4, 16)))

\* The loop of _srsd_crc16.
Step(crc, byte) ==
  LET low == Xor(byte, Right(crc, 0, 8))
      ch  == Xor(low, Left(low, 4, 8))
  IN  Xor(Xor(Right(crc, 8, 16), Left(ch, 8, 16)),
          Xor(Left(ch, 3, 16), Right(ch, 4, 16)))

\* The high byte first.
WrongTrailer(crc) == LET sum == Not(crc) IN <<Right(sum, 8, 8), Right(sum, 0, 8)>>

\* The two bytes behind the payload: the complement, low byte first.
Trailer(crc) == LET sum == Not(crc) IN <<Right(sum, 0, 8), Right(sum, 8, 8)>>

\* 0xFFFF
Ones == [i \in Bits(16) |-> TRUE]

-----------------------------------------------------------------------------
\* The reference: x^16 + x^12 + x^5 + 1 is 0x8408 with its bits reversed.

Poly == [i \in Bits(16) |-> i \in {3, 10, 15}]

RefBit(crc, bit) ==
  IF crc[0] # bit THEN Xor(Right(crc, 1, 16), Poly) ELSE Right(crc, 1, 16)

RefStep(crc, byte) ==
  LET after[k \in 0..8] == IF k = 0 THEN crc ELSE RefBit(after[k - 1], byte[k - 1])
  IN  after[8]

\* What the reference's register has after any data and its own checksum,
\* 0xF0B8: a receiver finds it there and knows that the frame is sound.
Residue == [i \in Bits(16) |-> i \in {3, 4, 5, 7, 12, 13, 14, 15}]

Init == n = 0 /\ wCRC = Ones /\ ref = Ones

Feed(byte) ==
  /\ n < MaxBytes
  /\ n' = n + 1
  /\ wCRC' = Step(wCRC, byte)
  /\ ref' = RefStep(ref, byte)

\* The checksum is taken, and the next frame begins.
Again == n > 0 /\ n' = 0 /\ wCRC' = Ones /\ ref' = Ones

Next == Again \/ \E byte \in Byte : Feed(byte)

Spec == Init /\ [][Next]_vars

-----------------------------------------------------------------------------
\* The four shifts of the code do what eight steps of the reference do ("the
\* same CRC16 as the C function GenCRC16", _srsd_crc16), for all data.
CrcIsReference == wCRC = ref

\* A frame of the agent is sound to a receiver that has the reference.
FrameIsSound ==
  LET t == Trailer(wCRC) IN RefStep(RefStep(ref, t[1]), t[2]) = Residue
=============================================================================
