------------------------------- MODULE Checksum -------------------------------
(***************************************************************************)
(* The checksum of a PDU: in_cksum (checksum.c), how createPDU and         *)
(* formatReceiverReadyPDU seal a PDU with it.                              *)
(*                                                                         *)
(* A PDU is the sequence of its bytes: four of the sequence number, two of *)
(* the checksum, the flag and the payload.  The machine is little-endian:  *)
(* the first byte of a pair is the low one.  A PDU is at most 1407 bytes,  *)
(* so the 32-bit accumulator cannot overflow.                              *)
(***************************************************************************)
EXTENDS Integers, Sequences, Functions

CONSTANTS
  Byte,        \* the number of values of a byte: 256
  Payloads     \* the payloads sent, sequences of bytes

ASSUME ByteAssumption ==
  /\ Byte \in Nat /\ Byte % 2 = 0 /\ Byte > 0
  /\ \A payload \in Payloads :
       /\ payload \in Seq(0 .. (Byte - 1)) /\ payload # <<>>
       /\ 7 + Len(payload) < Byte * Byte

Word == Byte * Byte
Bytes == 0 .. (Byte - 1)

\* What byte k counts in the word it belongs to; an odd one at the end is the low
\* byte of a word of its own, whose high byte is 0.
Weight(k) == IF k % 2 = 0 THEN Byte ELSE 1

\* Mutant: an odd length is rounded up to whole words, as the NOTE in checksum.c says.
Sum_WholeWords(addr, len) ==
  SumFunction([k \in 1 .. len + (len % 2) |->
                 IF k \in DOMAIN addr THEN Weight(k) * addr[k] ELSE 0])

\* addr may hold more than the len bytes that are summed.
Sum(addr, len) == SumFunction([k \in 1 .. len |-> Weight(k) * addr[k]])

\* The carries out of the low word added back, twice.
Folded(sum) ==
  LET once == (sum \div Word) + (sum % Word)
  IN  once + (once \div Word)

\* ~sum truncated to a word.
in_cksum(addr, len) == (Word - 1) - (Folded(Sum(addr, len)) % Word)

\* The checksum is computed over a PDU whose checksum is 0, then put there.
Sealed(seq, flag, payload) ==
  LET zero  == seq \o <<0, 0, flag>> \o payload
      cksum == in_cksum(zero, Len(zero))
  IN  [zero EXCEPT ![5] = cksum % Byte, ![6] = cksum \div Byte]

=============================================================================
