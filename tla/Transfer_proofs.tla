--------------------------- MODULE Transfer_proofs ---------------------------
(***************************************************************************)
(* What holds of a transfer with any number of children: TransferInv is an *)
(* invariant, and the properties that follow from it.                      *)
(***************************************************************************)
EXTENDS Types_proofs

-----------------------------------------------------------------------------
(* Arithmetic *)

LEMMA Multiple ==
  ASSUME NEW w \in Nat \ {0}, NEW k \in Int
  PROVE  w * k <= 0 \/ w * k >= w
<1>1. CASE k <= 0
  BY <1>1
<1>2. CASE k >= 1
  BY <1>2
<1> QED
  BY <1>1, <1>2

\* Two different numbers less than a window apart have different slots.
LEMMA SlotsDiffer ==
  ASSUME NEW w \in Nat \ {0}, NEW m \in Nat, NEW n \in Nat,
         m < n, n < m + w
  PROVE  m % w # n % w
<1> SUFFICES ASSUME m % w = n % w PROVE FALSE
  OBVIOUS
<1> DEFINE q == m \div w
           r == n \div w
           rest == n % w
<1>1. q \in Int /\ r \in Int /\ rest \in Int
  BY SlotIndex
<1>2. m = w * q + rest /\ n = w * r + rest
  OBVIOUS
<1> HIDE DEF q, r, rest
<1>3. n - m = w * (r - q)
  BY <1>1, <1>2
<1> QED
  BY <1>1, <1>3, Multiple

\* What follows when the numbers of the window do not decrease: l and s are
\* lower and sequenceNum before a step, l2 and s2 after it.
LEMMA OnlyGrows ==
  ASSUME NEW s \in 0 .. NumBlocks, NEW s2 \in 0 .. NumBlocks, s <= s2,
         NEW l \in Nat, NEW l2 \in 1 .. (s2 + 1), l <= l2
  PROVE  /\ l = NumBlocks + 1 => l2 = NumBlocks + 1
         /\ s = NumBlocks => s2 = NumBlocks
         /\ \A n \in 1 .. s : n \in 1 .. s2
         /\ \A n \in 1 .. (s + 1) : n \in 1 .. (s2 + 1)
         /\ \A n \in Int : n <= s + 1 => n <= s2 + 1
BY Constants

-----------------------------------------------------------------------------
(* rcopy's window *)

\* An answer moves the window forward only, and never past what was sent.
LEMMA AckWindow ==
  ASSUME TypeOK, TransferInv, NEW p \in net, NEW out, processRRorSREJ(p, out)
  PROVE  /\ WindowInv'
         /\ lower' = LowerAfter(p) /\ lower' \in Nat
         /\ lower <= lower' /\ lower' <= sequenceNum + 1
         /\ sequenceNum' = sequenceNum
<1> USE Constants
<1>1. p \in PDU /\ DatagramOK(p)
  BY DEF TypeOK, NetworkTypeOK, TransferInv
<1>2. lower \in Nat /\ sequenceNum \in Nat /\ p.seq \in Nat
      /\ window_buffer \in [0 .. (Window - 1) -> Slot]
  BY <1>1 DEF TypeOK, SenderTypeOK, PDU
<1>3. sequenceNum \in 0 .. NumBlocks /\ lower \in 1 .. (sequenceNum + 1)
  BY DEF TransferInv, WindowInv
<1>4. /\ lower' = LowerAfter(p) /\ sequenceNum' = sequenceNum
      /\ window_buffer' = ValidatedBy(p)
  BY DEF processRRorSREJ, processRRpacket
<1>5. lower <= lower' /\ lower' <= sequenceNum + 1 /\ lower' \in Nat
  BY <1>1, <1>2, <1>3, <1>4 DEF LowerAfter, DatagramOK
<1>6. ASSUME NEW i \in 0 .. (Window - 1)
      PROVE  /\ window_buffer'[i].sequenceNumber = window_buffer[i].sequenceNumber
             /\ window_buffer'[i].buff = window_buffer[i].buff
             /\ window_buffer[i].sequenceNumber >= LowerAfter(p)
                  => window_buffer'[i] = window_buffer[i]
  <2> DEFINE slot == window_buffer[i]
             upto == LowerAfter(p)
  <2>1. slot \in Slot /\ slot.sequenceNumber \in Nat /\ upto \in Nat
    BY <1>2, <1>4, <1>5 DEF Slot
  <2>2. window_buffer'[i] = IF slot.sequenceNumber \in lower .. (upto - 1)
                              THEN [slot EXCEPT !.validFlag = 1] ELSE slot
    BY <1>2, <1>4 DEF ValidatedBy
  <2> HIDE DEF slot, upto
  <2>3. slot.sequenceNumber >= upto => slot.sequenceNumber \notin lower .. (upto - 1)
    BY <1>2, <2>1
  <2>4. LET marked == [slot EXCEPT !.validFlag = 1]
        IN  marked.sequenceNumber = slot.sequenceNumber /\ marked.buff = slot.buff
    BY <2>1 DEF Slot
  <2> QED
    BY <2>2, <2>3, <2>4 DEF slot, upto
<1>7. DOMAIN window_buffer' = 0 .. (Window - 1)
      /\ DOMAIN window_buffer = 0 .. (Window - 1)
  BY <1>2, <1>4 DEF ValidatedBy
<1>8. ASSUME NEW n \in lower' .. sequenceNum
      PROVE  window_buffer'[n % Window] =
               [sequenceNumber |-> n, validFlag |-> 0, buff |-> Source[n]]
  <2>1. n \in Nat /\ n \in lower .. sequenceNum
    BY <1>2, <1>5
  <2> DEFINE i == n % Window
  <2>2. i \in 0 .. (Window - 1)
    BY <2>1, SlotIndex
  <2>3. window_buffer[i] =
          [sequenceNumber |-> n, validFlag |-> 0, buff |-> Source[n]]
    BY <2>1 DEF TransferInv, WindowInv, UnackedIsHeld
  <2>4. n >= LowerAfter(p)
    BY <1>4, <1>5
  <2> HIDE DEF i
  <2>5. window_buffer[i].sequenceNumber = n
    BY <2>3
  <2>6. window_buffer'[i] = window_buffer[i]
    BY <1>6, <2>2, <2>4, <2>5
  <2> QED
    BY <2>3, <2>6 DEF i
<1>9. sequenceNum < lower + Window
  BY DEF TransferInv, WindowInv, UnackedIsHeld
<1>10. UnackedIsHeld'
  <2>1. sequenceNum' < lower' + Window
    BY <1>2, <1>4, <1>5, <1>9
  <2>2. lower' .. sequenceNum' = lower' .. sequenceNum
    BY <1>4
  <2> QED
    BY <1>8, <2>1, <2>2 DEF UnackedIsHeld
<1>11. ASSUME NEW i \in 0 .. (Window - 1), window_buffer'[i].sequenceNumber # 0
       PROVE  /\ window_buffer'[i].sequenceNumber \in 1 .. sequenceNum
              /\ window_buffer'[i].buff = Source[window_buffer'[i].sequenceNumber]
  BY <1>6, <1>7, <1>11 DEF TransferInv, WindowInv
<1>12. WindowInv'
  BY <1>3, <1>4, <1>5, <1>7, <1>10, <1>11 DEF WindowInv
<1> QED
  BY <1>4, <1>5, <1>12

\* A block that is sent for the first time takes a slot whose packet has been
\* acknowledged.
LEMMA SendBlockWindow ==
  ASSUME TypeOK, TransferInv, SendBlock
  PROVE  WindowInv' /\ sequenceNum' = sequenceNum + 1 /\ lower' = lower
<1> USE Constants
<1> DEFINE n == sequenceNum + 1
           new == [sequenceNumber |-> n, validFlag |-> 0, buff |-> Source[n]]
<1>1. lower \in Nat /\ sequenceNum \in Nat
      /\ window_buffer \in [0 .. (Window - 1) -> Slot]
  BY DEF TypeOK, SenderTypeOK
<1>2. sequenceNum \in 0 .. NumBlocks /\ lower \in 1 .. (sequenceNum + 1)
  BY DEF TransferInv, WindowInv
<1>3. /\ n < lower + Window /\ sequenceNum < NumBlocks
      /\ sequenceNum' = n /\ lower' = lower
      /\ window_buffer' = [window_buffer EXCEPT ![n % Window] = new]
  BY DEF SendBlock, checkWindowOpen, windowStorePacket
<1>4. n \in Nat /\ n % Window \in 0 .. (Window - 1)
  BY <1>1, SlotIndex
<1>5. ASSUME NEW i \in 0 .. (Window - 1)
      PROVE  window_buffer'[i] = IF i = n % Window THEN new ELSE window_buffer[i]
  BY <1>1, <1>3
<1>6. DOMAIN window_buffer' = 0 .. (Window - 1)
      /\ DOMAIN window_buffer = 0 .. (Window - 1)
  BY <1>1, <1>3
<1>7. ASSUME NEW m \in lower .. n
      PROVE  window_buffer'[m % Window] =
               [sequenceNumber |-> m, validFlag |-> 0, buff |-> Source[m]]
  <2>1. m \in Nat /\ m % Window \in 0 .. (Window - 1)
    BY <1>1, SlotIndex
  <2>2. CASE m = n
    BY <1>4, <1>5, <2>2
  <2>3. CASE m # n
    <3>1. m < n /\ n < m + Window /\ m \in lower .. sequenceNum
      BY <1>1, <1>3, <2>3
    <3>2. m % Window # n % Window
      BY <1>4, <2>1, <3>1, SlotsDiffer
    <3>3. window_buffer[m % Window] =
            [sequenceNumber |-> m, validFlag |-> 0, buff |-> Source[m]]
      BY <3>1 DEF TransferInv, WindowInv, UnackedIsHeld
    <3> QED
      BY <1>5, <2>1, <3>2, <3>3
  <2> QED
    BY <2>2, <2>3
<1>8. UnackedIsHeld'
  BY <1>3, <1>7 DEF UnackedIsHeld
<1>9. ASSUME NEW i \in 0 .. (Window - 1), window_buffer'[i].sequenceNumber # 0
      PROVE  /\ window_buffer'[i].sequenceNumber \in 1 .. n
             /\ window_buffer'[i].buff = Source[window_buffer'[i].sequenceNumber]
  <2>1. CASE i = n % Window
    BY <1>1, <1>5, <2>1
  <2>2. CASE i # n % Window
    <3>1. window_buffer'[i] = window_buffer[i]
      BY <1>5, <2>2
    <3> QED
      BY <1>1, <1>6, <1>9, <3>1 DEF TransferInv, WindowInv
  <2> QED
    BY <2>1, <2>2
<1>10. n \in 0 .. NumBlocks /\ lower \in 1 .. (n + 1)
  BY <1>2, <1>3
<1> QED
  BY <1>3, <1>6, <1>8, <1>9, <1>10 DEF WindowInv

\* The states of rcopy's machine and its window after each of its steps.
LEMMA RcopyStepWindow ==
  ASSUME TypeOK, TransferInv, RcopyStep
  PROVE  /\ WindowInv' /\ PhaseInv'
         /\ lower <= lower' /\ sequenceNum <= sequenceNum'
<1> USE Constants
<1>1. /\ lower \in Nat /\ sequenceNum \in Nat /\ eof \in {0, 1}
      /\ eofSeqNum \in Nat /\ polling \in BOOLEAN
  BY DEF TypeOK, SenderTypeOK
<1>2. /\ sequenceNum \in 0 .. NumBlocks /\ lower \in 1 .. (sequenceNum + 1)
      /\ sequenceNum < lower + Window
  BY DEF TransferInv, WindowInv, UnackedIsHeld
<1>3. PhaseInv /\ WindowInv
  BY DEF TransferInv
<1>4. ASSUME UNCHANGED windowVars
      PROVE  WindowInv' /\ lower <= lower' /\ sequenceNum <= sequenceNum'
  BY <1>1, <1>3, <1>4 DEF WindowInv, UnackedIsHeld, windowVars
<1>5. CASE SendSetup
  BY <1>3, <1>4, <1>5 DEF SendSetup, PhaseInv, WaitingHasUnacked, windowVars
<1>6. CASE SetupTimeout
  <2>1. UNCHANGED <<NS, windowVars, eof, eofSeqNum>> /\ NS = "FILENAME"
    BY <1>6, Zenon DEF SetupTimeout
  <2> QED
    BY <1>3, <1>4, <2>1 DEF PhaseInv, WaitingHasUnacked, windowVars
<1>7. ASSUME NEW p \in net, SetupAnswer(p) \/ SetupAnswerFlipped(p)
      PROVE  /\ WindowInv' /\ PhaseInv'
             /\ lower <= lower' /\ sequenceNum <= sequenceNum'
  <2>1. PICK flagRight : SetupAnswered(p, flagRight)
    BY <1>7, Zenon DEF SetupAnswer, SetupAnswerFlipped
  <2>2. /\ NS = "FILENAME" /\ NS' \in {"FILENAME", "FILE_OK"}
        /\ UNCHANGED <<windowVars, eof, eofSeqNum>>
    BY <2>1, Zenon DEF SetupAnswered
  <2> QED
    BY <1>3, <1>4, <2>2 DEF PhaseInv, WaitingHasUnacked, windowVars
<1>8. CASE SetupGiveUp \/ FileOk \/ AckGiveUp \/ EofGiveUp
  BY <1>3, <1>4, <1>8 DEF SetupGiveUp, FileOk, AckGiveUp, EofGiveUp, PhaseInv,
                          WaitingHasUnacked, windowVars
<1>9. CASE ReadError
  <2>1. NS' = "DONE" /\ eof = 0 /\ UNCHANGED <<windowVars, eof, eofSeqNum>>
    BY <1>9, Zenon DEF ReadError
  <2> QED
    BY <1>3, <1>4, <2>1 DEF PhaseInv, WaitingHasUnacked, windowVars
<1>10. CASE WindowShut
  <2>1. /\ NS = "SEND_DATA" /\ NS' = "WAIT_ON_ACK" /\ polling' = FALSE
        /\ eof = 1 \/ ~checkWindowOpen(sequenceNum + 1)
        /\ UNCHANGED <<windowVars, eof, eofSeqNum>>
    BY <1>10, Zenon DEF WindowShut
  <2>2. lower <= sequenceNum
    BY <1>1, <1>2, <1>3, <2>1 DEF PhaseInv, checkWindowOpen
  <2>3. eof = 1 => sequenceNum = NumBlocks /\ eofSeqNum = NumBlocks + 1
    BY <1>3 DEF PhaseInv
  <2> QED
    BY <1>4, <2>1, <2>2, <2>3 DEF PhaseInv, WaitingHasUnacked, windowVars
<1>11. CASE SendBlock
  <2>1. WindowInv' /\ sequenceNum' = sequenceNum + 1 /\ lower' = lower
    BY <1>11, SendBlockWindow
  <2>2. NS' = "SEND_DATA" /\ eof' = 0
    BY <1>11, Zenon DEF SendBlock
  <2> QED
    BY <1>1, <2>1, <2>2 DEF PhaseInv, WaitingHasUnacked
<1>12. CASE ReadEof
  <2>1. /\ sequenceNum = NumBlocks /\ eof' = 1 /\ eofSeqNum' = sequenceNum + 1
        /\ polling' = FALSE /\ UNCHANGED windowVars
        /\ IF lower = sequenceNum + 1 THEN NS' = "WAIT_ON_EOF_ACK"
                                      ELSE NS' = "WAIT_ON_ACK"
    BY <1>12, Zenon DEF ReadEof, windowVars
  <2> QED
    BY <1>1, <1>2, <1>4, <2>1 DEF PhaseInv, WaitingHasUnacked, windowVars
<1>13. ASSUME NEW p \in net, PollAck(p)
       PROVE  /\ WindowInv' /\ PhaseInv'
              /\ lower <= lower' /\ sequenceNum <= sequenceNum'
  <2>1. /\ NS' = "SEND_DATA" /\ polling /\ UNCHANGED eof
        /\ NS = "SEND_DATA" /\ processRRorSREJ(p, {})
    BY <1>13, Zenon DEF PollAck
  <2>2. eof = 0
    BY <1>1, <1>3, <2>1 DEF PhaseInv
  <2> QED
    BY <1>1, <2>1, <2>2, AckWindow DEF PhaseInv, WaitingHasUnacked
<1>14. ASSUME NEW p \in net, DropFlipped(p)
       PROVE  /\ WindowInv' /\ PhaseInv'
              /\ lower <= lower' /\ sequenceNum <= sequenceNum'
  BY <1>3, <1>4, <1>14 DEF DropFlipped, PhaseInv, WaitingHasUnacked, windowVars
<1>15. CASE AckTimeout \/ EofTimeout
  BY <1>3, <1>4, <1>15
  DEF AckTimeout, EofTimeout, PhaseInv, WaitingHasUnacked, windowVars
<1>16. ASSUME NEW p \in net, WaitAck(p)
       PROVE  /\ WindowInv' /\ PhaseInv'
              /\ lower <= lower' /\ sequenceNum <= sequenceNum'
  <2> DEFINE out == IF eof = 1 /\ LowerAfter(p) = eofSeqNum
                      THEN {EofPDU(p.src, eofSeqNum)} ELSE {}
  <2>1. processRRorSREJ(p, out)
    BY <1>16, Zenon DEF WaitAck
  <2> HIDE DEF out
  <2>2. /\ WindowInv' /\ lower' = LowerAfter(p) /\ lower <= lower'
        /\ lower' <= sequenceNum + 1 /\ sequenceNum' = sequenceNum
        /\ lower' \in Nat
    BY <2>1, AckWindow
  <2>3. /\ NS = "WAIT_ON_ACK"
        /\ NS' = IF eof = 1 /\ LowerAfter(p) = eofSeqNum THEN "WAIT_ON_EOF_ACK"
                 ELSE IF lower < LowerAfter(p) THEN "SEND_DATA" ELSE "WAIT_ON_ACK"
        /\ UNCHANGED <<polling, eof, eofSeqNum>>
    BY <1>16 DEF WaitAck
  <2>4. eof = 1 => /\ sequenceNum = NumBlocks /\ eofSeqNum = NumBlocks + 1
                   /\ polling = FALSE
    BY <1>3 DEF PhaseInv
  <2>5. lower <= sequenceNum /\ lower' \in Nat
    BY <1>1, <1>2, <1>3, <2>2, <2>3 DEF PhaseInv, WaitingHasUnacked
  <2>6. NS' = "WAIT_ON_ACK" => lower' <= sequenceNum
    BY <1>1, <2>2, <2>3, <2>5
  <2> QED
    BY <1>1, <2>2, <2>3, <2>4, <2>5, <2>6 DEF PhaseInv, WaitingHasUnacked
<1>17. ASSUME NEW p \in net, EofAcked(p) \/ EofNotAcked(p)
       PROVE  /\ WindowInv' /\ PhaseInv'
              /\ lower <= lower' /\ sequenceNum <= sequenceNum'
  <2>1. PICK out : processRRorSREJ(p, out)
    BY <1>17, Zenon DEF EofAcked, EofNotAcked
  <2>2. /\ WindowInv' /\ lower <= lower' /\ lower' <= sequenceNum + 1
        /\ sequenceNum' = sequenceNum /\ lower' \in Nat
    BY <2>1, AckWindow
  <2>3. /\ NS = "WAIT_ON_EOF_ACK" /\ NS' \in {"WAIT_ON_EOF_ACK", "DONE"}
        /\ UNCHANGED <<polling, eof, eofSeqNum>>
    BY <1>17, Zenon DEF EofAcked, EofNotAcked
  <2>4. eof = 1 /\ lower = NumBlocks + 1 /\ sequenceNum = NumBlocks
    BY <1>3, <2>3 DEF PhaseInv
  <2>5. lower' = NumBlocks + 1
    BY <1>1, <2>2, <2>4
  <2> QED
    BY <1>1, <1>3, <2>2, <2>3, <2>4, <2>5 DEF PhaseInv, WaitingHasUnacked
<1> QED
  BY <1>5, <1>6, <1>7, <1>8, <1>9, <1>10, <1>11, <1>12, <1>13, <1>14, <1>15,
     <1>16, <1>17 DEF RcopyStep, SenderRun, SenderTimeout, SenderReceive

-----------------------------------------------------------------------------
(* A step of rcopy *)

\* A packet is resent as it was sent.
LEMMA ResentOK ==
  ASSUME TypeOK, WindowInv, NEW n \in Nat, NEW dst,
         NEW q \in getPacketToResend(n, dst)
  PROVE  /\ q.flag = "DATA_PKT" /\ q.seq \in 1 .. sequenceNum
         /\ q.data = Source[q.seq]
<1> DEFINE slot == window_buffer[n % Window]
<1>1. /\ slot.sequenceNumber = n /\ n # 0
      /\ q = createPDU("DATA_PKT", Rcopy, dst, n, slot.buff)
  BY DEF getPacketToResend
<1>2. n % Window \in DOMAIN window_buffer
  BY Constants, SlotIndex DEF TypeOK, SenderTypeOK
<1>3. n \in 1 .. sequenceNum /\ slot.buff = Source[n]
  BY <1>1, <1>2 DEF WindowInv
<1> HIDE DEF slot
<1> QED
  BY <1>1, <1>3 DEF createPDU

\* What an answer makes rcopy send.
LEMMA AnsweredOK ==
  ASSUME TypeOK, TransferInv, NEW p \in net, NEW out, processRRorSREJ(p, out),
         NEW q \in net'
  PROVE  \/ q \in net \/ q \in out
         \/ /\ q.flag = "DATA_PKT" /\ q.seq \in 1 .. sequenceNum
            /\ q.data = Source[q.seq]
<1>1. net' \subseteq net \cup (processSREJpacket(p) \cup out)
  BY Zenon DEF processRRorSREJ, Receive, Exchange
<1>2. CASE q \in processSREJpacket(p)
  <2>1. p.seq \in Nat
    BY DEF TypeOK, NetworkTypeOK, PDU
  <2>2. q \in getPacketToResend(p.seq, p.src)
    BY <1>2 DEF processSREJpacket
  <2>3. WindowInv
    BY DEF TransferInv
  <2> QED
    BY <2>1, <2>2, <2>3, ResentOK
<1> QED
  BY <1>1, <1>2

LEMMA EofPDUFields ==
  ASSUME NEW dst, NEW n
  PROVE  /\ EofPDU(dst, n).flag = "EOF_FLAG" /\ EofPDU(dst, n).seq = n
         /\ EofPDU(dst, n).data = ZeroByte
BY DEF EofPDU, createPDU

\* Whatever rcopy puts on the network is a block it has sent, the EOF packet
\* when everything is acknowledged, or a setup packet.
LEMMA RcopySends ==
  ASSUME TypeOK, TransferInv, RcopyStep, NEW q \in net'
  PROVE  \/ q \in net
         \/ /\ q.flag = "DATA_PKT" /\ q.seq \in 1 .. sequenceNum'
            /\ q.data = Source[q.seq]
         \/ /\ q.flag = "EOF_FLAG" /\ q.data = ZeroByte
            /\ q.seq = NumBlocks + 1 /\ lower' = NumBlocks + 1
         \/ q.flag = "RCOPY_TO_SERVER"
<1> DEFINE Sent ==
      \/ q \in net
      \/ /\ q.flag = "DATA_PKT" /\ q.seq \in 1 .. sequenceNum'
         /\ q.data = Source[q.seq]
      \/ /\ q.flag = "EOF_FLAG" /\ q.data = ZeroByte
         /\ q.seq = NumBlocks + 1 /\ lower' = NumBlocks + 1
      \/ q.flag = "RCOPY_TO_SERVER"
<1>0. /\ WindowInv /\ PhaseInv /\ NumBlocks \in Nat
      /\ lower \in Nat /\ sequenceNum \in 0 .. NumBlocks
  BY Constants DEF TransferInv, WindowInv, TypeOK, SenderTypeOK
<1>1. CASE SendSetup
  <2>1. net' = net \cup {SetupPDU}
    BY <1>1, Zenon DEF SendSetup, Send
  <2>2. SetupPDU.flag = "RCOPY_TO_SERVER"
    BY DEF SetupPDU, createPDU
  <2> QED
    BY <2>1, <2>2
<1>2. CASE SendBlock
  <2> DEFINE n == sequenceNum + 1
             block == createPDU("DATA_PKT", Rcopy, server, n, Source[n])
  <2>1. net' = net \cup {block} /\ sequenceNum' = n
    BY <1>2, Zenon DEF SendBlock, Send
  <2>2. block.flag = "DATA_PKT" /\ block.seq = n /\ block.data = Source[n]
    BY DEF createPDU
  <2>3. n \in 1 .. n
    BY <1>0
  <2> HIDE DEF n, block
  <2> QED
    BY <2>1, <2>2, <2>3
<1>3. CASE ReadEof
  <2>1. \/ net' = net
        \/ /\ net' = net \cup {EofPDU(server, sequenceNum + 1)}
           /\ lower = sequenceNum + 1
    BY <1>3, Zenon DEF ReadEof, Send, netVars
  <2>2. sequenceNum = NumBlocks /\ lower' = lower
    BY <1>3, Zenon DEF ReadEof, windowVars
  <2> QED
    BY <2>1, <2>2, EofPDUFields
<1>4. CASE AckTimeout
  <2>1. net' = net \cup getPacketToResend(lower, server)
    BY <1>4 DEF AckTimeout, Send
  <2>2. sequenceNum' = sequenceNum
    BY <1>4 DEF AckTimeout, windowVars
  <2> QED
    BY <1>0, <2>1, <2>2, ResentOK
<1>5. CASE EofTimeout
  <2>1. net' = net \cup {EofPDU(server, eofSeqNum)} /\ lower' = lower
    BY <1>5 DEF EofTimeout, Send, windowVars
  <2>2. eofSeqNum = NumBlocks + 1 /\ lower = NumBlocks + 1
    BY <1>0, <1>5 DEF EofTimeout, PhaseInv
  <2> QED
    BY <2>1, <2>2, EofPDUFields
<1>6. ASSUME NEW p \in net, PollAck(p) \/ EofAcked(p)
      PROVE  Sent
  <2>1. processRRorSREJ(p, {})
    BY <1>6, Zenon DEF PollAck, EofAcked
  <2> QED
    BY <2>1, AnsweredOK, AckWindow
<1>7. ASSUME NEW p \in net, WaitAck(p)
      PROVE  Sent
  <2> DEFINE out == IF eof = 1 /\ LowerAfter(p) = eofSeqNum
                      THEN {EofPDU(p.src, eofSeqNum)} ELSE {}
  <2>1. processRRorSREJ(p, out)
    BY <1>7, Zenon DEF WaitAck
  <2>2. q \in out => /\ eof = 1 /\ LowerAfter(p) = eofSeqNum
                     /\ q = EofPDU(p.src, eofSeqNum)
    OBVIOUS
  <2> HIDE DEF out
  <2>3. lower' = LowerAfter(p) /\ sequenceNum' = sequenceNum
    BY <2>1, AckWindow
  <2>4. eof = 1 => eofSeqNum = NumBlocks + 1
    BY <1>0 DEF PhaseInv
  <2>5. \/ q \in net \/ q \in out
        \/ /\ q.flag = "DATA_PKT" /\ q.seq \in 1 .. sequenceNum
           /\ q.data = Source[q.seq]
    BY <2>1, AnsweredOK
  <2> QED
    BY <2>2, <2>3, <2>4, <2>5, EofPDUFields
<1>8. ASSUME NEW p \in net, EofNotAcked(p)
      PROVE  Sent
  <2> DEFINE out == IF p.flag \in {"RR_PACKET", "SREJ_PACKET"}
                      THEN {EofPDU(p.src, eofSeqNum)} ELSE {}
  <2>1. processRRorSREJ(p, out) /\ NS = "WAIT_ON_EOF_ACK"
    BY <1>8, Zenon DEF EofNotAcked
  <2>2. q \in out => q = EofPDU(p.src, eofSeqNum)
    OBVIOUS
  <2> HIDE DEF out
  <2>3. /\ lower <= lower' /\ lower' <= sequenceNum + 1 /\ lower' \in Nat
        /\ sequenceNum' = sequenceNum
    BY <2>1, AckWindow
  <2>4. eofSeqNum = NumBlocks + 1 /\ lower' = NumBlocks + 1
    BY <1>0, <2>1, <2>3 DEF PhaseInv
  <2>5. \/ q \in net \/ q \in out
        \/ /\ q.flag = "DATA_PKT" /\ q.seq \in 1 .. sequenceNum
           /\ q.data = Source[q.seq]
    BY <2>1, AnsweredOK
  <2> QED
    BY <2>2, <2>3, <2>4, <2>5, EofPDUFields
<1>9. CASE SetupTimeout \/ SetupGiveUp \/ FileOk \/ ReadError \/ WindowShut
           \/ AckGiveUp \/ EofGiveUp
  <2>1. net' = net
    BY <1>9, Zenon DEF SetupTimeout, SetupGiveUp, FileOk, ReadError, WindowShut,
                       AckGiveUp, EofGiveUp, netVars
  <2> QED
    BY <2>1
<1>10. ASSUME NEW p \in net,
              SetupAnswer(p) \/ SetupAnswerFlipped(p) \/ DropFlipped(p)
       PROVE  Sent
  <2>1. net' \subseteq net
    BY <1>10, Zenon DEF SetupAnswer, SetupAnswerFlipped, DropFlipped, Receive,
                        ReceiveFlipped, Exchange
  <2> QED
    BY <2>1
<1> QED
  BY <1>1, <1>2, <1>3, <1>4, <1>5, <1>6, <1>7, <1>8, <1>9, <1>10
  DEF RcopyStep, SenderRun, SenderTimeout, SenderReceive

\* What rcopy does leaves everything that was said true.
LEMMA RcopyStepTransfer ==
  ASSUME TypeOK, TransferInv, RcopyStep
  PROVE  TransferInv'
<1> USE Constants
<1>1. /\ WindowInv' /\ PhaseInv'
      /\ lower <= lower' /\ sequenceNum <= sequenceNum'
  BY RcopyStepWindow
<1>2. /\ lower \in Nat /\ sequenceNum \in 0 .. NumBlocks
      /\ lower' \in 1 .. (sequenceNum' + 1) /\ sequenceNum' \in 0 .. NumBlocks
  BY <1>1 DEF TransferInv, WindowInv, TypeOK, SenderTypeOK
<1>3. UNCHANGED receiverVars
  BY DEF RcopyStep
<1>4. lower = NumBlocks + 1 => lower' = NumBlocks + 1
  <2> DEFINE l2 == lower'
             s2 == sequenceNum'
  <2>1. l2 \in 1 .. (s2 + 1) /\ s2 \in 0 .. NumBlocks
    BY <1>2, Zenon
  <2>2. lower <= l2 /\ sequenceNum <= s2
    BY <1>1
  <2> HIDE DEF l2, s2
  <2>3. lower = NumBlocks + 1 => l2 = NumBlocks + 1
    BY <1>2, <2>1, <2>2
  <2> QED
    BY <2>3 DEF l2
<1>5. ASSUME NEW q \in net'
      PROVE  DatagramOK(q)'
  <2>1. CASE q \in net
    <3>1. DatagramOK(q)
      BY <2>1 DEF TransferInv
    <3>2. expectedSeqNum' = expectedSeqNum
      BY <1>3 DEF receiverVars
    <3>3. \A n \in 1 .. sequenceNum : n \in 1 .. sequenceNum'
      BY <1>1, <1>2, OnlyGrows
    <3>4. \A n \in 1 .. (sequenceNum + 1) : n \in 1 .. (sequenceNum' + 1)
      BY <1>1, <1>2, OnlyGrows
    <3> QED
      BY <1>4, <3>1, <3>2, <3>3, <3>4 DEF DatagramOK
  <2>2. CASE q \notin net
    BY <2>2, RcopySends DEF DatagramOK
  <2> QED
    BY <2>1, <2>2
<1>6. ASSUME NEW c \in Children
      PROVE  ChildInv(c)'
  <2>1. ChildInv(c)
    BY DEF TransferInv
  <2>2. \A n \in 1 .. sequenceNum : n \in 1 .. sequenceNum'
    BY <1>1, <1>2, OnlyGrows
  <2>3. \A n \in Int : n <= sequenceNum + 1 => n <= sequenceNum' + 1
    BY <1>1, <1>2, OnlyGrows
  <2>4. sequenceNum = NumBlocks => sequenceNum' = NumBlocks
    BY <1>1, <1>2, OnlyGrows
  <2>5. expectedSeqNum[c] \in Int
    BY DEF TypeOK, ReceiverTypeOK
  <2>6. \A i \in DOMAIN buffer[c] : SlotOK(c, buffer[c][i])'
    BY <1>3, <2>1, <2>2 DEF ChildInv, SlotOK, receiverVars
  <2> QED
    BY <1>3, <1>4, <2>1, <2>3, <2>4, <2>5, <2>6 DEF ChildInv, receiverVars
<1>7. FileBlocksRight'
  BY <1>3 DEF TransferInv, FileBlocksRight, receiverVars
<1> QED
  BY <1>1, <1>5, <1>6, <1>7 DEF TransferInv

-----------------------------------------------------------------------------
(* A step of a child *)

\* A slot that may be flushed, when eofSeqNum of its child is e.
SlotFits(slot, e) ==
  LET n == slot.sequenceNumber
  IN  slot.validFlag = 1 =>
        \/ n \in 1 .. sequenceNum /\ slot.buff = Source[n]
        \/ n = NumBlocks + 1 /\ slot.buff = ZeroByte /\ e = NumBlocks + 1

\* What a child does concerns its own variables, the file and what it sends.
LEMMA ChildrenApart ==
  ASSUME TypeOK, TransferInv, NEW c \in Children, UNCHANGED senderVars,
         \A d \in Children \ {c} :
            /\ child'[d] = child[d] /\ state'[d] = state[d]
            /\ expectedSeqNum'[d] = expectedSeqNum[d]
            /\ eofReceived'[d] = eofReceived[d] /\ buffer'[d] = buffer[d],
         expectedSeqNum[c] = NumBlocks + 2 => expectedSeqNum'[c] = NumBlocks + 2,
         ChildInv(c)', FileBlocksRight',
         \A q \in net' : q \in net \/ DatagramOK(q)'
  PROVE  TransferInv'
<1> USE Constants
<1>1. /\ UNCHANGED <<NS, polling, lower, sequenceNum, window_buffer, eof, eofSeqNum>>
  BY DEF senderVars
<1>2. WindowInv' /\ PhaseInv'
  BY <1>1 DEF TransferInv, WindowInv, UnackedIsHeld, PhaseInv, WaitingHasUnacked
<1>3. ASSUME NEW d \in Children PROVE ChildInv(d)'
  <2>1. CASE d = c
    BY <2>1
  <2>2. CASE d # c
    <3>1. ChildInv(d)
      BY DEF TransferInv
    <3>2. \A i \in DOMAIN buffer[d] : SlotOK(d, buffer[d][i])'
      BY <1>1, <2>2, <3>1 DEF ChildInv, SlotOK
    <3>3. /\ child'[d] = child[d] /\ state'[d] = state[d]
          /\ expectedSeqNum'[d] = expectedSeqNum[d]
          /\ eofReceived'[d] = eofReceived[d] /\ buffer'[d] = buffer[d]
      BY <2>2
    <3> QED
      BY <1>1, <3>1, <3>2, <3>3 DEF ChildInv
  <2> QED
    BY <2>1, <2>2
<1>4. ASSUME NEW q \in net' PROVE DatagramOK(q)'
  <2>1. CASE q \in net
    <3>1. DatagramOK(q)
      BY <2>1 DEF TransferInv
    <3>2. ASSUME q.flag = "EOF_ACK"
          PROVE  expectedSeqNum'[q.src] = NumBlocks + 2
      <4>1. q.src \in Children /\ expectedSeqNum[q.src] = NumBlocks + 2
        BY <3>1, <3>2 DEF DatagramOK
      <4> QED
        BY <4>1
    <3> QED
      BY <1>1, <3>1, <3>2 DEF DatagramOK
  <2> QED
    BY <2>1
<1> QED
  BY <1>2, <1>3, <1>4 DEF TransferInv

\* What is known of a packet that is passed to bufferManagement.
LEMMA ManagedPacket ==
  ASSUME TypeOK, TransferInv, NEW c \in Children, NEW p \in net, NEW st,
         Manages(c, p, st)
  PROVE  /\ p.flag = "DATA_PKT" => p.seq \in 1 .. sequenceNum /\ p.data = Source[p.seq]
         /\ p.flag = "EOF_FLAG" => /\ p.seq = NumBlocks + 1 /\ p.data = ZeroByte
                                   /\ eofReceived'[c] = NumBlocks + 1
         /\ p.flag \in {"DATA_PKT", "EOF_FLAG"} /\ p.seq \in Nat
         /\ eofReceived'[c] \in {-1, NumBlocks + 1}
         /\ eofReceived'[c] # -1 => lower = NumBlocks + 1 /\ sequenceNum = NumBlocks
         /\ eofReceived[c] = NumBlocks + 1 => eofReceived'[c] = NumBlocks + 1
         /\ \A d \in Children \ {c} : eofReceived'[d] = eofReceived[d]
         /\ child[c] = "MANAGE_INCOMING_DATA" /\ state[c] = st
<1>1. DatagramOK(p) /\ ChildInv(c) /\ p \in PDU
  BY DEF TransferInv, TypeOK, NetworkTypeOK
<1>2. /\ eofReceived' = [eofReceived EXCEPT
                           ![c] = IF p.flag = "EOF_FLAG" THEN p.seq ELSE @]
      /\ eofReceived \in [Children -> Nat \cup {-1}]
  BY DEF Manages, TypeOK, ReceiverTypeOK
<1>3. eofReceived'[c] = IF p.flag = "EOF_FLAG" THEN p.seq ELSE eofReceived[c]
  BY <1>2
<1>4. /\ lower \in 1 .. (sequenceNum + 1) /\ sequenceNum \in 0 .. NumBlocks
      /\ NumBlocks \in Nat
  BY Constants DEF TransferInv, WindowInv
<1>5. lower = NumBlocks + 1 => sequenceNum = NumBlocks
  BY <1>4
<1>6. /\ p.flag = "DATA_PKT" => p.seq \in 1 .. sequenceNum /\ p.data = Source[p.seq]
      /\ p.flag = "EOF_FLAG" => /\ p.seq = NumBlocks + 1 /\ p.data = ZeroByte
                                /\ eofReceived'[c] = NumBlocks + 1
                                /\ lower = NumBlocks + 1
  BY <1>1, <1>3 DEF DatagramOK
<1>7. /\ eofReceived[c] \in {-1, NumBlocks + 1}
      /\ eofReceived[c] # -1 => lower = NumBlocks + 1
  BY <1>1 DEF ChildInv
<1>8. /\ p.flag \in {"DATA_PKT", "EOF_FLAG"} /\ p.seq \in Nat
      /\ child[c] = "MANAGE_INCOMING_DATA" /\ state[c] = st
  BY <1>1 DEF Manages, PDU
<1>9. \A d \in Children \ {c} : eofReceived'[d] = eofReceived[d]
  BY <1>2
<1> QED
  BY <1>3, <1>5, <1>6, <1>7, <1>8, <1>9

\* Every slot the buffer may have after a packet is one that may be flushed.
LEMMA SlotsKept ==
  ASSUME TypeOK, TransferInv, NEW c \in Children, NEW p \in net, NEW st,
         Manages(c, p, st), NEW n \in Nat,
         NEW slots, \/ slots = buffer[c]
                    \/ slots = storePacketInBuffer(c, p)
                    \/ slots = SlotCleared(c, n)
  PROVE  \A i \in DOMAIN slots : SlotFits(slots[i], eofReceived'[c])
<1> USE Constants
<1>1. buffer[c] \in [0 .. (ServerWindow - 1) -> Slot]
  BY DEF TypeOK, ReceiverTypeOK
<1>2. ASSUME NEW i \in 0 .. (ServerWindow - 1)
      PROVE  SlotFits(buffer[c][i], eofReceived'[c])
  <2>1. SlotOK(c, buffer[c][i])
    BY <1>1, <1>2 DEF TransferInv, ChildInv
  <2> QED
    BY <2>1, ManagedPacket DEF SlotOK, SlotFits
<1>3. ASSUME NEW slot, slot.validFlag = 0
      PROVE  SlotFits(slot, eofReceived'[c])
  BY <1>3 DEF SlotFits
<1>4. CASE slots = buffer[c]
  BY <1>1, <1>2, <1>4
<1>5. CASE slots = storePacketInBuffer(c, p)
  <2> DEFINE new == [sequenceNumber |-> p.seq, validFlag |-> 1, buff |-> p.data]
  <2>1. SlotFits(new, eofReceived'[c])
    BY ManagedPacket DEF SlotFits
  <2> HIDE DEF new
  <2>2. \A i \in 0 .. (ServerWindow - 1) : slots[i] \in {new, buffer[c][i]}
    BY <1>1, <1>5 DEF storePacketInBuffer, new
  <2>3. DOMAIN slots = 0 .. (ServerWindow - 1)
    BY <1>1, <1>5 DEF storePacketInBuffer
  <2> QED
    BY <1>2, <2>1, <2>2, <2>3
<1>6. CASE slots = SlotCleared(c, n)
  <2>1. DOMAIN slots = 0 .. (ServerWindow - 1)
    BY <1>1, <1>6 DEF SlotCleared
  <2>2. ASSUME NEW i \in 0 .. (ServerWindow - 1)
        PROVE  slots[i] = buffer[c][i] \/ slots[i].validFlag = 0
    BY <1>1, <1>6 DEF SlotCleared, Slot
  <2> QED
    BY <1>2, <1>3, <2>1, <2>2
<1> QED
  BY <1>4, <1>5, <1>6

\* A child's invariant after a packet that is passed to bufferManagement.
LEMMA TrackerInv ==
  ASSUME TypeOK, TransferInv, UNCHANGED senderVars,
         NEW c \in Children, NEW p \in net, NEW st, Manages(c, p, st),
         NEW next \in TrackerStates, NEW e \in 1 .. (NumBlocks + 2), NEW slots,
         Tracker(c, next, e, slots),
         \A i \in DOMAIN slots : SlotFits(slots[i], eofReceived'[c]),
         \/ e <= sequenceNum + 1
         \/ next \in {"SEND_EOF_ACK", "BUFFER_DONE"} /\ sequenceNum = NumBlocks,
         next = "SEND_EOF_ACK" =>
           eofReceived'[c] = NumBlocks + 1 /\ e = NumBlocks + 2,
         child' = child \/ child' = [child EXCEPT ![c] = "DONE"]
  PROVE  /\ ChildInv(c)'
         /\ expectedSeqNum'[c] = e
         /\ \A d \in Children \ {c} :
              /\ child'[d] = child[d] /\ state'[d] = state[d]
              /\ expectedSeqNum'[d] = expectedSeqNum[d]
              /\ eofReceived'[d] = eofReceived[d] /\ buffer'[d] = buffer[d]
<1>1. /\ child \in [Children -> ChildStates] /\ state \in [Children -> TrackerStates]
      /\ expectedSeqNum \in [Children -> Nat]
      /\ buffer \in [Children -> [0 .. (ServerWindow - 1) -> Slot]]
  BY DEF TypeOK, ReceiverTypeOK
<1>2. /\ state'[c] = next /\ expectedSeqNum'[c] = e /\ buffer'[c] = slots
  BY <1>1 DEF Tracker
<1>3. \A d \in Children \ {c} :
        /\ child'[d] = child[d] /\ state'[d] = state[d]
        /\ expectedSeqNum'[d] = expectedSeqNum[d]
        /\ eofReceived'[d] = eofReceived[d] /\ buffer'[d] = buffer[d]
  BY <1>1, ManagedPacket DEF Tracker
<1>4. child'[c] \notin {"SENDING_EOF_ACK", "FLUSH"}
  BY <1>1, ManagedPacket
<1>5. lower' = lower /\ sequenceNum' = sequenceNum
  BY DEF senderVars
<1>6. \A i \in DOMAIN buffer'[c] : SlotOK(c, buffer[c][i])'
  BY <1>2, <1>5 DEF SlotOK, SlotFits
<1>7. /\ eofReceived'[c] \in {-1, NumBlocks + 1}
      /\ eofReceived'[c] # -1 => lower = NumBlocks + 1
  BY ManagedPacket
<1>8. ChildInv(c)'
  BY <1>2, <1>4, <1>5, <1>6, <1>7 DEF ChildInv
<1> QED
  BY <1>2, <1>3, <1>8

\* A step of a child that leaves the buffering machine, EOF and file alone.
LEMMA IdleChildTransfer ==
  ASSUME TypeOK, TransferInv, UNCHANGED senderVars, NEW c \in Children,
         UNCHANGED <<trackerVars, file>>,
         \/ child' = child
         \/ /\ child[c] # "FLUSH"
            /\ \E next \in {"ACCEPT_FILENAME", "MANAGE_INCOMING_DATA", "DONE"} :
                 child' = [child EXCEPT ![c] = next],
         \A q \in net' : q \in net \/ DatagramOK(q)'
  PROVE  TransferInv'
<1>1. child \in [Children -> ChildStates] /\ ChildInv(c) /\ FileBlocksRight
  BY DEF TypeOK, ReceiverTypeOK, TransferInv
<1>2. UNCHANGED <<state, expectedSeqNum, eofReceived, buffer, file, lower, sequenceNum>>
  BY DEF trackerVars, senderVars
<1>3. /\ child'[c] = "SENDING_EOF_ACK" => child[c] = "SENDING_EOF_ACK"
      /\ child[c] = "FLUSH" => child'[c] = "FLUSH"
      /\ \A d \in Children \ {c} : child'[d] = child[d]
  BY <1>1
<1>4. ChildInv(c)'
  <2>1. \A i \in DOMAIN buffer[c] : SlotOK(c, buffer[c][i])'
    BY <1>1, <1>2 DEF ChildInv, SlotOK
  <2> QED
    BY <1>1, <1>2, <1>3, <2>1 DEF ChildInv
<1>5. FileBlocksRight'
  BY <1>1, <1>2 DEF FileBlocksRight
<1> QED
  BY <1>2, <1>3, <1>4, <1>5, ChildrenApart

\* The answers of a child say something true.
LEMMA AnswersOK ==
  ASSUME UNCHANGED senderVars, NEW c \in Children, NEW n
  PROVE  /\ n \in 1 .. (sequenceNum + 1) => DatagramOK(RR(c, n))'
         /\ DatagramOK(SREJ(c, n))'
         /\ n = NumBlocks + 1 /\ expectedSeqNum'[c] = NumBlocks + 2
              => DatagramOK(EOFAck(c, n))'
<1>1. lower' = lower /\ sequenceNum' = sequenceNum
  BY DEF senderVars
<1> DEFINE rr == RR(c, n)
           srej == SREJ(c, n)
           ack == EOFAck(c, n)
<1>2. /\ rr.flag = "RR_PACKET" /\ rr.seq = n
      /\ srej.flag = "SREJ_PACKET"
      /\ ack.flag = "EOF_ACK" /\ ack.seq = n /\ ack.src = c
  BY DEF RR, SREJ, EOFAck, createPDU
<1> QED
  BY <1>1, <1>2 DEF DatagramOK, RR, SREJ, EOFAck, createPDU

\* A slot that a flush writes to the file, under its number.
LEMMA FlushedSlot ==
  ASSUME TypeOK, TransferInv, NEW c \in Children, NEW j \in Nat,
         checkIfBuffered(c, j)
  PROVE  \/ /\ j \in 1 .. sequenceNum
            /\ buffer[c][j % ServerWindow].buff = Source[j]
         \/ /\ j = NumBlocks + 1 /\ eofReceived[c] = NumBlocks + 1
            /\ buffer[c][j % ServerWindow].buff = ZeroByte
            /\ sequenceNum = NumBlocks
<1> DEFINE slot == buffer[c][j % ServerWindow]
<1>1. j % ServerWindow \in DOMAIN buffer[c]
  BY Constants, SlotIndex DEF TypeOK, ReceiverTypeOK
<1>2. SlotOK(c, slot) /\ slot.validFlag = 1 /\ slot.sequenceNumber = j
  BY <1>1 DEF checkIfBuffered, TransferInv, ChildInv
<1>3. eofReceived[c] = NumBlocks + 1 => lower = NumBlocks + 1
  BY Constants DEF TransferInv, ChildInv
<1>4. lower = NumBlocks + 1 => sequenceNum = NumBlocks
  BY Constants DEF TransferInv, WindowInv
<1> HIDE DEF slot
<1> QED
  BY <1>2, <1>3, <1>4 DEF SlotOK, slot

\* What a write leaves is right when what was to be written is.
LEMMA WriteRight ==
  ASSUME NEW i \in Nat, NEW data, NEW written \in OnDisk(data), NumBlocks \in Nat,
         \/ i <= NumBlocks /\ data = Source[i]
         \/ i > NumBlocks /\ data = ZeroByte
  PROVE  written \in {Hole} \cup RightAt(i)
BY DEF OnDisk, RightAt

\* A block is written at its place, the other places stay as they are.
LEMMA FileWritten ==
  ASSUME TypeOK, TransferInv, NEW n \in Nat, NEW written,
         written \in {Hole} \cup RightAt(n),
         file' = [file EXCEPT ![n] = written]
  PROVE  FileBlocksRight'
<1>1. FileBlocksRight /\ file \in [1 .. (NumBlocks + 1) -> Contents]
  BY DEF TransferInv, TypeOK, ReceiverTypeOK
<1>2. DOMAIN file' = DOMAIN file
  BY <1>1
<1>3. ASSUME NEW i \in DOMAIN file
      PROVE  file'[i] \in {Hole} \cup RightAt(i)
  <2>1. CASE i = n
    BY <1>1, <2>1
  <2>2. CASE i # n
    BY <1>1, <2>2 DEF FileBlocksRight
  <2> QED
    BY <2>1, <2>2
<1> QED
  BY <1>2, <1>3 DEF FileBlocksRight, RightAt

\* A packet that is passed to inorderFunction or bufferingFunction.
LEMMA InorderTransfer ==
  ASSUME TypeOK, TransferInv, UNCHANGED senderVars,
         NEW c \in Children, NEW p \in net,
         \/ ExpectedData(c, p)    \/ ExpectedEof(c, p)
         \/ AheadOfExpected(c, p) \/ BehindExpected(c, p) \/ WriteFails(c, p)
  PROVE  TransferInv'
<1> USE Constants
<1> DEFINE n == expectedSeqNum[c]
<1>1. /\ n \in 1 .. (NumBlocks + 2) /\ n \in Nat
      /\ \/ n <= sequenceNum + 1
         \/ state[c] \in {"SEND_EOF_ACK", "BUFFER_DONE"} \/ child[c] = "FLUSH"
      /\ sequenceNum \in 0 .. NumBlocks /\ FileBlocksRight
      /\ file \in [1 .. (NumBlocks + 1) -> Contents]
  BY DEF TransferInv, ChildInv, WindowInv, TypeOK, ReceiverTypeOK
<1>2. PICK st \in {"INORDER", "BUFFERING"} : Manages(c, p, st)
  BY Zenon DEF ExpectedData, ExpectedEof, AheadOfExpected, BehindExpected, WriteFails
<1>3. /\ state[c] = st /\ n <= sequenceNum + 1 /\ n \in 1 .. (sequenceNum + 1)
      /\ expectedSeqNum[c] # NumBlocks + 2
  BY <1>1, <1>2, ManagedPacket
<1>4. /\ p.flag = "DATA_PKT" => p.seq \in 1 .. sequenceNum /\ p.data = Source[p.seq]
      /\ p.flag = "EOF_FLAG" => /\ p.seq = NumBlocks + 1 /\ p.data = ZeroByte
                                /\ eofReceived'[c] = NumBlocks + 1
      /\ eofReceived'[c] # -1 => sequenceNum = NumBlocks
  BY <1>2, ManagedPacket
<1>5. n + 1 \in Nat /\ DOMAIN file = 1 .. (NumBlocks + 1)
  BY <1>1
<1> HIDE DEF n
<1>6. ASSUME NEW next \in {"INORDER", "BUFFERING", "FLUSHING", "BUFFER_DONE"},
             NEW e \in 1 .. (sequenceNum + 1), NEW slots,
             Tracker(c, next, e, slots),
             \/ slots = buffer[c] \/ slots = storePacketInBuffer(c, p)
             \/ slots = SlotCleared(c, n),
             child' = child \/ child' = [child EXCEPT ![c] = "DONE"],
             FileBlocksRight',
             NEW out, Receive(p, out), \A q \in out : DatagramOK(q)'
      PROVE  TransferInv'
  <2>1. \A i \in DOMAIN slots : SlotFits(slots[i], eofReceived'[c])
    BY <1>1, <1>2, <1>6, SlotsKept
  <2>2. e \in 1 .. (NumBlocks + 2) /\ e <= sequenceNum + 1 /\ next \in TrackerStates
        /\ next # "SEND_EOF_ACK"
    BY <1>1, <1>6 DEF TrackerStates
  <2>3. /\ ChildInv(c)'
        /\ \A d \in Children \ {c} :
             /\ child'[d] = child[d] /\ state'[d] = state[d]
             /\ expectedSeqNum'[d] = expectedSeqNum[d]
             /\ eofReceived'[d] = eofReceived[d] /\ buffer'[d] = buffer[d]
    BY <1>2, <1>6, <2>1, <2>2, TrackerInv
  <2>4. \A q \in net' : q \in net \/ DatagramOK(q)'
    BY <1>6 DEF Receive, Exchange
  <2> QED
    BY <1>3, <1>6, <2>3, <2>4, ChildrenApart
<1>7. CASE ExpectedData(c, p)
  <2>1. PICK s \in {"INORDER", "BUFFERING"}, written \in OnDisk(p.data) :
          /\ Manages(c, p, s)
          /\ p.flag = "DATA_PKT" /\ p.seq = n
          /\ file' = [file EXCEPT ![n] = written]
          /\ Tracker(c, IF s = "INORDER" THEN "INORDER" ELSE "FLUSHING",
                     n + 1, SlotCleared(c, n))
          /\ Receive(p, IF s = "INORDER" THEN {RR(c, n + 1)} ELSE {})
          /\ UNCHANGED <<child, timeouts>>
    BY <1>7 DEF ExpectedData, n
  <2>2. n \in 1 .. sequenceNum /\ p.data = Source[n]
    BY <1>4, <2>1
  <2>3. n + 1 \in 1 .. (sequenceNum + 1) /\ n \in 1 .. (NumBlocks + 1) /\ n <= NumBlocks
    BY <1>1, <2>2
  <2>4. FileBlocksRight'
    <3>1. written \in {Hole} \cup RightAt(n)
      BY <1>1, <2>1, <2>2, <2>3, WriteRight
    <3> QED
      BY <1>1, <2>1, <3>1, FileWritten
  <2>5. \A q \in {RR(c, n + 1)} : DatagramOK(q)'
    BY <2>3, AnswersOK
  <2> DEFINE next == IF s = "INORDER" THEN "INORDER" ELSE "FLUSHING"
             out == IF s = "INORDER" THEN {RR(c, n + 1)} ELSE {}
  <2>6. next \in {"INORDER", "BUFFERING", "FLUSHING", "BUFFER_DONE"}
        /\ \A q \in out : DatagramOK(q)'
    BY <2>5
  <2> HIDE DEF next, out
  <2>7. Tracker(c, next, n + 1, SlotCleared(c, n)) /\ Receive(p, out)
    BY <2>1 DEF next, out
  <2> QED
    BY <1>6, <2>1, <2>3, <2>4, <2>6, <2>7
<1>8. ASSUME file' = file PROVE FileBlocksRight'
  BY <1>1, <1>8 DEF FileBlocksRight
<1>9. CASE ExpectedEof(c, p)
  <2>1. /\ p.flag = "EOF_FLAG" /\ p.seq = n
        /\ Tracker(c, "SEND_EOF_ACK", n + 1, buffer[c])
        /\ Receive(p, {EOFAck(c, n)})
        /\ UNCHANGED <<child, timeouts, file>>
    BY <1>9, Zenon DEF ExpectedEof, n
  <2>2. n = NumBlocks + 1 /\ eofReceived'[c] = NumBlocks + 1
        /\ sequenceNum = NumBlocks
    BY <1>1, <1>4, <2>1
  <2>3. n + 1 \in 1 .. (NumBlocks + 2) /\ n + 1 = NumBlocks + 2
    BY <2>2
  <2>4. \A i \in DOMAIN buffer[c] : SlotFits(buffer[c][i], eofReceived'[c])
    BY <1>1, <1>2, SlotsKept
  <2>5. "SEND_EOF_ACK" \in TrackerStates
    BY DEF TrackerStates
  <2>6. /\ ChildInv(c)' /\ expectedSeqNum'[c] = NumBlocks + 2
        /\ \A d \in Children \ {c} :
             /\ child'[d] = child[d] /\ state'[d] = state[d]
             /\ expectedSeqNum'[d] = expectedSeqNum[d]
             /\ eofReceived'[d] = eofReceived[d] /\ buffer'[d] = buffer[d]
    BY <1>2, <2>1, <2>2, <2>3, <2>4, <2>5, TrackerInv
  <2>7. \A q \in {EOFAck(c, n)} : DatagramOK(q)'
    BY <2>2, <2>6, AnswersOK
  <2>8. \A q \in net' : q \in net \/ DatagramOK(q)'
    BY <2>1, <2>7 DEF Receive, Exchange
  <2> QED
    BY <1>3, <1>8, <2>1, <2>6, <2>8, ChildrenApart
<1>10. CASE AheadOfExpected(c, p)
  <2>1. PICK s \in {"INORDER", "BUFFERING"} :
          /\ Tracker(c, "BUFFERING", n, storePacketInBuffer(c, p))
          /\ Receive(p, IF s = "INORDER" THEN {SREJ(c, n)} ELSE {RR(c, n)})
          /\ UNCHANGED <<child, timeouts, file>>
    BY <1>10 DEF AheadOfExpected, n
  <2> DEFINE out == IF s = "INORDER" THEN {SREJ(c, n)} ELSE {RR(c, n)}
  <2>2. \A q \in out : DatagramOK(q)'
    BY <1>3, AnswersOK
  <2> HIDE DEF out
  <2>3. Receive(p, out)
    BY <2>1 DEF out
  <2> QED
    BY <1>3, <1>6, <1>8, <2>1, <2>2, <2>3
<1>11. CASE BehindExpected(c, p)
  <2>1. PICK s \in {"INORDER", "BUFFERING"} :
          /\ Tracker(c, s, n, buffer[c])
          /\ Receive(p, {RR(c, n)})
          /\ UNCHANGED <<child, timeouts, file>>
    BY <1>11 DEF BehindExpected, n
  <2>2. \A q \in {RR(c, n)} : DatagramOK(q)'
    BY <1>3, AnswersOK
  <2> QED
    BY <1>3, <1>6, <1>8, <2>1, <2>2
<1>12. CASE WriteFails(c, p)
  <2>1. /\ Tracker(c, "BUFFER_DONE", n, buffer[c])
        /\ child' = [child EXCEPT ![c] = "DONE"]
        /\ Receive(p, {}) /\ UNCHANGED <<timeouts, file>>
    BY <1>12, Zenon DEF WriteFails, n
  <2>2. \A q \in {} : DatagramOK(q)'
    OBVIOUS
  <2> QED
    BY <1>3, <1>6, <1>8, <2>1, <2>2
<1> QED
  BY <1>7, <1>9, <1>10, <1>11, <1>12

\* A packet that is passed to flushingFunction.
LEMMA FlushTransfer ==
  ASSUME TypeOK, TransferInv, UNCHANGED senderVars,
         NEW c \in Children, NEW p \in net, Flush(c, p)
  PROVE  TransferInv'
<1> USE Constants
<1>1. /\ Manages(c, p, "FLUSHING")
      /\ child' = [child EXCEPT ![c] = "FLUSH"]
      /\ UNCHANGED <<state, expectedSeqNum, buffer, file>>
      /\ net' \subseteq net
  BY DEF Flush, Receive, Exchange
<1>2. /\ state[c] = "FLUSHING" /\ child[c] = "MANAGE_INCOMING_DATA"
      /\ eofReceived'[c] \in {-1, NumBlocks + 1}
      /\ eofReceived'[c] # -1 => lower = NumBlocks + 1
      /\ \A d \in Children \ {c} : eofReceived'[d] = eofReceived[d]
  BY <1>1, ManagedPacket
<1>3. ChildInv(c) /\ FileBlocksRight /\ child \in [Children -> ChildStates]
  BY DEF TransferInv, TypeOK, ReceiverTypeOK
<1>4. child'[c] = "FLUSH" /\ \A d \in Children \ {c} : child'[d] = child[d]
  BY <1>1, <1>3
<1>5. lower' = lower /\ sequenceNum' = sequenceNum
  BY DEF senderVars
<1>6. \A i \in DOMAIN buffer[c] : SlotOK(c, buffer[c][i])'
  <2>1. \A i \in DOMAIN buffer[c] : SlotFits(buffer[c][i], eofReceived'[c])
    BY <1>1, SlotsKept
  <2> QED
    BY <1>1, <1>5, <2>1 DEF SlotOK, SlotFits
<1>7. ChildInv(c)'
  <2>1. /\ expectedSeqNum[c] \in 1 .. (NumBlocks + 2)
        /\ expectedSeqNum[c] <= sequenceNum + 1
    BY <1>2, <1>3 DEF ChildInv
  <2> QED
    BY <1>1, <1>2, <1>4, <1>5, <1>6, <2>1 DEF ChildInv
<1>8. FileBlocksRight'
  BY <1>1, <1>3 DEF FileBlocksRight
<1> QED
  BY <1>1, <1>2, <1>4, <1>7, <1>8, ChildrenApart

\* The loop of flushingFunction: it writes the EOF packet last, if at all, and the
\* packet it stops at is one that may be asked for unless the EOF packet was written.
LEMMA FlushLoopTransfer ==
  ASSUME TypeOK, TransferInv, UNCHANGED senderVars, NEW c \in Children,
         \/ FlushWrite(c) \/ FlushFails(c)
         \/ FlushEnds(c)  \/ FlushEndsAtEof(c)
  PROVE  TransferInv'
<1> USE Constants
<1> DEFINE n == expectedSeqNum[c]
<1>1. /\ n \in 1 .. (NumBlocks + 2) /\ n \in Nat
      /\ sequenceNum \in 0 .. NumBlocks
      /\ eofReceived[c] \in {-1, NumBlocks + 1}
      /\ eofReceived[c] # -1 => lower = NumBlocks + 1
      /\ lower = NumBlocks + 1 => sequenceNum = NumBlocks
  BY DEF TransferInv, ChildInv, WindowInv, TypeOK, ReceiverTypeOK
<1>2. child[c] = "FLUSH" /\ UNCHANGED eofReceived
  BY Zenon DEF FlushWrite, FlushFails, FlushEnds, FlushEndsAtEof
<1>3. /\ child \in [Children -> ChildStates] /\ state \in [Children -> TrackerStates]
      /\ expectedSeqNum \in [Children -> Nat]
      /\ buffer \in [Children -> [0 .. (ServerWindow - 1) -> Slot]]
      /\ ChildInv(c) /\ FileBlocksRight
  BY DEF TransferInv, TypeOK, ReceiverTypeOK
<1>4. lower' = lower /\ sequenceNum' = sequenceNum
  BY DEF senderVars
<1> HIDE DEF n
<1>5. ASSUME NEW next \in {"FLUSHING", "INORDER", "BUFFER_DONE"},
             NEW e \in 1 .. (NumBlocks + 2), NEW slots,
             slots = buffer[c] \/ slots = SlotCleared(c, n),
             Tracker(c, next, e, slots),
             NEW doing \in {"FLUSH", "MANAGE_INCOMING_DATA", "DONE"},
             doing = "FLUSH" => next = "FLUSHING",
             child' = [child EXCEPT ![c] = doing],
             \/ e <= sequenceNum + 1
             \/ /\ sequenceNum = NumBlocks
                /\ \/ next = "BUFFER_DONE"
                   \/ doing = "FLUSH" /\ eofReceived[c] = NumBlocks + 1,
             n = NumBlocks + 2 => e = NumBlocks + 2,
             FileBlocksRight',
             expectedSeqNum'[c] = e => \A q \in net' : q \in net \/ DatagramOK(q)'
      PROVE  TransferInv'
  <2>1. /\ state'[c] = next /\ expectedSeqNum'[c] = e /\ buffer'[c] = slots
        /\ child'[c] = doing
    BY <1>3, <1>5 DEF Tracker
  <2>2. \A d \in Children \ {c} :
          /\ child'[d] = child[d] /\ state'[d] = state[d]
          /\ expectedSeqNum'[d] = expectedSeqNum[d]
          /\ eofReceived'[d] = eofReceived[d] /\ buffer'[d] = buffer[d]
    BY <1>2, <1>3, <1>5 DEF Tracker
  <2>3. ASSUME NEW i \in DOMAIN buffer'[c]
        PROVE  SlotOK(c, buffer[c][i])'
    <3>1. /\ i \in DOMAIN buffer[c]
          /\ slots[i] = buffer[c][i] \/ slots[i].validFlag = 0
      <4>1. CASE slots = buffer[c]
        BY <2>1, <4>1
      <4>2. CASE slots = SlotCleared(c, n)
        <5>1. i \in DOMAIN buffer[c]
          BY <2>1, <4>2 DEF SlotCleared
        <5>2. buffer[c] \in [0 .. (ServerWindow - 1) -> Slot]
          BY <1>3
        <5> QED
          BY <4>2, <5>1, <5>2 DEF SlotCleared, Slot
      <4> QED
        BY <1>5, <4>1, <4>2
    <3>2. SlotOK(c, buffer[c][i])
      BY <1>3, <3>1 DEF ChildInv
    <3>3. SlotOK(c, slots[i])
      BY <3>1, <3>2 DEF SlotOK
    <3> QED
      BY <1>2, <1>4, <2>1, <3>3 DEF SlotOK
  <2>4. ChildInv(c)'
    BY <1>1, <1>2, <1>4, <1>5, <2>1, <2>3 DEF ChildInv
  <2> QED
    BY <1>5, <2>1, <2>2, <2>4, ChildrenApart DEF n
<1>6. CASE FlushWrite(c)
  <2>1. PICK written \in OnDisk(buffer[c][n % ServerWindow].buff) :
          /\ checkIfBuffered(c, n)
          /\ file' = [file EXCEPT ![n] = written]
          /\ Tracker(c, "FLUSHING", n + 1, SlotCleared(c, n))
          /\ child' = child /\ net' = net
    BY <1>6 DEF FlushWrite, n, netVars
  <2>2. \/ n \in 1 .. sequenceNum /\ buffer[c][n % ServerWindow].buff = Source[n]
        \/ /\ n = NumBlocks + 1 /\ eofReceived[c] = NumBlocks + 1
           /\ buffer[c][n % ServerWindow].buff = ZeroByte
           /\ sequenceNum = NumBlocks
    BY <1>1, <2>1, FlushedSlot
  <2>3. FileBlocksRight'
    <3>1. written \in {Hole} \cup RightAt(n)
      BY <1>1, <2>1, <2>2, WriteRight
    <3> QED
      BY <1>1, <2>1, <3>1, FileWritten
  <2>4. /\ n + 1 \in 1 .. (NumBlocks + 2) /\ n # NumBlocks + 2
        /\ \/ n + 1 <= sequenceNum + 1
           \/ sequenceNum = NumBlocks /\ eofReceived[c] = NumBlocks + 1
    BY <1>1, <2>2
  <2>5. child' = [child EXCEPT ![c] = "FLUSH"]
    BY <1>2, <1>3, <2>1
  <2> DEFINE e == n + 1
  <2>6. /\ e \in 1 .. (NumBlocks + 2) /\ Tracker(c, "FLUSHING", e, SlotCleared(c, n))
        /\ \/ e <= sequenceNum + 1
           \/ sequenceNum = NumBlocks /\ eofReceived[c] = NumBlocks + 1
    BY <2>1, <2>4
  <2>7. \A q \in net' : q \in net
    BY <2>1
  <2> HIDE DEF e
  <2> QED
    BY <1>5, <2>3, <2>4, <2>5, <2>6, <2>7
<1>7. CASE FlushFails(c)
  <2>1. /\ Tracker(c, "BUFFER_DONE", n, buffer[c])
        /\ child' = [child EXCEPT ![c] = "DONE"]
        /\ file' = file /\ net' = net
    BY <1>7, Zenon DEF FlushFails, n, netVars
  <2>2. FileBlocksRight'
    BY <1>3, <2>1 DEF FileBlocksRight
  <2>3. n <= sequenceNum + 1 \/ sequenceNum = NumBlocks
    BY <1>3 DEF ChildInv, n
  <2> QED
    BY <1>1, <1>5, <2>1, <2>2, <2>3
<1>8. CASE FlushEnds(c)
  <2>1. /\ n # eofReceived[c] + 1 \/ eofReceived[c] = -1
        /\ Tracker(c, "INORDER", n, buffer[c])
        /\ child' = [child EXCEPT ![c] = "MANAGE_INCOMING_DATA"]
        /\ net' = net \cup {RR(c, n)} /\ file' = file
    BY <1>8, Zenon DEF FlushEnds, Send, n
  <2>2. FileBlocksRight'
    BY <1>3, <2>1 DEF FileBlocksRight
  <2>3. n <= sequenceNum + 1
    <3>1. CASE state[c] \in {"SEND_EOF_ACK", "BUFFER_DONE"}
      BY <1>2, <1>3, <3>1 DEF ChildInv
    <3>2. CASE eofReceived[c] = NumBlocks + 1 /\ sequenceNum = NumBlocks
      <4>1. n # NumBlocks + 2
        BY <1>1, <2>1, <3>2
      <4> QED
        BY <1>1, <3>2, <4>1
    <3> QED
      BY <1>3, <3>1, <3>2 DEF ChildInv, n
  <2>4. n \in 1 .. (sequenceNum + 1)
    BY <1>1, <2>3
  <2>5. \A q \in {RR(c, n)} : DatagramOK(q)'
    BY <2>4, AnswersOK
  <2>6. \A q \in net' : q \in net \/ DatagramOK(q)'
    BY <2>1, <2>5
  <2> QED
    BY <1>1, <1>5, <2>1, <2>2, <2>3, <2>6
<1>9. CASE FlushEndsAtEof(c)
  <2>1. /\ n = eofReceived[c] + 1 /\ eofReceived[c] # -1
        /\ Tracker(c, "BUFFER_DONE", n, buffer[c])
        /\ child' = [child EXCEPT ![c] = "DONE"]
        /\ net' = net \cup {EOFAck(c, eofReceived[c])} /\ file' = file
    BY <1>9, Zenon DEF FlushEndsAtEof, Send, n
  <2>2. FileBlocksRight'
    BY <1>3, <2>1 DEF FileBlocksRight
  <2>3. n = NumBlocks + 2 /\ eofReceived[c] = NumBlocks + 1 /\ sequenceNum = NumBlocks
    BY <1>1, <2>1
  <2> DEFINE last == eofReceived[c]
  <2>4. expectedSeqNum'[c] = n => \A q \in {EOFAck(c, last)} : DatagramOK(q)'
    <3> HIDE DEF last
    <3>1. last = NumBlocks + 1
      BY <2>3 DEF last
    <3> QED
      BY <2>3, <3>1, AnswersOK
  <2>5. expectedSeqNum'[c] = n => \A q \in net' : q \in net \/ DatagramOK(q)'
    <3>1. net' = net \cup {EOFAck(c, last)}
      BY <2>1
    <3> HIDE DEF last
    <3> QED
      BY <2>4, <3>1
  <2> QED
    BY <1>1, <1>5, <2>1, <2>2, <2>3, <2>5
<1> QED
  BY <1>6, <1>7, <1>8, <1>9

\* Whatever a child does leaves everything that was said true.
LEMMA ChildStepTransfer ==
  ASSUME TypeOK, TransferInv, NEW c \in Children, ChildStep(c)
  PROVE  TransferInv'
<1> USE Constants
<1>1. UNCHANGED senderVars
  BY Zenon DEF ChildStep
<1>2. /\ ChildInv(c) /\ FileBlocksRight /\ sequenceNum \in 0 .. NumBlocks
      /\ lower \in 1 .. (sequenceNum + 1)
      /\ child \in [Children -> ChildStates] /\ state \in [Children -> TrackerStates]
      /\ eofReceived \in [Children -> Nat \cup {-1}]
  BY DEF TransferInv, WindowInv, TypeOK, ReceiverTypeOK
<1>3. ASSUME NEW p \in net, ForkIntact(c, p) \/ ForkFlipped(c, p)
      PROVE  TransferInv'
  <2>1. /\ child[c] # "FLUSH" /\ child' = [child EXCEPT ![c] = "ACCEPT_FILENAME"]
        /\ UNCHANGED <<trackerVars, file>>
    BY <1>3, Zenon DEF ForkIntact, ForkFlipped, Fork
  <2>2. net' \subseteq net
    BY <1>3 DEF ForkIntact, ForkFlipped, Receive, ReceiveFlipped, Exchange
  <2> QED
    BY <1>1, <2>1, <2>2, IdleChildTransfer
<1>4. CASE RejectSetup(c) \/ OpenFails(c)
  <2>1. /\ child[c] # "FLUSH"
        /\ \E next \in {"ACCEPT_FILENAME", "MANAGE_INCOMING_DATA", "DONE"} :
             child' = [child EXCEPT ![c] = next]
        /\ UNCHANGED <<trackerVars, file>> /\ net' = net
    BY <1>4 DEF RejectSetup, OpenFails, netVars
  <2> QED
    BY <1>1, <2>1, IdleChildTransfer
<1>5. CASE AcceptSetup(c)
  <2> DEFINE answer == createPDU("SERVER_TO_RCOPY", c, Rcopy, 0, ZeroByte)
  <2>1. /\ child[c] # "FLUSH" /\ child' = [child EXCEPT ![c] = "MANAGE_INCOMING_DATA"]
        /\ UNCHANGED trackerVars /\ file' = EmptyFile
        /\ net' = net \cup {answer}
    BY <1>5, Zenon DEF AcceptSetup, Send
  <2>2. answer.flag = "SERVER_TO_RCOPY"
    BY DEF createPDU
  <2> HIDE DEF answer
  <2>3. \A q \in net' : q \in net \/ DatagramOK(q)'
    BY <2>1, <2>2 DEF DatagramOK
  <2>4. FileBlocksRight'
    BY <2>1 DEF FileBlocksRight, EmptyFile
  <2>5. UNCHANGED <<state, expectedSeqNum, eofReceived, buffer, lower, sequenceNum>>
    BY <1>1, <2>1 DEF trackerVars, senderVars
  <2>6. \A i \in DOMAIN buffer[c] : SlotOK(c, buffer[c][i])'
    BY <1>2, <2>5 DEF ChildInv, SlotOK
  <2>7. child'[c] = "MANAGE_INCOMING_DATA"
        /\ \A d \in Children \ {c} : child'[d] = child[d]
    BY <1>2, <2>1
  <2>8. ChildInv(c)'
    BY <1>2, <2>1, <2>5, <2>6, <2>7 DEF ChildInv
  <2> QED
    BY <1>1, <2>3, <2>4, <2>5, <2>7, <2>8, ChildrenApart
<1>6. ASSUME NEW p \in net, BadChecksum(c, p) \/ IgnoreOther(c, p)
      PROVE  TransferInv'
  <2> DEFINE n == expectedSeqNum[c]
  <2>1. UNCHANGED <<trackerVars, file, child>>
    BY <1>6 DEF BadChecksum, IgnoreOther, receiverVars, trackerVars
  <2>2. net' \subseteq net \cup {SREJ(c, n)}
    BY <1>6 DEF BadChecksum, IgnoreOther, Receive, ReceiveFlipped, Exchange
  <2> HIDE DEF n
  <2>3. \A q \in {SREJ(c, n)} : DatagramOK(q)'
    BY <1>1, AnswersOK
  <2>4. \A q \in net' : q \in net \/ DatagramOK(q)'
    BY <2>2, <2>3
  <2> QED
    BY <1>1, <2>1, <2>4, IdleChildTransfer
<1>7. ASSUME NEW p \in net, EnterEofAckLoop(c, p)
      PROVE  TransferInv'
  <2> DEFINE n == eofReceived'[c]
  <2>1. /\ Manages(c, p, "SEND_EOF_ACK")
        /\ child' = [child EXCEPT ![c] = "SENDING_EOF_ACK"]
        /\ UNCHANGED <<state, expectedSeqNum, buffer, file>>
        /\ Receive(p, {EOFAck(c, n)})
    BY <1>7, Zenon DEF EnterEofAckLoop
  <2>2. /\ state[c] = "SEND_EOF_ACK"
        /\ eofReceived[c] = NumBlocks + 1 => n = NumBlocks + 1
        /\ n # -1 => lower = NumBlocks + 1
        /\ \A d \in Children \ {c} : eofReceived'[d] = eofReceived[d]
    BY <2>1, ManagedPacket
  <2>3. n = NumBlocks + 1 /\ expectedSeqNum[c] = NumBlocks + 2
        /\ lower = NumBlocks + 1 /\ sequenceNum = NumBlocks
    BY <1>2, <2>2 DEF ChildInv
  <2>4. child'[c] = "SENDING_EOF_ACK" /\ \A d \in Children \ {c} : child'[d] = child[d]
    BY <1>2, <2>1
  <2>5. lower' = lower /\ sequenceNum' = sequenceNum
    BY <1>1 DEF senderVars
  <2>6. \A i \in DOMAIN buffer[c] : SlotOK(c, buffer[c][i])'
    BY <1>2, <2>1, <2>3, <2>5 DEF ChildInv, SlotOK
  <2>7. ChildInv(c)'
    BY <1>2, <2>1, <2>2, <2>3, <2>4, <2>5, <2>6 DEF ChildInv
  <2>8. FileBlocksRight'
    BY <1>2, <2>1 DEF FileBlocksRight
  <2>9. n = NumBlocks + 1 /\ expectedSeqNum'[c] = NumBlocks + 2
        /\ net' \subseteq net \cup {EOFAck(c, n)}
    BY <2>1, <2>3 DEF Receive, Exchange
  <2> HIDE DEF n
  <2>10. \A q \in {EOFAck(c, n)} : DatagramOK(q)'
    BY <1>1, <2>9, AnswersOK
  <2>11. \A q \in net' : q \in net \/ DatagramOK(q)'
    BY <2>9, <2>10
  <2> QED
    BY <1>1, <2>1, <2>2, <2>4, <2>7, <2>8, <2>11, ChildrenApart
<1>8. ASSUME NEW p \in net, EofLoopAnswer(c, p)
      PROVE  TransferInv'
  <2> DEFINE n == eofReceived[c]
  <2>1. /\ UNCHANGED <<trackerVars, file, child, expectedSeqNum>>
        /\ child[c] = "SENDING_EOF_ACK"
    BY <1>8 DEF EofLoopAnswer, receiverVars, trackerVars
  <2>2. net' \subseteq net \cup {EOFAck(c, n)}
    BY <1>8 DEF EofLoopAnswer, Receive, ReceiveFlipped, Exchange
  <2>3. n = NumBlocks + 1 /\ expectedSeqNum'[c] = NumBlocks + 2
    BY <1>2, <2>1 DEF ChildInv
  <2> HIDE DEF n
  <2>4. \A q \in {EOFAck(c, n)} : DatagramOK(q)'
    BY <1>1, <2>3, AnswersOK
  <2>5. \A q \in net' : q \in net \/ DatagramOK(q)'
    BY <2>2, <2>4
  <2> QED
    BY <1>1, <2>1, <2>5, IdleChildTransfer
<1>9. CASE EofLoopTimeout(c)
  <2>1. UNCHANGED <<trackerVars, file, child>> /\ net' = net
    BY <1>9, Zenon DEF EofLoopTimeout, netVars
  <2> QED
    BY <1>1, <2>1, IdleChildTransfer
<1>10. CASE EofLoopDone(c)
  <2>1. /\ child[c] = "SENDING_EOF_ACK"
        /\ child' = [child EXCEPT ![c] = "DONE"]
        /\ state' = [state EXCEPT ![c] = "BUFFER_DONE"]
        /\ UNCHANGED <<expectedSeqNum, eofReceived, buffer, file>> /\ net' = net
    BY <1>10, Zenon DEF EofLoopDone, netVars
  <2>2. /\ lower = NumBlocks + 1 /\ expectedSeqNum[c] = NumBlocks + 2
        /\ sequenceNum = NumBlocks
    BY <1>2, <2>1 DEF ChildInv
  <2>3. /\ child'[c] = "DONE" /\ state'[c] = "BUFFER_DONE"
        /\ \A d \in Children \ {c} : child'[d] = child[d] /\ state'[d] = state[d]
    BY <1>2, <2>1
  <2>4. lower' = lower /\ sequenceNum' = sequenceNum
    BY <1>1 DEF senderVars
  <2>5. \A i \in DOMAIN buffer[c] : SlotOK(c, buffer[c][i])'
    BY <1>2, <2>1, <2>4 DEF ChildInv, SlotOK
  <2>6. ChildInv(c)'
    BY <1>2, <2>1, <2>2, <2>3, <2>4, <2>5 DEF ChildInv
  <2>7. FileBlocksRight'
    BY <1>2, <2>1 DEF FileBlocksRight
  <2> QED
    BY <1>1, <2>1, <2>3, <2>6, <2>7, ChildrenApart
<1> QED
  BY <1>1, <1>3, <1>4, <1>5, <1>6, <1>7, <1>8, <1>9, <1>10, InorderTransfer,
     FlushTransfer, FlushLoopTransfer
  DEF ChildStep, ChildRun, ChildReceive

-----------------------------------------------------------------------------
(* The system *)

LEMMA InitTransfer == Init => TransferInv
<1> SUFFICES ASSUME Init PROVE TransferInv
  OBVIOUS
<1> USE Constants
<1>1. /\ net = {} /\ NS = "FILENAME" /\ lower = 1 /\ sequenceNum = 0 /\ eof = 0
      /\ window_buffer = initializeBuffer(Window) /\ file = EmptyFile
  BY DEF Init, InitNetwork, InitSender, InitReceiver
<1>2. WindowInv /\ PhaseInv
  BY <1>1 DEF WindowInv, UnackedIsHeld, PhaseInv, WaitingHasUnacked,
              initializeBuffer, EmptySlot
<1>3. ASSUME NEW c \in Children PROVE ChildInv(c)
  <2>1. /\ child[c] = "none" /\ state[c] = "INORDER" /\ expectedSeqNum[c] = 1
        /\ eofReceived[c] = -1 /\ buffer[c] = initializeBuffer(ServerWindow)
    BY DEF Init, InitReceiver
  <2>2. \A i \in DOMAIN buffer[c] : SlotOK(c, buffer[c][i])
    BY <2>1 DEF initializeBuffer, EmptySlot, SlotOK
  <2> QED
    BY <1>1, <2>1, <2>2 DEF ChildInv
<1>4. FileBlocksRight
  BY <1>1 DEF FileBlocksRight, EmptyFile
<1> QED
  BY <1>1, <1>2, <1>3, <1>4 DEF TransferInv

LEMMA NextTransfer == TypeOK /\ TransferInv /\ [Next]_vars => TransferInv'
<1> SUFFICES ASSUME TypeOK, TransferInv, [Next]_vars PROVE TransferInv'
  OBVIOUS
<1>1. ASSUME net' \subseteq net, UNCHANGED <<senderVars, receiverVars>>
      PROVE  TransferInv'
  <2>1. UNCHANGED <<NS, polling, lower, sequenceNum, window_buffer, eof, eofSeqNum,
                    child, state, expectedSeqNum, eofReceived, buffer, file>>
    BY <1>1 DEF senderVars, receiverVars
  <2>2. WindowInv' /\ PhaseInv' /\ FileBlocksRight'
    BY <2>1 DEF TransferInv, WindowInv, UnackedIsHeld, PhaseInv, WaitingHasUnacked,
                FileBlocksRight
  <2>3. \A q \in net' : DatagramOK(q)'
    BY <1>1, <2>1 DEF TransferInv, DatagramOK
  <2>4. \A c \in Children : ChildInv(c)'
    BY <2>1 DEF TransferInv, ChildInv, SlotOK
  <2> QED
    BY <2>2, <2>3, <2>4 DEF TransferInv
<1>2. CASE Discard \/ Drop
  BY <1>1, <1>2 DEF Discard, Drop, Lose
<1>3. CASE UNCHANGED vars
  BY <1>1, <1>3 DEF vars, netVars
<1> QED
  BY <1>2, <1>3, RcopyStepTransfer, ChildStepTransfer DEF Next

\* rcopy, the datagrams and any number of children agree on what was sent.
\* TransferInv is inductive together with the types.
THEOREM TransferCorrect == Spec => []TransferInv
<1>1. TypeOK /\ EofKnown /\ TransferInv /\ [Next]_vars
        => (TypeOK /\ EofKnown /\ TransferInv)'
  BY NextType, NextTransfer
<1>2. Spec => [](TypeOK /\ EofKnown /\ TransferInv)
  BY <1>1, InitType, InitTransfer, PTL DEF Spec
<1> QED
  BY <1>2, PTL

\* Any block that is unacknowledged can be resent, whatever the window size,
\* the length of the file and what the network does (windowing.c).
THEOREM UnackedCorrect == Spec => []UnackedIsHeld
<1>1. TransferInv => UnackedIsHeld
  BY DEF TransferInv, WindowInv
<1> QED
  BY <1>1, TransferCorrect, PTL

\* rcopy waits for an RR (waitOnAck) only while a block is unacknowledged.
THEOREM WaitingCorrect == Spec => []WaitingHasUnacked
<1>1. TransferInv => WaitingHasUnacked
  BY DEF TransferInv, PhaseInv
<1> QED
  BY <1>1, TransferCorrect, PTL

\* An EOF packet is sent only after every block was acknowledged (dataTransfer,
\* waitOnAck).
THEOREM EofCorrect == Spec => []EofAfterAllAcked
<1>1. TransferInv => EofAfterAllAcked
  BY DEF TransferInv, DatagramOK, EofAfterAllAcked
<1> QED
  BY <1>1, TransferCorrect, PTL

\* An EOF_ACK means that its child received everything (bufferMngment.c).
THEOREM EofAckCorrect == Spec => []EofAckMeansReceived
<1>1. TransferInv => EofAckMeansReceived
  BY DEF TransferInv, DatagramOK, EofAckMeansReceived
<1> QED
  BY <1>1, TransferCorrect, PTL

\* Every block in the output file is at its place, however many children write
\* it (bufferMngment.c, open_output_file).
THEOREM FileCorrect == Spec => []FileBlocksRight
<1>1. TransferInv => FileBlocksRight
  BY DEF TransferInv
<1> QED
  BY <1>1, TransferCorrect, PTL

=============================================================================
