---------------------------- MODULE Types_proofs ----------------------------
(***************************************************************************)
(* Every variable of SelectiveReject has its type at all times, for every  *)
(* window, source, number of tries, number of children and of faults.      *)
(***************************************************************************)
EXTENDS SelectiveReject, TLAPS

-----------------------------------------------------------------------------
(* Constants *)

LEMMA Constants ==
  /\ NumBlocks \in Nat
  /\ \A i \in 1 .. NumBlocks : Source[i] \in Blocks
  /\ Window \in Nat \ {0}
  /\ ServerWindow \in Nat \ {0}
BY SourceAssumption, ArgumentAssumption, SizeAssumption
   DEF NumBlocks, ServerWindow

\* The slot of a sequence number is a slot of the buffer.
LEMMA SlotIndex ==
  ASSUME NEW n \in Nat, NEW w \in Nat \ {0}
  PROVE  n % w \in 0 .. (w - 1)
OBVIOUS

-----------------------------------------------------------------------------
(* The network *)

\* Every way to receive or to send keeps the types of the network's variables
\* when what is sent is a set of datagrams, and what is received is one.
LEMMA ExchangeType ==
  ASSUME NetworkTypeOK, NEW p, NEW out \in SUBSET PDU,
         Receive(p, out) \/ ReceiveFlipped(p, out) \/ Send(out)
  PROVE  NetworkTypeOK'
BY DEF NetworkTypeOK, Receive, ReceiveFlipped, Send, Exchange

LEMMA ReceivedType ==
  ASSUME NetworkTypeOK, NEW p, NEW out,
         Receive(p, out) \/ ReceiveFlipped(p, out)
  PROVE  p \in PDU
BY DEF NetworkTypeOK, Receive, ReceiveFlipped, Exchange

LEMMA CreatedType ==
  ASSUME NEW flag \in Flags, NEW src \in Addresses, NEW dst \in Addresses,
         NEW seq \in Nat, NEW data \in Blocks \cup {ZeroByte}
  PROVE  createPDU(flag, src, dst, seq, data) \in PDU
BY DEF createPDU, PDU

-----------------------------------------------------------------------------
(* rcopy *)

LEMMA ResentType ==
  ASSUME SenderTypeOK, NEW n \in Nat, NEW dst \in Addresses
  PROVE  getPacketToResend(n, dst) \in SUBSET PDU
<1>1. n % Window \in 0 .. (Window - 1)
  BY SlotIndex, Constants
<1>2. window_buffer[n % Window] \in Slot
  BY <1>1 DEF SenderTypeOK
<1>3. window_buffer[n % Window].buff \in Blocks \cup {ZeroByte}
  BY <1>2 DEF Slot
<1>4. "DATA_PKT" \in Flags /\ Rcopy \in Addresses
  BY DEF Flags, Addresses
<1> QED
  BY <1>3, <1>4, CreatedType DEF getPacketToResend

LEMMA EofPDUType ==
  ASSUME NEW n \in Nat, NEW dst \in Addresses
  PROVE  EofPDU(dst, n) \in PDU
BY CreatedType DEF EofPDU, Flags, Addresses

\* The part of the window that an answer changes keeps its type.
LEMMA AckType ==
  ASSUME SenderTypeOK, NetworkTypeOK, NEW p, NEW out \in SUBSET PDU,
         processRRorSREJ(p, out)
  PROVE  /\ NetworkTypeOK'
         /\ server' \in Addresses /\ lower' \in Nat /\ sequenceNum' \in Nat
         /\ window_buffer' \in [0 .. (Window - 1) -> Slot]
<1>1. p \in PDU
  BY ReceivedType DEF processRRorSREJ
<1>2. p.src \in Addresses /\ p.seq \in Nat
  BY <1>1 DEF PDU
<1>3. processSREJpacket(p) \in SUBSET PDU
  BY <1>2, ResentType DEF processSREJpacket
<1>4. NetworkTypeOK'
  BY <1>3, ExchangeType DEF processRRorSREJ
<1>5. LowerAfter(p) \in Nat
  BY <1>2 DEF LowerAfter, SenderTypeOK
<1>6. ValidatedBy(p) \in [0 .. (Window - 1) -> Slot]
  BY <1>5 DEF ValidatedBy, SenderTypeOK, Slot
<1> QED
  BY <1>2, <1>4, <1>5, <1>6 DEF processRRorSREJ, processRRpacket, SenderTypeOK

\* Each step of rcopy keeps the types of its variables and of the network's.
LEMMA RcopyStepType ==
  ASSUME SenderTypeOK, NetworkTypeOK, RcopyStep
  PROVE  SenderTypeOK' /\ NetworkTypeOK'
<1> USE Constants
<1>0. Rcopy \in Addresses /\ Server \in Addresses
  BY DEF Addresses
<1>1. CASE SendSetup
  <2>1. SetupPDU \in PDU
    BY <1>0, CreatedType DEF SetupPDU, Flags, SenderTypeOK
  <2>2. NetworkTypeOK'
    BY <1>1, <2>1, ExchangeType DEF SendSetup
  <2> QED
    BY <1>1, <2>2 DEF SendSetup, SenderTypeOK, windowVars
<1>2. CASE SetupTimeout
  <2>1. counter' = counter + 1 /\ polling' \in BOOLEAN
    BY <1>2, Zenon DEF SetupTimeout
  <2>2. UNCHANGED <<NS, server, windowVars, eof, eofSeqNum, complete, netVars>>
    BY <1>2 DEF SetupTimeout
  <2> QED
    BY <2>1, <2>2 DEF SenderTypeOK, NetworkTypeOK, windowVars, netVars
<1>3. ASSUME NEW p \in net, SetupAnswer(p) \/ SetupAnswerFlipped(p)
      PROVE  SenderTypeOK' /\ NetworkTypeOK'
  <2>1. NetworkTypeOK'
    BY <1>3, ExchangeType DEF SetupAnswer, SetupAnswerFlipped
  <2>2. p.src \in Addresses
    BY DEF NetworkTypeOK, PDU
  <2>3. PICK flagRight : SetupAnswered(p, flagRight)
    BY <1>3 DEF SetupAnswer, SetupAnswerFlipped
  <2>4. /\ server' = p.src /\ polling' \in BOOLEAN
        /\ \/ NS' = "FILE_OK" /\ counter' = 0
           \/ NS' = NS /\ counter' = counter + 1
        /\ UNCHANGED <<windowVars, eof, eofSeqNum, complete>>
    BY <2>3, Zenon DEF SetupAnswered
  <2> QED
    BY <2>1, <2>2, <2>4 DEF SenderTypeOK, States, windowVars
<1>4. CASE SetupGiveUp \/ FileOk \/ ReadError \/ WindowShut \/ AckGiveUp
           \/ EofGiveUp
  BY <1>4 DEF SetupGiveUp, FileOk, ReadError, WindowShut, AckGiveUp, EofGiveUp,
              SenderTypeOK, NetworkTypeOK, States, windowVars, netVars
<1>5. CASE SendBlock
  <2> DEFINE n == sequenceNum + 1
  <2>1. n \in Nat /\ n \in 1 .. NumBlocks /\ Source[n] \in Blocks
    BY <1>5 DEF SendBlock, SenderTypeOK
  <2>2. createPDU("DATA_PKT", Rcopy, server, n, Source[n]) \in PDU
    BY <1>0, <2>1, CreatedType DEF Flags, SenderTypeOK
  <2>3. NetworkTypeOK'
    BY <1>5, <2>2, ExchangeType DEF SendBlock
  <2>4. [sequenceNumber |-> n, validFlag |-> 0, buff |-> Source[n]] \in Slot
    BY <2>1 DEF Slot
  <2>5. window_buffer' \in [0 .. (Window - 1) -> Slot]
    BY <1>5, <2>4 DEF SendBlock, windowStorePacket, SenderTypeOK
  <2> QED
    BY <1>5, <2>1, <2>3, <2>5 DEF SendBlock, SenderTypeOK
<1>6. CASE ReadEof
  <2>1. sequenceNum + 1 \in Nat
    BY DEF SenderTypeOK
  <2>2. EofPDU(server, sequenceNum + 1) \in PDU
    BY <2>1, EofPDUType DEF SenderTypeOK
  <2>3. NetworkTypeOK'
    BY <1>6, <2>2, ExchangeType DEF ReadEof, NetworkTypeOK, netVars
  <2>4. /\ NS' \in {"WAIT_ON_EOF_ACK", "WAIT_ON_ACK"} /\ counter' \in {0, counter}
        /\ eof' = 1 /\ eofSeqNum' = sequenceNum + 1 /\ polling' \in BOOLEAN
        /\ UNCHANGED <<server, windowVars, complete>>
    BY <1>6, Zenon DEF ReadEof
  <2> QED
    BY <2>1, <2>3, <2>4 DEF SenderTypeOK, States, windowVars
<1>7. ASSUME NEW p \in net, PollAck(p)
      PROVE  SenderTypeOK' /\ NetworkTypeOK'
  BY <1>7, AckType DEF PollAck, SenderTypeOK
<1>8. ASSUME NEW p \in net, DropFlipped(p)
      PROVE  SenderTypeOK' /\ NetworkTypeOK'
  <2>1. NetworkTypeOK'
    BY <1>8, ExchangeType DEF DropFlipped
  <2>2. p.src \in Addresses
    BY DEF NetworkTypeOK, PDU
  <2> QED
    BY <1>8, <2>1, <2>2 DEF DropFlipped, SenderTypeOK, windowVars
<1>9. CASE AckTimeout
  <2>1. NetworkTypeOK'
    BY <1>9, ResentType, ExchangeType DEF AckTimeout, SenderTypeOK
  <2> QED
    BY <1>9, <2>1 DEF AckTimeout, SenderTypeOK, windowVars
<1>10. ASSUME NEW p \in net, WaitAck(p)
       PROVE  SenderTypeOK' /\ NetworkTypeOK'
  <2> DEFINE out == IF eof = 1 /\ LowerAfter(p) = eofSeqNum
                      THEN {EofPDU(p.src, eofSeqNum)} ELSE {}
  <2>1. p.src \in Addresses
    BY DEF NetworkTypeOK, PDU
  <2>2. out \in SUBSET PDU
    BY <2>1, EofPDUType DEF SenderTypeOK
  <2>3. processRRorSREJ(p, out)
    BY <1>10 DEF WaitAck
  <2> HIDE DEF out
  <2> QED
    BY <1>10, <2>2, <2>3, AckType DEF WaitAck, SenderTypeOK, States
<1>11. CASE EofTimeout
  <2>1. NetworkTypeOK'
    BY <1>11, EofPDUType, ExchangeType DEF EofTimeout, SenderTypeOK
  <2> QED
    BY <1>11, <2>1 DEF EofTimeout, SenderTypeOK, windowVars
<1>12. ASSUME NEW p \in net, EofAcked(p)
       PROVE  SenderTypeOK' /\ NetworkTypeOK'
  BY <1>12, AckType DEF EofAcked, SenderTypeOK, States
<1>13. ASSUME NEW p \in net, EofNotAcked(p)
       PROVE  SenderTypeOK' /\ NetworkTypeOK'
  <2> DEFINE out == IF p.flag \in {"RR_PACKET", "SREJ_PACKET"}
                      THEN {EofPDU(p.src, eofSeqNum)} ELSE {}
  <2>1. p.src \in Addresses
    BY DEF NetworkTypeOK, PDU
  <2>2. out \in SUBSET PDU
    BY <2>1, EofPDUType DEF SenderTypeOK
  <2>3. processRRorSREJ(p, out)
    BY <1>13 DEF EofNotAcked
  <2> HIDE DEF out
  <2> QED
    BY <1>13, <2>2, <2>3, AckType DEF EofNotAcked, SenderTypeOK
<1> QED
  BY <1>1, <1>2, <1>3, <1>4, <1>5, <1>6, <1>7, <1>8, <1>9, <1>10, <1>11, <1>12,
     <1>13 DEF RcopyStep, SenderRun, SenderTimeout, SenderReceive

-----------------------------------------------------------------------------
(* The server *)

\* A child that acknowledges the end of the file knows its number.
EofKnown ==
  \A c \in Children : child[c] = "SENDING_EOF_ACK" \/ state[c] = "SEND_EOF_ACK"
                        => eofReceived[c] \in Nat

LEMMA AnswerType ==
  ASSUME NEW c \in Children, NEW n \in Nat
  PROVE  RR(c, n) \in PDU /\ SREJ(c, n) \in PDU /\ EOFAck(c, n) \in PDU
BY CreatedType DEF RR, SREJ, EOFAck, Flags, Addresses

LEMMA EmptyFileType ==
  EmptyFile \in [1 .. (NumBlocks + 1) -> Contents]
BY DEF EmptyFile, Contents

LEMMA EmptyBufferType ==
  ASSUME NEW size \in Nat
  PROVE  initializeBuffer(size) \in [0 .. (size - 1) -> Slot]
BY DEF initializeBuffer, EmptySlot, Slot

LEMMA StoredType ==
  ASSUME ReceiverTypeOK, NEW c \in Children, NEW p \in PDU
  PROVE  storePacketInBuffer(c, p) \in [0 .. (ServerWindow - 1) -> Slot]
<1>1. buffer[c] \in [0 .. (ServerWindow - 1) -> Slot]
  BY DEF ReceiverTypeOK
<1>2. [sequenceNumber |-> p.seq, validFlag |-> 1, buff |-> p.data] \in Slot
  BY DEF PDU, Slot
<1> QED
  BY <1>1, <1>2 DEF storePacketInBuffer

LEMMA ClearedType ==
  ASSUME ReceiverTypeOK, NEW c \in Children, NEW n \in Nat
  PROVE  SlotCleared(c, n) \in [0 .. (ServerWindow - 1) -> Slot]
<1>1. buffer[c] \in [0 .. (ServerWindow - 1) -> Slot]
  BY DEF ReceiverTypeOK
<1> QED
  BY <1>1 DEF SlotCleared, Slot

\* What a flush writes may be in a file.
LEMMA FlushedType ==
  ASSUME ReceiverTypeOK, NEW c \in Children, NEW n \in Nat,
         NEW written \in OnDisk(buffer[c][n % ServerWindow].buff)
  PROVE  written \in Contents
<1>1. n % ServerWindow \in 0 .. (ServerWindow - 1)
  BY SlotIndex, Constants
<1>2. buffer[c][n % ServerWindow] \in Slot
  BY <1>1 DEF ReceiverTypeOK
<1> QED
  BY <1>2 DEF Slot, OnDisk, Contents

\* What one call of bufferManagement sets keeps its type.
LEMMA TrackerType ==
  ASSUME ReceiverTypeOK, NEW c \in Children, NEW p \in PDU, NEW st,
         Manages(c, p, st),
         NEW next \in TrackerStates, NEW expected \in Nat,
         NEW slots \in [0 .. (ServerWindow - 1) -> Slot],
         Tracker(c, next, expected, slots)
  PROVE  /\ state' \in [Children -> TrackerStates]
         /\ expectedSeqNum' \in [Children -> Nat]
         /\ buffer' \in [Children -> [0 .. (ServerWindow - 1) -> Slot]]
         /\ eofReceived' \in [Children -> Nat \cup {-1}]
         /\ intact' \in [Children -> BOOLEAN] /\ fdOpen' \in [Children -> BOOLEAN]
<1>1. p.seq \in Nat
  BY DEF PDU
<1>2. eofReceived' \in [Children -> Nat \cup {-1}]
  BY <1>1 DEF Manages, ReceiverTypeOK
<1> QED
  BY <1>2 DEF Manages, Tracker, ReceiverTypeOK

\* Once known the number of the end of the file stays known.
LEMMA ManagesEof ==
  ASSUME ReceiverTypeOK, NEW c \in Children, NEW p \in PDU, NEW st,
         Manages(c, p, st)
  PROVE  /\ \A d \in Children : eofReceived[d] \in Nat => eofReceived'[d] \in Nat
         /\ p.flag = "EOF_FLAG" => eofReceived'[c] = p.seq
         /\ p.seq \in Nat
BY DEF Manages, ReceiverTypeOK, PDU

\* Each step of a child keeps the types of the server's variables and of the
\* network's.
LEMMA ChildStepType ==
  ASSUME ReceiverTypeOK, NetworkTypeOK, EofKnown, NEW c \in Children, ChildStep(c)
  PROVE  ReceiverTypeOK' /\ NetworkTypeOK' /\ EofKnown'
<1> USE Constants
<1> DEFINE n == expectedSeqNum[c]
<1>0. n \in Nat /\ n + 1 \in Nat
  BY DEF ReceiverTypeOK
<1>1. \A p \in net : p \in PDU /\ p.seq \in Nat
  BY DEF NetworkTypeOK, PDU
<1>2. CASE RejectSetup(c)
  BY <1>2 DEF RejectSetup, ReceiverTypeOK, NetworkTypeOK, EofKnown, ChildStates,
              trackerVars, netVars
<1>3. CASE AcceptSetup(c)
  <2>1. createPDU("SERVER_TO_RCOPY", c, Rcopy, 0, ZeroByte) \in PDU
    BY CreatedType DEF Flags, Addresses
  <2>2. NetworkTypeOK'
    BY <1>3, <2>1, ExchangeType DEF AcceptSetup
  <2> QED
    BY <1>3, <2>2, EmptyFileType
    DEF AcceptSetup, ReceiverTypeOK, EofKnown, ChildStates, trackerVars
<1>4. CASE OpenFails(c)
  BY <1>4 DEF OpenFails, ReceiverTypeOK, NetworkTypeOK, EofKnown, ChildStates,
              trackerVars, netVars
<1>5. CASE EofLoopDone(c)
  BY <1>5 DEF EofLoopDone, ReceiverTypeOK, NetworkTypeOK, EofKnown, ChildStates,
              TrackerStates, netVars
<1>6. CASE EofLoopTimeout(c)
  BY <1>6 DEF EofLoopTimeout, ReceiverTypeOK, NetworkTypeOK, EofKnown,
              trackerVars, netVars
<1>7. ASSUME NEW p \in net, ForkIntact(c, p) \/ ForkFlipped(c, p)
      PROVE  ReceiverTypeOK' /\ NetworkTypeOK' /\ EofKnown'
  <2>0. Receive(p, {}) \/ ReceiveFlipped(p, {})
    BY <1>7, Zenon DEF ForkIntact, ForkFlipped
  <2>1. NetworkTypeOK'
    BY <2>0, ExchangeType
  <2>2. PICK ok \in BOOLEAN : Fork(c, p, ok)
    BY <1>7, Zenon DEF ForkIntact, ForkFlipped
  <2> DEFINE first == ok /\ p.flag = "RCOPY_TO_SERVER"
  <2>3. first \in BOOLEAN
    OBVIOUS
  <2>4. intact' = [intact EXCEPT ![c] = first]
    BY <2>2 DEF Fork
  <2> HIDE DEF first
  <2>5. intact' \in [Children -> BOOLEAN]
    BY <2>3, <2>4, Zenon DEF ReceiverTypeOK
  <2> QED
    BY <2>1, <2>2, <2>5
    DEF Fork, ReceiverTypeOK, EofKnown, ChildStates, trackerVars
<1>8. ASSUME NEW p \in net, ExpectedData(c, p)
      PROVE  ReceiverTypeOK' /\ NetworkTypeOK' /\ EofKnown'
  <2>1. PICK st \in {"INORDER", "BUFFERING"}, written \in OnDisk(p.data) :
          /\ Manages(c, p, st)
          /\ file' = [file EXCEPT ![n] = written]
          /\ Tracker(c, IF st = "INORDER" THEN "INORDER" ELSE "FLUSHING",
                     n + 1, SlotCleared(c, n))
          /\ Receive(p, IF st = "INORDER" THEN {RR(c, n + 1)} ELSE {})
          /\ UNCHANGED <<child, timeouts>>
    BY <1>8 DEF ExpectedData
  <2>2. NetworkTypeOK'
    BY <1>0, <2>1, AnswerType, ExchangeType
  <2>3. SlotCleared(c, n) \in [0 .. (ServerWindow - 1) -> Slot]
    BY <1>0, ClearedType
  <2> DEFINE next == IF st = "INORDER" THEN "INORDER" ELSE "FLUSHING"
  <2>4. next \in TrackerStates /\ next # "SEND_EOF_ACK"
    BY DEF TrackerStates
  <2>5. written \in Contents
    BY <1>1 DEF PDU, OnDisk, Contents
  <2> HIDE DEF n, next
  <2>6. ReceiverTypeOK'
    <3>1. file' \in [1 .. (NumBlocks + 1) -> Contents]
      BY <2>1, <2>5 DEF ReceiverTypeOK
    <3> QED
      BY <1>0, <1>1, <2>1, <2>3, <2>4, <3>1, TrackerType DEF ReceiverTypeOK, next
  <2>7. EofKnown'
    BY <1>1, <2>1, <2>4, ManagesEof DEF Tracker, EofKnown, ReceiverTypeOK, next
  <2> QED
    BY <2>2, <2>6, <2>7
<1>9. ASSUME NEW p \in net, ExpectedEof(c, p)
      PROVE  ReceiverTypeOK' /\ NetworkTypeOK' /\ EofKnown'
  <2>1. PICK st \in {"INORDER", "BUFFERING"} : Manages(c, p, st)
    BY <1>9 DEF ExpectedEof
  <2>2. /\ p.flag = "EOF_FLAG" /\ p.seq = n
        /\ Tracker(c, "SEND_EOF_ACK", n + 1, buffer[c])
        /\ Receive(p, {EOFAck(c, n)})
        /\ UNCHANGED <<child, timeouts, file>>
    BY <1>9 DEF ExpectedEof
  <2>3. NetworkTypeOK'
    BY <1>0, <2>2, AnswerType, ExchangeType
  <2>4. "SEND_EOF_ACK" \in TrackerStates
        /\ buffer[c] \in [0 .. (ServerWindow - 1) -> Slot]
    BY DEF TrackerStates, ReceiverTypeOK
  <2>5. ReceiverTypeOK'
    BY <1>0, <1>1, <2>1, <2>2, <2>4, TrackerType DEF ReceiverTypeOK
  <2>6. EofKnown'
    BY <1>1, <2>1, <2>2, ManagesEof DEF Tracker, EofKnown, ReceiverTypeOK
  <2> QED
    BY <2>3, <2>5, <2>6
<1>10. ASSUME NEW p \in net, AheadOfExpected(c, p)
       PROVE  ReceiverTypeOK' /\ NetworkTypeOK' /\ EofKnown'
  <2>1. PICK st \in {"INORDER", "BUFFERING"} :
          /\ Manages(c, p, st)
          /\ Tracker(c, "BUFFERING", n, storePacketInBuffer(c, p))
          /\ Receive(p, IF st = "INORDER" THEN {SREJ(c, n)} ELSE {RR(c, n)})
          /\ UNCHANGED <<child, timeouts, file>>
    BY <1>10 DEF AheadOfExpected
  <2>2. NetworkTypeOK'
    BY <1>0, <2>1, AnswerType, ExchangeType
  <2>3. storePacketInBuffer(c, p) \in [0 .. (ServerWindow - 1) -> Slot]
    BY <1>1, StoredType
  <2>4. "BUFFERING" \in TrackerStates
    BY DEF TrackerStates
  <2>5. ReceiverTypeOK'
    BY <1>0, <1>1, <2>1, <2>3, <2>4, TrackerType DEF ReceiverTypeOK
  <2>6. EofKnown'
    BY <1>1, <2>1, ManagesEof DEF Tracker, EofKnown, ReceiverTypeOK
  <2> QED
    BY <2>2, <2>5, <2>6
<1>11. ASSUME NEW p \in net, BehindExpected(c, p)
       PROVE  ReceiverTypeOK' /\ NetworkTypeOK' /\ EofKnown'
  <2>1. PICK st \in {"INORDER", "BUFFERING"} :
          /\ Manages(c, p, st)
          /\ Tracker(c, st, n, buffer[c])
          /\ Receive(p, {RR(c, n)})
          /\ UNCHANGED <<child, timeouts, file>>
    BY <1>11 DEF BehindExpected
  <2>2. NetworkTypeOK'
    BY <1>0, <2>1, AnswerType, ExchangeType
  <2>3. st \in TrackerStates /\ buffer[c] \in [0 .. (ServerWindow - 1) -> Slot]
    BY DEF TrackerStates, ReceiverTypeOK
  <2>4. ReceiverTypeOK'
    BY <1>0, <1>1, <2>1, <2>3, TrackerType DEF ReceiverTypeOK
  <2>5. EofKnown'
    BY <1>1, <2>1, ManagesEof DEF Tracker, EofKnown, ReceiverTypeOK
  <2> QED
    BY <2>2, <2>4, <2>5
<1>12. ASSUME NEW p \in net, WriteFails(c, p)
       PROVE  ReceiverTypeOK' /\ NetworkTypeOK' /\ EofKnown'
  <2>1. PICK st \in {"INORDER", "BUFFERING"} : Manages(c, p, st)
    BY <1>12 DEF WriteFails
  <2>2. /\ Tracker(c, "BUFFER_DONE", n, buffer[c])
        /\ child' = [child EXCEPT ![c] = "DONE"]
        /\ Receive(p, {})
        /\ UNCHANGED <<timeouts, file>>
    BY <1>12 DEF WriteFails
  <2>3. NetworkTypeOK'
    BY <2>2, ExchangeType
  <2>4. "BUFFER_DONE" \in TrackerStates
        /\ buffer[c] \in [0 .. (ServerWindow - 1) -> Slot]
    BY DEF TrackerStates, ReceiverTypeOK
  <2>5. ReceiverTypeOK'
    BY <1>0, <1>1, <2>1, <2>2, <2>4, TrackerType DEF ReceiverTypeOK, ChildStates
  <2>6. EofKnown'
    BY <1>1, <2>1, <2>2, ManagesEof DEF Tracker, EofKnown, ReceiverTypeOK
  <2> QED
    BY <2>3, <2>5, <2>6
<1>13. ASSUME NEW p \in net, Flush(c, p)
       PROVE  ReceiverTypeOK' /\ NetworkTypeOK' /\ EofKnown'
  <2>1. /\ Manages(c, p, "FLUSHING")
        /\ child' = [child EXCEPT ![c] = "FLUSH"]
        /\ Receive(p, {})
        /\ UNCHANGED <<state, expectedSeqNum, buffer, timeouts, file>>
    BY <1>13 DEF Flush
  <2>2. NetworkTypeOK'
    BY <2>1, ExchangeType
  <2>3. eofReceived' \in [Children -> Nat \cup {-1}]
    BY <1>1, <2>1 DEF Manages, ReceiverTypeOK
  <2>4. ReceiverTypeOK'
    BY <2>1, <2>3 DEF Manages, ReceiverTypeOK, ChildStates
  <2>5. EofKnown'
    BY <1>1, <2>1, ManagesEof DEF EofKnown, ReceiverTypeOK
  <2> QED
    BY <2>2, <2>4, <2>5
<1>14. CASE FlushWrite(c)
  <2>1. PICK written \in OnDisk(buffer[c][n % ServerWindow].buff) :
          file' = [file EXCEPT ![n] = written]
    BY <1>14 DEF FlushWrite
  <2>2. written \in Contents
    BY <1>0, FlushedType
  <2>3. SlotCleared(c, n) \in [0 .. (ServerWindow - 1) -> Slot]
    BY <1>0, ClearedType
  <2>4. /\ Tracker(c, "FLUSHING", n + 1, SlotCleared(c, n))
        /\ UNCHANGED <<child, intact, fdOpen, eofReceived, timeouts, netVars>>
    BY <1>14 DEF FlushWrite
  <2>5. "FLUSHING" \in TrackerStates
    BY DEF TrackerStates
  <2>6. file' \in [1 .. (NumBlocks + 1) -> Contents]
    BY <2>1, <2>2 DEF ReceiverTypeOK
  <2> HIDE DEF n
  <2>7. ReceiverTypeOK'
    BY <1>0, <2>3, <2>4, <2>5, <2>6 DEF Tracker, ReceiverTypeOK
  <2> QED
    BY <2>4, <2>7 DEF Tracker, EofKnown, ReceiverTypeOK, NetworkTypeOK, netVars
<1>15. CASE FlushFails(c)
  <2>1. /\ Tracker(c, "BUFFER_DONE", n, buffer[c])
        /\ child' = [child EXCEPT ![c] = "DONE"]
        /\ UNCHANGED <<intact, fdOpen, eofReceived, timeouts, file, netVars>>
    BY <1>15 DEF FlushFails
  <2> QED
    BY <1>0, <2>1 DEF Tracker, EofKnown, ReceiverTypeOK, NetworkTypeOK, netVars,
                      ChildStates, TrackerStates
<1>16. CASE FlushEnds(c)
  <2>1. /\ Tracker(c, "INORDER", n, buffer[c])
        /\ child' = [child EXCEPT ![c] = "MANAGE_INCOMING_DATA"]
        /\ Send({RR(c, n)})
        /\ UNCHANGED <<intact, fdOpen, eofReceived, timeouts, file>>
    BY <1>16 DEF FlushEnds
  <2>2. NetworkTypeOK'
    BY <1>0, <2>1, AnswerType, ExchangeType
  <2> QED
    BY <1>0, <2>1, <2>2 DEF Tracker, EofKnown, ReceiverTypeOK, ChildStates, TrackerStates
<1>17. CASE FlushEndsAtEof(c)
  <2>1. /\ eofReceived[c] # -1
        /\ Tracker(c, "BUFFER_DONE", n, buffer[c])
        /\ child' = [child EXCEPT ![c] = "DONE"]
        /\ Send({EOFAck(c, eofReceived[c])})
        /\ UNCHANGED <<intact, fdOpen, eofReceived, timeouts, file>>
    BY <1>17 DEF FlushEndsAtEof
  <2>2. eofReceived[c] \in Nat
    BY <2>1 DEF ReceiverTypeOK
  <2>3. NetworkTypeOK'
    BY <2>1, <2>2, AnswerType, ExchangeType
  <2> QED
    BY <1>0, <2>1, <2>3 DEF Tracker, EofKnown, ReceiverTypeOK, ChildStates, TrackerStates
<1>18. ASSUME NEW p \in net, BadChecksum(c, p) \/ IgnoreOther(c, p)
       PROVE  ReceiverTypeOK' /\ NetworkTypeOK' /\ EofKnown'
  <2>1. NetworkTypeOK'
    BY <1>0, <1>18, AnswerType, ExchangeType DEF BadChecksum, IgnoreOther
  <2> QED
    BY <1>18, <2>1 DEF BadChecksum, IgnoreOther, receiverVars, ReceiverTypeOK,
                       EofKnown
<1>19. ASSUME NEW p \in net, EnterEofAckLoop(c, p)
       PROVE  ReceiverTypeOK' /\ NetworkTypeOK' /\ EofKnown'
  <2>1. Manages(c, p, "SEND_EOF_ACK")
    BY <1>19 DEF EnterEofAckLoop
  <2>2. eofReceived'[c] \in Nat
    BY <1>1, <2>1, ManagesEof DEF Manages, EofKnown
  <2>3. NetworkTypeOK'
    BY <1>19, <2>2, AnswerType, ExchangeType DEF EnterEofAckLoop
  <2>4. eofReceived' \in [Children -> Nat \cup {-1}]
    BY <1>1, <2>1 DEF Manages, ReceiverTypeOK
  <2>5. ReceiverTypeOK'
    BY <1>19, <2>1, <2>4 DEF EnterEofAckLoop, Manages, ReceiverTypeOK, ChildStates
  <2>6. EofKnown'
    BY <1>1, <1>19, <2>1, <2>2, ManagesEof
    DEF EnterEofAckLoop, EofKnown, ReceiverTypeOK
  <2> QED
    BY <2>3, <2>5, <2>6
<1>20. ASSUME NEW p \in net, EofLoopAnswer(c, p)
       PROVE  ReceiverTypeOK' /\ NetworkTypeOK' /\ EofKnown'
  <2>1. eofReceived[c] \in Nat
    BY <1>20 DEF EofLoopAnswer, EofKnown
  <2>2. NetworkTypeOK'
    BY <1>20, <2>1, AnswerType, ExchangeType DEF EofLoopAnswer
  <2> QED
    BY <1>20, <2>2 DEF EofLoopAnswer, receiverVars, ReceiverTypeOK, EofKnown
<1> QED
  BY <1>2, <1>3, <1>4, <1>5, <1>6, <1>7, <1>8, <1>9, <1>10, <1>11, <1>12, <1>13,
     <1>14, <1>15, <1>16, <1>17, <1>18, <1>19, <1>20
  DEF ChildStep, ChildRun, ChildReceive

-----------------------------------------------------------------------------
(* The system *)

LEMMA InitType == Init => TypeOK /\ EofKnown
<1> SUFFICES ASSUME Init PROVE TypeOK /\ EofKnown
  OBVIOUS
<1> USE Constants
<1>1. NetworkTypeOK
  BY DEF Init, InitNetwork, NetworkTypeOK
<1>2. SenderTypeOK
  BY EmptyBufferType DEF Init, InitSender, SenderTypeOK, States, Addresses
<1>3. ReceiverTypeOK
  BY EmptyBufferType, EmptyFileType
  DEF Init, InitReceiver, ReceiverTypeOK, ChildStates, TrackerStates
<1>4. EofKnown
  BY DEF Init, InitReceiver, EofKnown
<1> QED
  BY <1>1, <1>2, <1>3, <1>4 DEF TypeOK

LEMMA NextType == TypeOK /\ EofKnown /\ [Next]_vars => TypeOK' /\ EofKnown'
<1> SUFFICES ASSUME TypeOK, EofKnown, [Next]_vars
             PROVE  TypeOK' /\ EofKnown'
  OBVIOUS
<1>1. CASE RcopyStep
  <2>1. ReceiverTypeOK' /\ EofKnown'
    BY <1>1 DEF RcopyStep, receiverVars, TypeOK, ReceiverTypeOK, EofKnown
  <2> QED
    BY <1>1, <2>1, RcopyStepType DEF TypeOK
<1>2. ASSUME NEW c \in Children, ChildStep(c)
      PROVE  TypeOK' /\ EofKnown'
  <2>1. SenderTypeOK'
    BY <1>2 DEF ChildStep, senderVars, TypeOK, SenderTypeOK
  <2> QED
    BY <1>2, <2>1, ChildStepType DEF TypeOK
<1>3. CASE Discard \/ Drop
  <2>1. NetworkTypeOK'
    BY <1>3 DEF Discard, Drop, Lose, TypeOK, NetworkTypeOK
  <2>2. UNCHANGED <<senderVars, receiverVars>>
    BY <1>3 DEF Discard, Drop
  <2>3. SenderTypeOK'
    BY <2>2 DEF senderVars, TypeOK, SenderTypeOK
  <2>4. ReceiverTypeOK' /\ EofKnown'
    BY <2>2 DEF receiverVars, TypeOK, ReceiverTypeOK, EofKnown
  <2> QED
    BY <2>1, <2>3, <2>4 DEF TypeOK
<1>4. CASE UNCHANGED vars
  BY <1>4 DEF vars, netVars, senderVars, receiverVars, TypeOK, NetworkTypeOK,
              SenderTypeOK, ReceiverTypeOK, EofKnown
<1> QED
  BY <1>1, <1>2, <1>3, <1>4 DEF Next

\* Every variable has its type at all times.  The type invariant alone is not
\* inductive: a child answers with tracker.eofSeqNum, which starts as -1, so
\* EofKnown is carried along.
THEOREM TypeCorrect == Spec => []TypeOK
<1>1. Spec => [](TypeOK /\ EofKnown)
  BY InitType, NextType, PTL DEF Spec
<1> QED
  BY <1>1, PTL

=============================================================================
