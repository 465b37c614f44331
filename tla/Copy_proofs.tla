----------------------------- MODULE Copy_proofs -----------------------------
(***************************************************************************)
(* The copy itself, while no more than one child has opened the output     *)
(* file: CopyInv is an invariant, with any number of children forked; what *)
(* follows from it; and the transfer implements FileCopy.                  *)
(***************************************************************************)
EXTENDS Transfer_proofs, Opened_proofs, FiniteSetTheorems

\* What is known of a transfer: the copy rests on all of it.
KnownInv == TypeOK /\ EofKnown /\ TransferInv /\ OpenedInv

-----------------------------------------------------------------------------
(* rcopy *)

\* rcopy slides its window to a number some RR names.
LEMMA RcopyFollows ==
  ASSUME RcopyStep
  PROVE  \/ lower' = lower
         \/ \E p \in net : p.flag = "RR_PACKET" /\ lower' = p.seq
<1> DEFINE Follows == \/ lower' = lower
                      \/ \E p \in net : p.flag = "RR_PACKET" /\ lower' = p.seq
<1>1. ASSUME NEW p \in net, NEW out, processRRorSREJ(p, out)
      PROVE  Follows
  BY <1>1 DEF processRRorSREJ, processRRpacket, LowerAfter
<1>2. ASSUME NEW p \in net, PollAck(p) \/ WaitAck(p) \/ EofAcked(p) \/ EofNotAcked(p)
      PROVE  Follows
  <2>1. PICK out : processRRorSREJ(p, out)
    BY <1>2, Zenon DEF PollAck, WaitAck, EofAcked, EofNotAcked
  <2> QED
    BY <1>1, <2>1
<1>3. ASSUME NEW p \in net, SetupAnswer(p) \/ SetupAnswerFlipped(p) \/ DropFlipped(p)
      PROVE  Follows
  BY <1>3, Zenon DEF SetupAnswer, SetupAnswerFlipped, SetupAnswered, DropFlipped,
                     windowVars
<1>4. CASE SenderRun
  BY <1>4, Zenon DEF SenderRun, SendSetup, SetupGiveUp, FileOk, SendBlock, ReadEof,
                     ReadError, WindowShut, AckGiveUp, EofGiveUp, windowVars
<1>5. CASE SenderTimeout
  BY <1>5, Zenon DEF SenderTimeout, SetupTimeout, AckTimeout, EofTimeout, windowVars
<1> QED
  BY <1>2, <1>3, <1>4, <1>5 DEF RcopyStep, SenderReceive

\* rcopy reports completion as its last act, on an EOF_ACK.
LEMMA RcopyReports ==
  ASSUME RcopyStep
  PROVE  /\ NS # "DONE"
         /\ \/ complete' = complete
            \/ /\ complete' = TRUE /\ NS' = "DONE"
               /\ \E p \in net : p.flag = "EOF_ACK"
<1> DEFINE Silent == NS # "DONE" /\ complete' = complete
<1>1. CASE \E p \in net : EofAcked(p)
  BY <1>1 DEF EofAcked
<1>2. CASE \E p \in net : SetupAnswer(p) \/ SetupAnswerFlipped(p)
  <2>1. NS = "FILENAME" /\ complete' = complete
    BY <1>2, Zenon DEF SetupAnswer, SetupAnswerFlipped, SetupAnswered
  <2> QED
    BY <2>1
<1>3. CASE \E p \in net : PollAck(p) \/ WaitAck(p) \/ EofNotAcked(p) \/ DropFlipped(p)
  <2>1. NS \in {"SEND_DATA", "WAIT_ON_ACK", "WAIT_ON_EOF_ACK"} /\ complete' = complete
    BY <1>3 DEF PollAck, WaitAck, EofNotAcked, DropFlipped
  <2> QED
    BY <2>1
<1>4. CASE SenderRun
  BY <1>4 DEF SenderRun, SendSetup, SetupGiveUp, FileOk, SendBlock, ReadEof,
              ReadError, WindowShut, AckGiveUp, EofGiveUp
<1>5. CASE SenderTimeout
  BY <1>5 DEF SenderTimeout, SetupTimeout, AckTimeout, EofTimeout
<1> QED
  BY <1>1, <1>2, <1>3, <1>4, <1>5 DEF RcopyStep, SenderReceive

\* rcopy does not get ahead of the child it copies to.
LEMMA RcopyReached ==
  ASSUME KnownInv, RcopyStep, NEW e \in Nat, Reached(e),
         \A p \in net : p.flag = "EOF_ACK" => e = NumBlocks + 2
  PROVE  Reached(e)'
<1>1. file' = file
  BY DEF RcopyStep, receiverVars
<1>2. lower' <= e
  BY RcopyFollows DEF Reached
<1>3. ASSUME NEW q \in net', q.flag = "RR_PACKET" PROVE q.seq <= e
  <2>1. q \in net
    BY <1>3, RcopySends DEF KnownInv
  <2> QED
    BY <1>3, <2>1 DEF Reached
<1>4. complete' => e = NumBlocks + 2 /\ NS' = "DONE"
  BY RcopyReports DEF Reached
<1> QED
  BY <1>1, <1>2, <1>3, <1>4 DEF Reached, Beginning

LEMMA RcopyStepCopy ==
  ASSUME KnownInv, CopyInv, RcopyStep
  PROVE  CopyInv'
<1>1. UNCHANGED <<child, fdOpen, expectedSeqNum, buffer>>
  BY DEF RcopyStep, receiverVars
<1>2. ASSUME NEW p \in net, p.flag = "EOF_ACK"
      PROVE  /\ p.src \in Children /\ fdOpen[p.src]
             /\ expectedSeqNum[p.src] = NumBlocks + 2
  BY <1>2 DEF KnownInv, TransferInv, DatagramOK, OpenedInv, Opened
<1>3. FreshUntilOpened'
  BY <1>1 DEF CopyInv, FreshUntilOpened
<1>4. ASSUME \A c \in Children : ~fdOpen[c] PROVE Reached(1)'
  BY <1>2, <1>4, RcopyReached DEF CopyInv
<1>5. ASSUME OneWriter, NEW c \in Children, fdOpen[c]
      PROVE  Reached(expectedSeqNum[c])'
  <2>1. ASSUME NEW e \in {expectedSeqNum[c]} PROVE Reached(e)'
    <3>1. e \in Nat /\ Reached(e)
      BY <1>5, <2>1 DEF KnownInv, TypeOK, ReceiverTypeOK, CopyInv
    <3>2. \A p \in net : p.flag = "EOF_ACK" => e = NumBlocks + 2
      BY <1>2, <1>5, <2>1 DEF OneWriter
    <3> QED
      BY <3>1, <3>2, RcopyReached
  <2> QED
    BY <1>1, <2>1 DEF Reached, Beginning
<1>6. BufferedIsPending => BufferedIsPending'
  BY <1>1 DEF BufferedIsPending
<1> QED
  BY <1>1, <1>3, <1>4, <1>5, <1>6 DEF CopyInv, OneWriter

-----------------------------------------------------------------------------
(* What a child does to the file and to its slots *)

\* BufferedIsPending of one child.
SlotsPending(c) ==
  \A i \in DOMAIN buffer[c] :
    LET slot == buffer[c][i]
        n    == slot.sequenceNumber
    IN  slot.validFlag = 1 => /\ n \in expectedSeqNum[c] .. NumBlocks
                              /\ i = n % ServerWindow
                              /\ slot.buff = Source[n]

\* Writing the expected block makes the beginning one block longer; the EOF packet
\* adds nothing to it.
LEMMA BeginningGrows ==
  /\ \A n \in 1 .. NumBlocks :
       [Beginning(n) EXCEPT ![n] = Source[n]] = Beginning(n + 1)
  /\ Beginning(NumBlocks + 1) = Beginning(NumBlocks + 2)
<1>1. NumBlocks \in Nat
  BY Constants
<1>2. ASSUME NEW n \in 1 .. NumBlocks
      PROVE  [Beginning(n) EXCEPT ![n] = Source[n]] = Beginning(n + 1)
  <2>1. \A i \in 1 .. (NumBlocks + 1) : i # n => (i < n <=> i < n + 1)
    BY <1>1
  <2>2. n < n + 1 /\ n <= NumBlocks
    BY <1>1
  <2> QED
    BY <2>1, <2>2 DEF Beginning
<1>3. \A i \in 1 .. (NumBlocks + 1) :
        (i < NumBlocks + 1 /\ i <= NumBlocks) <=> (i < NumBlocks + 2 /\ i <= NumBlocks)
  BY <1>1
<1>4. Beginning(NumBlocks + 1) = Beginning(NumBlocks + 2)
  BY <1>3, Zenon DEF Beginning
<1> QED
  BY <1>2, <1>4

\* The slot of a packet that was counted is free, the others hold later ones.
LEMMA SlotsAdvance ==
  ASSUME TypeOK, NEW c \in Children, SlotsPending(c),
         expectedSeqNum'[c] = expectedSeqNum[c] + 1,
         buffer'[c] = SlotCleared(c, expectedSeqNum[c])
  PROVE  SlotsPending(c)'
<1> DEFINE n == expectedSeqNum[c]
           e == expectedSeqNum'[c]
<1>1. n \in Nat /\ e = n + 1 /\ NumBlocks \in Nat
  BY Constants DEF TypeOK, ReceiverTypeOK
<1>2. buffer[c] \in [0 .. (ServerWindow - 1) -> Slot]
  BY DEF TypeOK, ReceiverTypeOK
<1>3. ASSUME NEW i \in DOMAIN buffer'[c], buffer'[c][i].validFlag = 1
      PROVE  /\ i \in DOMAIN buffer[c] /\ i # n % ServerWindow
             /\ buffer'[c][i] = buffer[c][i]
  BY <1>2, <1>3 DEF SlotCleared, Slot
<1>4. ASSUME NEW i \in DOMAIN buffer'[c], buffer'[c][i].validFlag = 1
      PROVE  LET m == buffer'[c][i].sequenceNumber
             IN  /\ m \in e .. NumBlocks /\ i = m % ServerWindow
                 /\ buffer'[c][i].buff = Source[m]
  <2> DEFINE slot == buffer[c][i]
             m    == slot.sequenceNumber
  <2>1. i \in DOMAIN buffer[c] /\ i # n % ServerWindow /\ buffer'[c][i] = slot
    BY <1>3, <1>4
  <2>2. slot.validFlag = 1
    BY <1>4, <2>1
  <2>3. m \in n .. NumBlocks /\ i = m % ServerWindow /\ slot.buff = Source[m]
    BY <2>1, <2>2 DEF SlotsPending
  <2> HIDE DEF n, e, slot
  <2>4. m # n
    BY <2>1, <2>3
  <2>5. m \in e .. NumBlocks
    BY <1>1, <2>3, <2>4
  <2> QED
    BY <2>1, <2>3, <2>5
<1> QED
  BY <1>4 DEF SlotsPending

\* A block that is ahead of the expected one is kept under its number.
LEMMA SlotsStored ==
  ASSUME TypeOK, NEW c \in Children, SlotsPending(c),
         NEW p \in net, p.seq \in expectedSeqNum[c] .. NumBlocks,
         p.data = Source[p.seq],
         expectedSeqNum'[c] = expectedSeqNum[c],
         buffer'[c] = storePacketInBuffer(c, p)
  PROVE  SlotsPending(c)'
<1> DEFINE new == [sequenceNumber |-> p.seq, validFlag |-> 1, buff |-> p.data]
<1>1. buffer[c] \in [0 .. (ServerWindow - 1) -> Slot]
  BY DEF TypeOK, ReceiverTypeOK
<1>2. /\ DOMAIN buffer'[c] = DOMAIN buffer[c]
      /\ \A i \in DOMAIN buffer[c] :
           buffer'[c][i] = IF i = p.seq % ServerWindow THEN new ELSE buffer[c][i]
  BY <1>1 DEF storePacketInBuffer
<1>3. /\ new.sequenceNumber = p.seq /\ new.validFlag = 1 /\ new.buff = p.data
  OBVIOUS
<1> HIDE DEF new
<1> QED
  BY <1>2, <1>3 DEF SlotsPending

\* What a step of the child that has the file leaves true.
LEMMA ChildReached ==
  ASSUME KnownInv, UNCHANGED senderVars, NEW c \in Children,
         Reached(expectedSeqNum[c]),
         \/ expectedSeqNum'[c] = expectedSeqNum[c] /\ file' = file
         \/ /\ expectedSeqNum[c] <= NumBlocks + 1
            /\ expectedSeqNum'[c] = expectedSeqNum[c] + 1
            /\ WholeWrites => file' = Beginning(expectedSeqNum'[c]),
         \A q \in net' : q \in net \/ (q.flag = "RR_PACKET" => q.seq <= expectedSeqNum'[c])
  PROVE  Reached(expectedSeqNum[c])'
<1> DEFINE n == expectedSeqNum[c]
           e == expectedSeqNum'[c]
<1>1. n \in Nat /\ NumBlocks \in Nat /\ lower \in Nat
  BY Constants DEF KnownInv, TypeOK, ReceiverTypeOK, SenderTypeOK
<1>2. lower' = lower /\ complete' = complete /\ NS' = NS
  BY DEF senderVars
<1>3. /\ WholeWrites => file = Beginning(n)
      /\ lower <= n
      /\ complete => n = NumBlocks + 2 /\ NS = "DONE"
  BY DEF Reached
<1>4. e = n \/ (e = n + 1 /\ n <= NumBlocks + 1)
  OBVIOUS
<1>5. WholeWrites => file' = Beginning(e)
  BY <1>3
<1>6. ASSUME NEW q \in net', q.flag = "RR_PACKET" PROVE q.seq <= e
  <2>1. CASE q \in net
    <3>1. q.seq <= n /\ q.seq \in Nat
      BY <1>6, <2>1 DEF Reached, KnownInv, TypeOK, NetworkTypeOK, PDU
    <3> HIDE DEF n, e
    <3> QED
      BY <1>1, <1>4, <3>1
  <2> QED
    BY <1>6, <2>1
<1>7. lower <= e /\ (complete => e = NumBlocks + 2)
  <2> HIDE DEF n, e
  <2> QED
    BY <1>1, <1>3, <1>4
<1> QED
  BY <1>2, <1>3, <1>5, <1>6, <1>7 DEF Reached, Beginning

\* CopyInv after a step of a child that has the file.
LEMMA OpenedChildCopy ==
  ASSUME KnownInv, CopyInv, UNCHANGED senderVars, UNCHANGED fdOpen,
         NEW c \in Children, fdOpen[c], child'[c] \notin {"none", "ACCEPT_FILENAME"},
         \A d \in Children \ {c} : child'[d] = child[d] /\ buffer'[d] = buffer[d],
         OneWriter => Reached(expectedSeqNum[c])' /\ SlotsPending(c)'
  PROVE  CopyInv'
<1>1. FreshUntilOpened'
  BY DEF CopyInv, FreshUntilOpened
<1>2. ASSUME OneWriter, NEW d \in Children, fdOpen[d]
      PROVE  Reached(expectedSeqNum[d])'
  BY <1>2 DEF OneWriter
<1>3. ASSUME OneWriter, NEW d \in Children PROVE SlotsPending(d)'
  <2>1. CASE d = c
    BY <1>3, <2>1
  <2>2. CASE d # c
    <3>1. ~fdOpen'[d]
      BY <1>3, <2>2 DEF OneWriter
    <3> QED
      BY <1>1, <3>1 DEF FreshUntilOpened, SlotsPending
  <2> QED
    BY <2>1, <2>2
<1>4. OneWriter => BufferedIsPending'
  BY <1>3 DEF BufferedIsPending, SlotsPending
<1> QED
  BY <1>1, <1>2, <1>4 DEF CopyInv, OneWriter

-----------------------------------------------------------------------------
(* The steps of a child *)

NotYet == {"none", "ACCEPT_FILENAME"}

\* A child changes what is its own; it never goes back, neither in the file nor to
\* the time before it opened it.
LEMMA ChildMoves ==
  ASSUME TypeOK, NEW c \in Children, ChildStep(c)
  PROVE  /\ UNCHANGED senderVars
         /\ \A d \in Children \ {c} :
              /\ child'[d] = child[d] /\ fdOpen'[d] = fdOpen[d]
              /\ expectedSeqNum'[d] = expectedSeqNum[d] /\ buffer'[d] = buffer[d]
         /\ expectedSeqNum[c] <= expectedSeqNum'[c]
         /\ fdOpen[c] => fdOpen'[c]
         /\ child[c] \notin NotYet => child'[c] \notin NotYet
<1> DEFINE n == expectedSeqNum[c]
<1>1. /\ child \in [Children -> ChildStates] /\ fdOpen \in [Children -> BOOLEAN]
      /\ expectedSeqNum \in [Children -> Nat] /\ n \in Nat
      /\ buffer \in [Children -> [0 .. (ServerWindow - 1) -> Slot]]
  BY DEF TypeOK, ReceiverTypeOK
<1>2. UNCHANGED senderVars
  BY Zenon DEF ChildStep
<1> DEFINE Child == \/ child' = child
                    \/ \E next \in ChildStates \ NotYet : child' = [child EXCEPT ![c] = next]
                    \/ child[c] = "none" /\ child' = [child EXCEPT ![c] = "ACCEPT_FILENAME"]
           Opens == fdOpen' = fdOpen \/ fdOpen' = [fdOpen EXCEPT ![c] = TRUE]
           Tracks == \/ expectedSeqNum' = expectedSeqNum /\ buffer' = buffer
                     \/ \E next, slots : Tracker(c, next, n, slots)
                     \/ \E next, slots : Tracker(c, next, n + 1, slots)
<1>3. Child /\ Opens /\ Tracks
  <2>1. CASE \E p \in net : ForkIntact(c, p) \/ ForkFlipped(c, p)
    BY <2>1 DEF ForkIntact, ForkFlipped, Fork, trackerVars
  <2>2. CASE \E p \in net : \/ ExpectedData(c, p) \/ ExpectedEof(c, p)
                            \/ AheadOfExpected(c, p) \/ BehindExpected(c, p)
    <3>1. child' = child /\ fdOpen' = fdOpen
      BY <2>2 DEF ExpectedData, ExpectedEof, AheadOfExpected, BehindExpected, Manages
    <3>2. Tracks
      BY <2>2, Zenon DEF ExpectedData, ExpectedEof, AheadOfExpected, BehindExpected
    <3> QED
      BY <3>1, <3>2
  <2>3. CASE (\E p \in net : WriteFails(c, p)) \/ FlushFails(c) \/ FlushEnds(c)
             \/ FlushEndsAtEof(c)
    <3>1. fdOpen' = fdOpen /\ \E next \in {"DONE", "MANAGE_INCOMING_DATA"} :
                                child' = [child EXCEPT ![c] = next]
      BY <2>3 DEF WriteFails, FlushFails, FlushEnds, FlushEndsAtEof, Manages
    <3>2. Tracks
      BY <2>3, Zenon DEF WriteFails, FlushFails, FlushEnds, FlushEndsAtEof
    <3> QED
      BY <3>1, <3>2 DEF NotYet, ChildStates
  <2>4. CASE FlushWrite(c)
    BY <2>4 DEF FlushWrite
  <2>5. CASE \E p \in net : \/ Flush(c, p) \/ BadChecksum(c, p) \/ IgnoreOther(c, p)
                            \/ EnterEofAckLoop(c, p) \/ EofLoopAnswer(c, p)
    BY <2>5 DEF Flush, BadChecksum, IgnoreOther, EnterEofAckLoop, EofLoopAnswer, Manages,
                receiverVars, trackerVars, NotYet, ChildStates
  <2>6. CASE RejectSetup(c) \/ OpenFails(c) \/ EofLoopTimeout(c) \/ EofLoopDone(c)
    BY <2>6 DEF RejectSetup, OpenFails, EofLoopTimeout, EofLoopDone, trackerVars, NotYet,
                ChildStates
  <2>7. CASE AcceptSetup(c)
    BY <2>7 DEF AcceptSetup, trackerVars, NotYet, ChildStates
  <2> QED
    BY <2>1, <2>2, <2>3, <2>4, <2>5, <2>6, <2>7 DEF ChildStep, ChildRun, ChildReceive
<1>4. /\ \A d \in Children \ {c} : child'[d] = child[d]
      /\ child[c] \notin NotYet => child'[c] \notin NotYet
  BY <1>1, <1>3 DEF NotYet
<1>5. /\ \A d \in Children \ {c} : fdOpen'[d] = fdOpen[d]
      /\ fdOpen[c] => fdOpen'[c]
  BY <1>1, <1>3, Zenon
<1>6. /\ \A d \in Children \ {c} :
           expectedSeqNum'[d] = expectedSeqNum[d] /\ buffer'[d] = buffer[d]
      /\ expectedSeqNum'[c] \in {n, n + 1}
  BY <1>1, <1>3 DEF Tracker
<1>7. n <= expectedSeqNum'[c]
  BY <1>1, <1>6
<1> QED
  BY <1>2, <1>4, <1>5, <1>6, <1>7

\* CopyInv after a step in which the child that has the file receives nothing new.
LEMMA QuietChildCopy ==
  ASSUME KnownInv, CopyInv, NEW c \in Children, ChildStep(c),
         fdOpen[c], UNCHANGED <<fdOpen, file>>,
         expectedSeqNum'[c] = expectedSeqNum[c], buffer'[c] = buffer[c],
         \A q \in net' : q \in net \/ (q.flag = "RR_PACKET" => q.seq <= expectedSeqNum[c])
  PROVE  CopyInv'
<1>1. /\ UNCHANGED senderVars
      /\ \A d \in Children \ {c} : child'[d] = child[d] /\ buffer'[d] = buffer[d]
      /\ child'[c] \notin {"none", "ACCEPT_FILENAME"}
  BY ChildMoves DEF KnownInv, CopyInv, FreshUntilOpened, NotYet
<1>2. ASSUME OneWriter PROVE Reached(expectedSeqNum[c])' /\ SlotsPending(c)'
  <2>1. Reached(expectedSeqNum[c]) /\ SlotsPending(c)
    BY <1>2 DEF CopyInv, BufferedIsPending, SlotsPending
  <2>2. Reached(expectedSeqNum[c])'
    BY <1>1, <2>1, ChildReached
  <2>3. SlotsPending(c)'
    BY <2>1 DEF SlotsPending
  <2> QED
    BY <2>2, <2>3
<1> QED
  BY <1>1, <1>2, OpenedChildCopy

LEMMA AnswerFields ==
  ASSUME NEW c, NEW n
  PROVE  /\ RR(c, n).flag = "RR_PACKET" /\ RR(c, n).seq = n
         /\ SREJ(c, n).flag # "RR_PACKET" /\ EOFAck(c, n).flag # "RR_PACKET"
BY DEF RR, SREJ, EOFAck, createPDU

\* The expected block is written and acknowledged, or counted until the next flush.
LEMMA ExpectedDataCopy ==
  ASSUME KnownInv, CopyInv, NEW c \in Children, ChildStep(c),
         NEW p \in net, ExpectedData(c, p)
  PROVE  CopyInv'
<1> DEFINE n == expectedSeqNum[c]
<1> USE Constants
<1>1. PICK st \in {"INORDER", "BUFFERING"}, written \in OnDisk(p.data) :
        /\ Manages(c, p, st) /\ p.flag = "DATA_PKT" /\ p.seq = n
        /\ file' = [file EXCEPT ![n] = written]
        /\ Tracker(c, IF st = "INORDER" THEN "INORDER" ELSE "FLUSHING", n + 1,
                   SlotCleared(c, n))
        /\ Receive(p, IF st = "INORDER" THEN {RR(c, n + 1)} ELSE {})
  BY DEF ExpectedData
<1>2. p.dst = c /\ fdOpen' = fdOpen
  BY <1>1 DEF Manages
<1>3. fdOpen[c]
  BY <1>2 DEF KnownInv, OpenedInv, Opened
<1>4. n \in 1 .. NumBlocks /\ p.data = Source[n]
  <2>1. p.seq \in 1 .. sequenceNum /\ p.data = Source[p.seq]
    BY <1>1, ManagedPacket DEF KnownInv
  <2> QED
    BY <1>1, <2>1 DEF KnownInv, TransferInv, WindowInv
<1>5. expectedSeqNum'[c] = n + 1 /\ buffer'[c] = SlotCleared(c, n)
  BY <1>1 DEF Tracker, KnownInv, TypeOK, ReceiverTypeOK
<1>6. ASSUME NEW q \in net', q \notin net PROVE q.seq = expectedSeqNum'[c]
  <2>1. q \in {RR(c, n + 1)}
    BY <1>1, <1>6 DEF Receive, Exchange
  <2> QED
    BY <1>5, <2>1, AnswerFields
<1>7. /\ UNCHANGED senderVars
      /\ \A d \in Children \ {c} : child'[d] = child[d] /\ buffer'[d] = buffer[d]
      /\ child'[c] \notin {"none", "ACCEPT_FILENAME"}
  BY <1>3, ChildMoves DEF KnownInv, CopyInv, FreshUntilOpened, NotYet
<1>8. ASSUME OneWriter PROVE Reached(expectedSeqNum[c])' /\ SlotsPending(c)'
  <2>1. Reached(n) /\ SlotsPending(c)
    BY <1>3, <1>8 DEF CopyInv, BufferedIsPending, SlotsPending
  <2>2. WholeWrites => file' = Beginning(n + 1)
    BY <1>1, <1>4, <2>1, BeginningGrows DEF OnDisk, WholeWrites, Reached
  <2>3. n <= NumBlocks + 1 /\ n + 1 \in Nat
    BY <1>4
  <2>4. \A q \in net' : q \in net \/ q.seq <= expectedSeqNum'[c]
    BY <1>5, <1>6, <2>3
  <2>5. Reached(expectedSeqNum[c])'
    BY <1>5, <1>7, <2>1, <2>2, <2>3, <2>4, ChildReached
  <2>6. SlotsPending(c)'
    BY <1>5, <2>1, SlotsAdvance DEF KnownInv
  <2> QED
    BY <2>5, <2>6
<1> QED
  BY <1>2, <1>3, <1>7, <1>8, OpenedChildCopy

\* A packet that was buffered is written in its turn.  It is a block: the EOF packet
\* is sent when rcopy has every RR, so it is never ahead of the expected packet.
LEMMA FlushWriteCopy ==
  ASSUME KnownInv, CopyInv, NEW c \in Children, ChildStep(c), FlushWrite(c)
  PROVE  CopyInv'
<1> DEFINE n == expectedSeqNum[c]
           data == buffer[c][n % ServerWindow].buff
<1> USE Constants
<1>1. PICK written \in OnDisk(data) :
        /\ child[c] = "FLUSH" /\ checkIfBuffered(c, n)
        /\ file' = [file EXCEPT ![n] = written]
        /\ Tracker(c, "FLUSHING", n + 1, SlotCleared(c, n))
        /\ fdOpen' = fdOpen /\ net' = net
  BY DEF FlushWrite, netVars
<1>2. fdOpen[c]
  BY <1>1 DEF KnownInv, OpenedInv, FlushingOpened
<1>3. expectedSeqNum'[c] = n + 1 /\ buffer'[c] = SlotCleared(c, n)
  BY <1>1 DEF Tracker, KnownInv, TypeOK, ReceiverTypeOK
<1>4. /\ UNCHANGED senderVars
      /\ \A d \in Children \ {c} : child'[d] = child[d] /\ buffer'[d] = buffer[d]
      /\ child'[c] \notin {"none", "ACCEPT_FILENAME"}
  BY <1>2, ChildMoves DEF KnownInv, CopyInv, FreshUntilOpened, NotYet
<1>5. ASSUME OneWriter PROVE Reached(expectedSeqNum[c])' /\ SlotsPending(c)'
  <2>1. Reached(n) /\ SlotsPending(c)
    BY <1>2, <1>5 DEF CopyInv, BufferedIsPending, SlotsPending
  <2>2. n \in Nat /\ n % ServerWindow \in DOMAIN buffer[c] /\ n >= 1
    BY SlotIndex DEF KnownInv, TypeOK, ReceiverTypeOK, TransferInv, ChildInv
  <2>3. n \in n .. NumBlocks /\ data = Source[n]
    BY <1>1, <2>1, <2>2 DEF SlotsPending, checkIfBuffered
  <2>4. n \in 1 .. NumBlocks
    BY <2>2, <2>3
  <2> HIDE DEF data
  <2>5. WholeWrites => file' = Beginning(n + 1)
    BY <1>1, <2>1, <2>3, <2>4, BeginningGrows DEF OnDisk, WholeWrites, Reached
  <2>6. n <= NumBlocks + 1
    BY <2>4
  <2>7. Reached(expectedSeqNum[c])'
    BY <1>1, <1>3, <1>4, <2>1, <2>5, <2>6, ChildReached
  <2>8. SlotsPending(c)'
    BY <1>3, <2>1, SlotsAdvance DEF KnownInv
  <2> QED
    BY <2>7, <2>8
<1> QED
  BY <1>1, <1>2, <1>4, <1>5, OpenedChildCopy

\* The EOF packet is counted when every block has been, and no slot is in use.
LEMMA ExpectedEofCopy ==
  ASSUME KnownInv, CopyInv, NEW c \in Children, ChildStep(c),
         NEW p \in net, ExpectedEof(c, p)
  PROVE  CopyInv'
<1> DEFINE n == expectedSeqNum[c]
<1> USE Constants
<1>1. PICK st \in {"INORDER", "BUFFERING"} :
        /\ Manages(c, p, st) /\ p.flag = "EOF_FLAG" /\ p.seq = n
        /\ file' = file
        /\ Tracker(c, "SEND_EOF_ACK", n + 1, buffer[c])
        /\ Receive(p, {EOFAck(c, n)})
  BY DEF ExpectedEof
<1>2. p.dst = c /\ fdOpen' = fdOpen
  BY <1>1 DEF Manages
<1>3. fdOpen[c]
  BY <1>2 DEF KnownInv, OpenedInv, Opened
<1>4. n = NumBlocks + 1
  BY <1>1, ManagedPacket DEF KnownInv
<1>5. expectedSeqNum'[c] = n + 1 /\ buffer'[c] = buffer[c]
  BY <1>1 DEF Tracker, KnownInv, TypeOK, ReceiverTypeOK
<1>6. ASSUME NEW q \in net', q \notin net PROVE q.flag # "RR_PACKET"
  <2>1. q \in {EOFAck(c, n)}
    BY <1>1, <1>6 DEF Receive, Exchange
  <2> QED
    BY <2>1, AnswerFields
<1>7. /\ UNCHANGED senderVars
      /\ \A d \in Children \ {c} : child'[d] = child[d] /\ buffer'[d] = buffer[d]
      /\ child'[c] \notin {"none", "ACCEPT_FILENAME"}
  BY <1>3, ChildMoves DEF KnownInv, CopyInv, FreshUntilOpened, NotYet
<1>8. ASSUME OneWriter PROVE Reached(expectedSeqNum[c])' /\ SlotsPending(c)'
  <2>1. Reached(n) /\ SlotsPending(c)
    BY <1>3, <1>8 DEF CopyInv, BufferedIsPending, SlotsPending
  <2>2. WholeWrites => file' = Beginning(n + 1)
    <3>1. n + 1 = NumBlocks + 2
      BY <1>4
    <3> QED
      BY <1>1, <1>4, <2>1, <3>1, BeginningGrows DEF Reached
  <2>3. Reached(expectedSeqNum[c])'
    BY <1>4, <1>5, <1>6, <1>7, <2>1, <2>2, ChildReached
  <2>4. n .. NumBlocks = {}
    BY <1>4
  <2>5. SlotsPending(c)'
    BY <1>5, <2>1, <2>4 DEF SlotsPending
  <2> QED
    BY <2>3, <2>5
<1> QED
  BY <1>2, <1>3, <1>7, <1>8, OpenedChildCopy

\* Only a block can be ahead of the expected packet, and it is kept until its turn.
LEMMA AheadOfExpectedCopy ==
  ASSUME KnownInv, CopyInv, NEW c \in Children, ChildStep(c),
         NEW p \in net, AheadOfExpected(c, p)
  PROVE  CopyInv'
<1> DEFINE n == expectedSeqNum[c]
<1> USE Constants
<1>1. PICK st \in {"INORDER", "BUFFERING"} :
        /\ Manages(c, p, st) /\ p.seq > n /\ file' = file
        /\ Tracker(c, "BUFFERING", n, storePacketInBuffer(c, p))
        /\ Receive(p, IF st = "INORDER" THEN {SREJ(c, n)} ELSE {RR(c, n)})
  BY DEF AheadOfExpected
<1>2. p.dst = c /\ fdOpen' = fdOpen
  BY <1>1 DEF Manages
<1>3. fdOpen[c]
  BY <1>2 DEF KnownInv, OpenedInv, Opened
<1>4. expectedSeqNum'[c] = n /\ buffer'[c] = storePacketInBuffer(c, p)
  BY <1>1 DEF Tracker, KnownInv, TypeOK, ReceiverTypeOK
<1>5. n \in Nat
  BY DEF KnownInv, TypeOK, ReceiverTypeOK
<1>6. ASSUME NEW q \in net', q \notin net, q.flag = "RR_PACKET"
      PROVE  q.seq <= expectedSeqNum'[c]
  <2>1. q \in {SREJ(c, n), RR(c, n)}
    BY <1>1, <1>6 DEF Receive, Exchange
  <2>2. q.seq = n
    BY <1>6, <2>1, AnswerFields
  <2> QED
    BY <1>4, <1>5, <2>2
<1>7. /\ UNCHANGED senderVars
      /\ \A d \in Children \ {c} : child'[d] = child[d] /\ buffer'[d] = buffer[d]
      /\ child'[c] \notin {"none", "ACCEPT_FILENAME"}
  BY <1>3, ChildMoves DEF KnownInv, CopyInv, FreshUntilOpened, NotYet
<1>8. ASSUME OneWriter PROVE Reached(expectedSeqNum[c])' /\ SlotsPending(c)'
  <2>1. Reached(n) /\ SlotsPending(c)
    BY <1>3, <1>8 DEF CopyInv, BufferedIsPending, SlotsPending
  <2>2. Reached(expectedSeqNum[c])'
    BY <1>1, <1>4, <1>6, <1>7, <2>1, ChildReached
  <2>3. p.flag # "EOF_FLAG"
    <3> SUFFICES ASSUME p.flag = "EOF_FLAG" PROVE FALSE
      OBVIOUS
    <3>1. p.seq = NumBlocks + 1 /\ lower = NumBlocks + 1
      BY DEF KnownInv, TransferInv, DatagramOK
    <3> QED
      BY <1>1, <1>5, <2>1, <3>1 DEF Reached
  <2>4. p.seq \in 1 .. sequenceNum /\ p.data = Source[p.seq]
    BY <1>1, <2>3, ManagedPacket DEF KnownInv
  <2>5. p.seq \in n .. NumBlocks
    BY <1>1, <1>5, <2>4 DEF KnownInv, TransferInv, WindowInv
  <2>6. SlotsPending(c)'
    BY <1>4, <2>1, <2>4, <2>5, SlotsStored DEF KnownInv
  <2> QED
    BY <2>2, <2>6
<1> QED
  BY <1>2, <1>3, <1>7, <1>8, OpenedChildCopy

\* The other packets a child with a file receives, and the end of a flush.
LEMMA QuietStepsCopy ==
  ASSUME KnownInv, CopyInv, NEW c \in Children, ChildStep(c),
         \/ \E p \in net : \/ BehindExpected(c, p) \/ WriteFails(c, p) \/ Flush(c, p)
                           \/ BadChecksum(c, p) \/ IgnoreOther(c, p)
                           \/ EnterEofAckLoop(c, p) \/ EofLoopAnswer(c, p)
         \/ FlushFails(c) \/ FlushEnds(c) \/ FlushEndsAtEof(c)
         \/ EofLoopTimeout(c) \/ EofLoopDone(c)
  PROVE  CopyInv'
<1> DEFINE n == expectedSeqNum[c]
           Same == /\ fdOpen' = fdOpen /\ file' = file
                   /\ \/ expectedSeqNum' = expectedSeqNum /\ buffer' = buffer
                      \/ \E next : Tracker(c, next, n, buffer[c])
           Sends == \/ net' \subseteq net \/ net' \subseteq net \cup {RR(c, n)}
                    \/ \E k : net' \subseteq net \cup {SREJ(c, k)}
                    \/ \E k : net' \subseteq net \cup {EOFAck(c, k)}
<1>1. expectedSeqNum \in [Children -> Nat] /\ n \in Nat
      /\ buffer \in [Children -> [0 .. (ServerWindow - 1) -> Slot]]
  BY DEF KnownInv, TypeOK, ReceiverTypeOK
<1>2. ASSUME Same, Sends, fdOpen[c] PROVE CopyInv'
  <2>1. expectedSeqNum'[c] = n /\ buffer'[c] = buffer[c]
    BY <1>1, <1>2 DEF Tracker
  <2>2. ASSUME NEW q \in net', q \notin net, q.flag = "RR_PACKET" PROVE q.seq <= n
    <3>1. q \in {RR(c, n)} \/ (\E k : q \in {SREJ(c, k)}) \/ (\E k : q \in {EOFAck(c, k)})
      BY <1>2, <2>2
    <3>2. q.seq = n
      BY <2>2, <3>1, AnswerFields
    <3> QED
      BY <1>1, <3>2
  <2> QED
    BY <1>2, <2>1, <2>2, QuietChildCopy
<1>3. ASSUME NEW p \in net, p.dst = c PROVE fdOpen[c]
  BY <1>3 DEF KnownInv, OpenedInv, Opened
<1>4. ASSUME NEW p \in net, BehindExpected(c, p) \/ WriteFails(c, p) \/ Flush(c, p)
      PROVE  CopyInv'
  <2>1. PICK st : Manages(c, p, st)
    BY <1>4, Zenon DEF BehindExpected, WriteFails, Flush
  <2>2. p.dst = c /\ fdOpen' = fdOpen /\ file' = file
    BY <1>4, <2>1 DEF Manages, BehindExpected, WriteFails, Flush
  <2>3. \/ expectedSeqNum' = expectedSeqNum /\ buffer' = buffer
        \/ \E next : Tracker(c, next, n, buffer[c])
    BY <1>4, Zenon DEF BehindExpected, WriteFails, Flush
  <2>4. net' \subseteq net \cup {RR(c, n)}
    BY <1>4 DEF BehindExpected, WriteFails, Flush, Receive, Exchange
  <2> QED
    BY <1>2, <1>3, <2>2, <2>3, <2>4
<1>5. ASSUME NEW p \in net, \/ BadChecksum(c, p) \/ IgnoreOther(c, p)
                            \/ EnterEofAckLoop(c, p) \/ EofLoopAnswer(c, p)
      PROVE  CopyInv'
  <2>1. /\ p.dst = c /\ fdOpen' = fdOpen /\ file' = file
        /\ expectedSeqNum' = expectedSeqNum /\ buffer' = buffer
    BY <1>5 DEF BadChecksum, IgnoreOther, EnterEofAckLoop, EofLoopAnswer, Manages,
                receiverVars, trackerVars
  <2>2. Sends
    <3>1. CASE BadChecksum(c, p) \/ IgnoreOther(c, p)
      BY <3>1 DEF BadChecksum, IgnoreOther, Receive, ReceiveFlipped, Exchange
    <3>2. CASE EnterEofAckLoop(c, p)
      BY <3>2 DEF EnterEofAckLoop, Receive, Exchange
    <3>3. CASE EofLoopAnswer(c, p)
      BY <3>3 DEF EofLoopAnswer, Receive, ReceiveFlipped, Exchange
    <3> QED
      BY <1>5, <3>1, <3>2, <3>3
  <2> QED
    BY <1>2, <1>3, <2>1, <2>2
<1>6. CASE FlushFails(c) \/ FlushEnds(c) \/ FlushEndsAtEof(c)
  <2>1. fdOpen[c]
    BY <1>6 DEF FlushFails, FlushEnds, FlushEndsAtEof, KnownInv, OpenedInv, FlushingOpened
  <2>2. Same
    BY <1>6, Zenon DEF FlushFails, FlushEnds, FlushEndsAtEof
  <2>3. Sends
    BY <1>6 DEF FlushFails, FlushEnds, FlushEndsAtEof, Send, netVars
  <2> QED
    BY <1>2, <2>1, <2>2, <2>3
<1>7. CASE EofLoopTimeout(c) \/ EofLoopDone(c)
  <2>1. expectedSeqNum[c] = NumBlocks + 2
    BY <1>7 DEF EofLoopTimeout, EofLoopDone, KnownInv, TransferInv, ChildInv
  <2>2. fdOpen[c]
    BY <2>1, Constants DEF KnownInv, OpenedInv, NoWriteWithoutFile
  <2>3. Same /\ net' = net
    BY <1>7 DEF EofLoopTimeout, EofLoopDone, trackerVars, netVars
  <2> QED
    BY <1>2, <2>2, <2>3
<1> QED
  BY <1>4, <1>5, <1>6, <1>7

\* What a child does before it opens the file.
LEMMA SetupStepsCopy ==
  ASSUME KnownInv, CopyInv, UNCHANGED <<senderVars, expectedSeqNum, buffer, file, fdOpen>>,
         net' \subseteq net,
         \A c \in Children : child'[c] \in NotYet => child[c] \in NotYet
  PROVE  CopyInv'
<1>1. FreshUntilOpened'
  BY DEF CopyInv, FreshUntilOpened, NotYet
<1>2. ASSUME NEW e, Reached(e)
      PROVE  /\ WholeWrites => file' = Beginning(e)
             /\ lower' <= e
             /\ \A p \in net' : p.flag = "RR_PACKET" => p.seq <= e
             /\ complete' => e = NumBlocks + 2 /\ NS' = "DONE"
  BY <1>2 DEF Reached, senderVars
<1>3. (\A c \in Children : ~fdOpen'[c]) => Reached(1)'
  BY <1>2 DEF CopyInv, Reached, Beginning
<1>4. ASSUME OneWriter, NEW c \in Children, fdOpen[c] PROVE Reached(expectedSeqNum[c])'
  BY <1>2, <1>4 DEF CopyInv, Reached, Beginning
<1>5. BufferedIsPending => BufferedIsPending'
  BY DEF BufferedIsPending
<1> QED
  BY <1>1, <1>3, <1>4, <1>5 DEF CopyInv, OneWriter

\* A child that opens the file starts a copy; when no other has opened it, nothing
\* had been copied.
LEMMA AcceptSetupCopy ==
  ASSUME KnownInv, CopyInv, NEW c \in Children, ChildStep(c), AcceptSetup(c)
  PROVE  CopyInv'
<1> USE Constants
<1>1. /\ child[c] = "ACCEPT_FILENAME"
      /\ child' = [child EXCEPT ![c] = "MANAGE_INCOMING_DATA"]
      /\ fdOpen' = [fdOpen EXCEPT ![c] = TRUE]
      /\ file' = EmptyFile
      /\ net' = net \cup {createPDU("SERVER_TO_RCOPY", c, Rcopy, 0, ZeroByte)}
      /\ UNCHANGED <<expectedSeqNum, buffer>>
  BY DEF AcceptSetup, Send, trackerVars
<1>2. /\ child \in [Children -> ChildStates] /\ fdOpen \in [Children -> BOOLEAN]
      /\ expectedSeqNum \in [Children -> Nat]
  BY DEF KnownInv, TypeOK, ReceiverTypeOK
<1>3. ~fdOpen[c] /\ \A i \in DOMAIN buffer[c] : buffer[c][i].validFlag = 0
  BY <1>1 DEF CopyInv, FreshUntilOpened
<1>4. expectedSeqNum[c] = 1
  <2>1. ~(expectedSeqNum[c] > 1) /\ expectedSeqNum[c] \in 1 .. (NumBlocks + 2)
    BY <1>3 DEF KnownInv, OpenedInv, NoWriteWithoutFile, TransferInv, ChildInv
  <2> QED
    BY <2>1
<1>5. /\ child'[c] = "MANAGE_INCOMING_DATA" /\ fdOpen'[c]
      /\ \A d \in Children \ {c} : child'[d] = child[d] /\ fdOpen'[d] = fdOpen[d]
  BY <1>1, <1>2, Zenon
<1>6. FreshUntilOpened'
  BY <1>1, <1>5 DEF CopyInv, FreshUntilOpened
<1>7. UNCHANGED senderVars
  BY DEF ChildStep
<1>8. ASSUME OneWriter' PROVE \A d \in Children : ~fdOpen[d]
  BY <1>3, <1>5, <1>8 DEF OneWriter
<1>9. ASSUME OneWriter' PROVE Reached(expectedSeqNum[c])'
  <2>1. Reached(1)
    BY <1>8, <1>9 DEF CopyInv
  <2>2. file' = Beginning(1)
    BY <1>1 DEF EmptyFile, Beginning
  <2>3. \A q \in net' : q \in net \/ q.flag # "RR_PACKET"
    BY <1>1 DEF createPDU
  <2>4. expectedSeqNum'[c] = 1
    BY <1>1, <1>4
  <2> QED
    BY <1>7, <2>1, <2>2, <2>3, <2>4 DEF Reached, Beginning, senderVars
<1>10. ASSUME OneWriter', NEW d \in Children, fdOpen'[d] PROVE Reached(expectedSeqNum[d])'
  <2>1. d = c
    BY <1>5, <1>10 DEF OneWriter
  <2> QED
    BY <1>9, <1>10, <2>1
<1>11. OneWriter' => BufferedIsPending'
  BY <1>1, <1>3, <1>8 DEF BufferedIsPending, CopyInv, FreshUntilOpened
<1> QED
  BY <1>5, <1>6, <1>10, <1>11 DEF CopyInv

LEMMA ChildStepCopy ==
  ASSUME KnownInv, CopyInv, NEW c \in Children, ChildStep(c)
  PROVE  CopyInv'
<1>1. UNCHANGED senderVars
  BY DEF ChildStep
<1>2. child \in [Children -> ChildStates]
  BY DEF KnownInv, TypeOK, ReceiverTypeOK
<1>3. ASSUME NEW p \in net, ForkIntact(c, p) \/ ForkFlipped(c, p)
      PROVE  CopyInv'
  <2>1. /\ child[c] = "none" /\ child' = [child EXCEPT ![c] = "ACCEPT_FILENAME"]
        /\ UNCHANGED <<expectedSeqNum, buffer, file, fdOpen>>
    BY <1>3 DEF ForkIntact, ForkFlipped, Fork, trackerVars
  <2>2. net' \subseteq net
    BY <1>3 DEF ForkIntact, ForkFlipped, Receive, ReceiveFlipped, Exchange
  <2>3. \A d \in Children : child'[d] \in NotYet => child[d] \in NotYet
    BY <1>2, <2>1 DEF NotYet
  <2> QED
    BY <1>1, <2>1, <2>2, <2>3, SetupStepsCopy
<1>4. CASE RejectSetup(c) \/ OpenFails(c)
  <2>1. /\ child[c] = "ACCEPT_FILENAME"
        /\ \E next : child' = [child EXCEPT ![c] = next]
        /\ UNCHANGED <<expectedSeqNum, buffer, file, fdOpen>> /\ net' = net
    BY <1>4 DEF RejectSetup, OpenFails, trackerVars, netVars
  <2>2. \A d \in Children : child'[d] \in NotYet => child[d] \in NotYet
    BY <1>2, <2>1 DEF NotYet
  <2> QED
    BY <1>1, <2>1, <2>2, SetupStepsCopy
<1>5. ASSUME NEW p \in net, ChildReceive(c, p)
      PROVE  CopyInv'
  BY <1>3, <1>5, ExpectedDataCopy, ExpectedEofCopy, AheadOfExpectedCopy, QuietStepsCopy
  DEF ChildReceive
<1>6. CASE ChildRun(c) \/ EofLoopTimeout(c)
  BY <1>4, <1>6, AcceptSetupCopy, FlushWriteCopy, QuietStepsCopy DEF ChildRun
<1> QED
  BY <1>5, <1>6 DEF ChildStep

-----------------------------------------------------------------------------
(* The system *)

LEMMA InitCopy == Init => CopyInv
<1> SUFFICES ASSUME Init PROVE CopyInv
  OBVIOUS
<1>1. /\ net = {} /\ NS = "FILENAME" /\ lower = 1 /\ complete = FALSE
      /\ file = EmptyFile
      /\ \A c \in Children : /\ ~fdOpen[c]
                             /\ buffer[c] = initializeBuffer(ServerWindow)
  BY DEF Init, InitNetwork, InitSender, InitReceiver
<1>2. ASSUME NEW c \in Children, NEW i \in DOMAIN buffer[c]
      PROVE  buffer[c][i].validFlag = 0
  <2>1. buffer[c] = [j \in 0 .. (ServerWindow - 1) |-> EmptySlot]
    BY <1>1 DEF initializeBuffer
  <2>2. buffer[c][i] = EmptySlot
    BY <2>1
  <2> QED
    BY <2>2 DEF EmptySlot
<1>3. FreshUntilOpened /\ BufferedIsPending
  BY <1>1, <1>2 DEF FreshUntilOpened, BufferedIsPending
<1>4. Reached(1)
  BY <1>1, Constants DEF Reached, Beginning, EmptyFile
<1> QED
  BY <1>1, <1>3, <1>4 DEF CopyInv

LEMMA NextCopy == KnownInv /\ CopyInv /\ [Next]_vars => CopyInv'
<1> SUFFICES ASSUME KnownInv, CopyInv, [Next]_vars PROVE CopyInv'
  OBVIOUS
<1>1. CASE Discard \/ Drop \/ UNCHANGED vars
  <2>1. net' \subseteq net
    BY <1>1 DEF Discard, Drop, Lose, vars, netVars
  <2>2. UNCHANGED <<senderVars, expectedSeqNum, buffer, file, fdOpen, child>>
    BY <1>1 DEF Discard, Drop, vars, senderVars, receiverVars, trackerVars
  <2> QED
    BY <2>1, <2>2, SetupStepsCopy
<1> QED
  BY <1>1, RcopyStepCopy, ChildStepCopy DEF Next

LEMMA KnownCorrect == Spec => [](KnownInv /\ CopyInv)
<1>1. Init => KnownInv /\ CopyInv
  BY InitType, InitTransfer, InitOpened, InitCopy DEF KnownInv
<1>2. KnownInv /\ CopyInv /\ [Next]_vars => (KnownInv /\ CopyInv)'
  BY NextType, NextTransfer, NextOpened, NextCopy DEF KnownInv
<1> QED
  BY <1>1, <1>2, PTL DEF Spec

\* While one child has opened the file, the file, the RRs and rcopy follow what this
\* child has received.  CopyInv is inductive together with what is known of a transfer.
THEOREM CopyCorrect == Spec => []CopyInv
BY KnownCorrect, PTL

\* What a flush may write is a block that was not written yet (bufferMngment.c), as
\* long as a single child has opened the output file.
THEOREM BufferedCorrect == Spec => [](OneWriter => BufferedIsPending)
<1>1. CopyInv => (OneWriter => BufferedIsPending)
  BY DEF CopyInv
<1> QED
  BY <1>1, CopyCorrect, PTL

\* Whatever child has the file, and before any has, there is a packet up to which
\* everything was received.
LEMMA SomeReached ==
  ASSUME KnownInv, CopyInv, OneWriter
  PROVE  \E e \in 1 .. (NumBlocks + 2) : Reached(e)
<1>1. CASE \A c \in Children : ~fdOpen[c]
  BY <1>1, Constants DEF CopyInv
<1>2. ASSUME NEW c \in Children, fdOpen[c]
      PROVE  \E e \in 1 .. (NumBlocks + 2) : Reached(e)
  BY <1>2 DEF CopyInv, KnownInv, TransferInv, ChildInv
<1> QED
  BY <1>1, <1>2

\* rcopy gives up a block (windowing.c) only when it is in the output file: for every
\* window size, file length, loss, duplication and reordering, while writes are whole
\* and a single child has opened the file.
THEOREM AckedCorrect ==
  ASSUME WholeWrites
  PROVE  Spec => [](OneWriter => AckedIsOnDisk)
<1>1. KnownInv /\ CopyInv => (OneWriter => AckedIsOnDisk)
  <2> SUFFICES ASSUME KnownInv, CopyInv, OneWriter, NEW i \in 1 .. (lower - 1)
               PROVE  file[i] = Source[i]
    BY DEF AckedIsOnDisk
  <2>1. PICK e \in 1 .. (NumBlocks + 2) : file = Beginning(e) /\ lower <= e
    BY SomeReached DEF Reached
  <2>2. lower \in 1 .. (sequenceNum + 1) /\ sequenceNum \in 0 .. NumBlocks
    BY DEF KnownInv, TransferInv, WindowInv
  <2>3. i < e /\ i <= NumBlocks /\ i \in 1 .. (NumBlocks + 1)
    BY <2>1, <2>2, Constants
  <2> QED
    BY <2>1, <2>3 DEF Beginning
<1> QED
  BY <1>1, KnownCorrect, PTL

\* "file transfer complete" (rcopy.c) means that the output file is the source, under
\* the same conditions.
THEOREM CompleteCorrect ==
  ASSUME WholeWrites
  PROVE  Spec => [](OneWriter => CompleteMeansCopied)
<1>1. KnownInv /\ CopyInv => (OneWriter => CompleteMeansCopied)
  <2> SUFFICES ASSUME KnownInv, CopyInv, OneWriter, complete
               PROVE  file = [i \in 1 .. (NumBlocks + 1) |->
                                IF i <= NumBlocks THEN Source[i] ELSE Hole]
    BY DEF CompleteMeansCopied
  <2>1. file = Beginning(NumBlocks + 2)
    BY SomeReached DEF Reached
  <2>2. \A i \in 1 .. (NumBlocks + 1) : i < NumBlocks + 2
    BY Constants
  <2> QED
    BY <2>1, <2>2 DEF Beginning
<1> QED
  BY <1>1, KnownCorrect, PTL

-----------------------------------------------------------------------------
(* The transfer implements FileCopy *)

\* Written, of any content of the output file.
WrittenOf(content) ==
  [i \in 1 .. Cardinality({j \in DOMAIN content : content[j] # Hole}) |-> content[i]]

\* How many blocks there are below packet e.
BlocksBelow(e) == IF e <= NumBlocks THEN e - 1 ELSE NumBlocks

LEMMA WrittenBeginning ==
  ASSUME NEW e \in 1 .. (NumBlocks + 2)
  PROVE  /\ BlocksBelow(e) \in 0 .. NumBlocks
         /\ WrittenOf(Beginning(e)) = SubSeq(Source, 1, BlocksBelow(e))
         /\ Len(WrittenOf(Beginning(e))) = BlocksBelow(e)
<1> DEFINE k == BlocksBelow(e)
           content == Beginning(e)
<1>1. NumBlocks \in Nat /\ Source \in Seq(Blocks)
  BY Constants, SourceAssumption
<1>2. k \in 0 .. NumBlocks
  BY <1>1 DEF BlocksBelow
<1>3. \A i \in 1 .. (NumBlocks + 1) : (i < e /\ i <= NumBlocks) <=> i \in 1 .. k
  BY <1>1 DEF BlocksBelow
<1>4. \A i \in 1 .. NumBlocks : Source[i] # Hole
  BY Constants, SizeAssumption
<1>5. {j \in DOMAIN content : content[j] # Hole} = 1 .. k
  BY <1>1, <1>2, <1>3, <1>4 DEF Beginning
<1>6. Cardinality(1 .. k) = k
  BY <1>2, FS_Interval
<1>7. \A i \in 1 .. k : content[i] = Source[i]
  BY <1>1, <1>2, <1>3 DEF Beginning
<1> HIDE DEF k, content
<1>8. WrittenOf(content) = [i \in 1 .. k |-> Source[i]]
  BY <1>5, <1>6, <1>7 DEF WrittenOf
<1>9. SubSeq(Source, 1, k) = [i \in 1 .. k |-> Source[i]]
  BY <1>1, <1>2 DEF NumBlocks
<1>10. Len([i \in 1 .. k |-> Source[i]]) = k
  BY <1>2
<1> QED
  BY <1>2, <1>8, <1>9, <1>10 DEF k, content

\* A step never takes a received packet back, nor the file from who has opened it.
LEMMA NeverBack ==
  ASSUME KnownInv, [Next]_vars
  PROVE  /\ \A c \in Children : /\ expectedSeqNum[c] <= expectedSeqNum'[c]
                                /\ fdOpen[c] => fdOpen'[c]
         /\ OneWriter' => OneWriter
<1>1. TypeOK /\ expectedSeqNum \in [Children -> Nat]
  BY DEF KnownInv, TypeOK, ReceiverTypeOK
<1>2. ASSUME NEW c \in Children
      PROVE  /\ expectedSeqNum[c] <= expectedSeqNum'[c]
             /\ fdOpen[c] => fdOpen'[c]
  <2>1. ASSUME NEW d \in Children, ChildStep(d)
        PROVE  /\ expectedSeqNum[c] <= expectedSeqNum'[c]
               /\ fdOpen[c] => fdOpen'[c]
    BY <1>1, <2>1, ChildMoves
  <2>2. CASE RcopyStep \/ Discard \/ Drop \/ UNCHANGED vars
    <3>1. UNCHANGED <<expectedSeqNum, fdOpen>>
      BY <2>2 DEF RcopyStep, Discard, Drop, vars, receiverVars, trackerVars
    <3> QED
      BY <1>1, <3>1
  <2> QED
    BY <2>1, <2>2 DEF Next
<1> QED
  BY <1>2 DEF OneWriter

\* Only rcopy, which does not touch the file, reports completion, and once.
LEMMA ReportsOnce ==
  ASSUME KnownInv, CopyInv, OneWriter, [Next]_vars
  PROVE  \/ complete' = complete
         \/ complete = FALSE /\ complete' = TRUE /\ file' = file
<1>1. CASE RcopyStep
  <2>1. file' = file
    BY <1>1 DEF RcopyStep, receiverVars
  <2>2. (complete => NS = "DONE") /\ complete \in BOOLEAN
    BY SomeReached DEF Reached, KnownInv, TypeOK, SenderTypeOK
  <2> QED
    BY <1>1, <2>1, <2>2, RcopyReports
<1>2. CASE ~RcopyStep
  BY <1>2 DEF Next, ChildStep, Discard, Drop, vars, senderVars
<1> QED
  BY <1>1, <1>2

\* How far the copy was before and after a step.
LEMMA ReachedGrows ==
  ASSUME KnownInv, CopyInv, KnownInv', CopyInv', OneWriter', WholeWrites, [Next]_vars
  PROVE  \E e \in 1 .. (NumBlocks + 2), e2 \in 1 .. (NumBlocks + 2) :
           /\ e <= e2
           /\ file = Beginning(e) /\ file' = Beginning(e2)
           /\ complete' => e2 = NumBlocks + 2
<1> USE Constants
<1>1. \A c \in Children : /\ expectedSeqNum[c] \in 1 .. (NumBlocks + 2)
                          /\ expectedSeqNum'[c] \in 1 .. (NumBlocks + 2)
  BY DEF KnownInv, TransferInv, ChildInv
<1>2. /\ \A c \in Children : /\ expectedSeqNum[c] <= expectedSeqNum'[c]
                             /\ fdOpen[c] => fdOpen'[c]
      /\ OneWriter
  BY NeverBack
<1>4. ASSUME NEW c \in Children, fdOpen[c]
      PROVE  /\ file = Beginning(expectedSeqNum[c])
             /\ file' = Beginning(expectedSeqNum'[c])
             /\ complete' => expectedSeqNum'[c] = NumBlocks + 2
  BY <1>2, <1>4 DEF CopyInv, Reached, Beginning
<1>5. CASE \A c \in Children : ~fdOpen[c]
  <2>1. file = Beginning(1)
    BY <1>5 DEF CopyInv, Reached
  <2>2. \E e2 \in 1 .. (NumBlocks + 2) :
          file' = Beginning(e2) /\ (complete' => e2 = NumBlocks + 2)
    <3>1. CASE \A c \in Children : ~fdOpen'[c]
      BY <3>1 DEF CopyInv, Reached, Beginning
    <3>2. ASSUME NEW c \in Children, fdOpen'[c]
          PROVE  /\ file' = Beginning(expectedSeqNum'[c])
                 /\ complete' => expectedSeqNum'[c] = NumBlocks + 2
      BY <3>2 DEF CopyInv, Reached, Beginning
    <3> QED
      BY <1>1, <3>1, <3>2
  <2> QED
    BY <2>1, <2>2
<1> QED
  BY <1>1, <1>2, <1>4, <1>5

\* A step of the transfer writes blocks at the end of the output, reports, or does
\* neither.
LEMMA MappedCopyStep ==
  ASSUME KnownInv, CopyInv, KnownInv', CopyInv', OneWriter', WholeWrites, [Next]_vars
  PROVE  [Copy!Extend \/ Copy!Report]_(Copy!copyVars)
<1>1. PICK e \in 1 .. (NumBlocks + 2), e2 \in 1 .. (NumBlocks + 2) :
        /\ e <= e2
        /\ file = Beginning(e) /\ file' = Beginning(e2)
        /\ complete' => e2 = NumBlocks + 2
  BY ReachedGrows
<1> DEFINE k == BlocksBelow(e)
           k2 == BlocksBelow(e2)
<1>2. Written = SubSeq(Source, 1, k) /\ Len(Written) = k /\ k \in 0 .. NumBlocks
  BY <1>1, WrittenBeginning DEF Written, WrittenOf
<1>3. Written' = SubSeq(Source, 1, k2) /\ k2 \in 0 .. NumBlocks
  BY <1>1, WrittenBeginning DEF Written, WrittenOf
<1>4. k <= k2
  BY <1>1, Constants DEF BlocksBelow
<1> HIDE DEF k, k2
<1>5. OneWriter
  BY NeverBack
<1>6. CASE complete' = complete
  <2>1. CASE k = k2
    BY <1>2, <1>3, <1>6, <2>1 DEF Copy!copyVars
  <2>2. CASE k # k2
    <3>1. k2 \in (Len(Written) + 1) .. Len(Source)
      BY <1>2, <1>3, <1>4, <2>2 DEF NumBlocks
    <3> QED
      BY <1>3, <1>6, <3>1 DEF Copy!Extend
  <2> QED
    BY <2>1, <2>2
<1>7. CASE complete = FALSE /\ complete' = TRUE /\ file' = file
  <2>1. k2 = NumBlocks
    BY <1>1, <1>7, Constants DEF BlocksBelow, k2
  <2>2. Written' = Written
    BY <1>7 DEF Written
  <2>3. SubSeq(Source, 1, NumBlocks) = Source
    BY SourceAssumption DEF NumBlocks
  <2> QED
    BY <1>3, <1>7, <2>1, <2>2, <2>3 DEF Copy!Report
<1> QED
  BY <1>5, <1>6, <1>7, ReportsOnce

LEMMA MappedCopyInit == Init => Copy!CopyInit
<1> SUFFICES ASSUME Init PROVE Copy!CopyInit
  OBVIOUS
<1>1. file = Beginning(1) /\ complete = FALSE
  BY DEF Init, InitSender, InitReceiver, EmptyFile, Beginning
<1>2. 1 \in 1 .. (NumBlocks + 2) /\ BlocksBelow(1) = 0
  BY Constants DEF BlocksBelow
<1>3. Written = SubSeq(Source, 1, 0)
  BY <1>1, <1>2, WrittenBeginning DEF Written, WrittenOf
<1>4. SubSeq(Source, 1, 0) = <<>>
  BY SourceAssumption
<1> QED
  BY <1>1, <1>3, <1>4 DEF Copy!CopyInit

\* rcopy and the server implement FileCopy when every write is whole and a single child
\* opens the output file: no block is rewritten, skipped or written out of order.
THEOREM CopyImplementsFileCopy ==
  ASSUME WholeWrites
  PROVE  Spec /\ []OneWriter => CopiesInOrder
<1>1. /\ KnownInv /\ CopyInv /\ (KnownInv /\ CopyInv)' /\ OneWriter' /\ [Next]_vars
        => [Copy!Extend \/ Copy!Report]_(Copy!copyVars)
  BY MappedCopyStep
<1>2. Spec /\ []OneWriter => [][Copy!Extend \/ Copy!Report]_(Copy!copyVars)
  BY <1>1, KnownCorrect, PTL DEF Spec
<1> QED
  BY <1>2, MappedCopyInit, PTL DEF Spec, CopiesInOrder, Copy!CopySpec

\* So they do when the server forks one child, as for a setup packet that arrives once.
THEOREM OneChildCopies ==
  ASSUME WholeWrites, \A c, d \in Children : c = d
  PROVE  Spec => CopiesInOrder
<1>1. OneWriter
  BY DEF OneWriter
<1> QED
  BY <1>1, CopyImplementsFileCopy, PTL

=============================================================================
