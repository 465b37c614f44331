---------------------------- MODULE Opened_proofs ----------------------------
(***************************************************************************)
(* NoWriteWithoutFile with any number of children: a child whose open      *)
(* failed goes on to receive, but no datagram is ever sent to it.          *)
(***************************************************************************)
EXTENDS Types_proofs

Opened(a) == a \in Children => fdOpen[a]

\* A flush starts on a datagram that was sent to the child.
FlushingOpened == \A c \in Children : child[c] = "FLUSH" => fdOpen[c]

\* Only a child that opened its file is ever heard of: rcopy learns the address
\* of a child from its datagrams alone, and the first one it sends is the
\* answer to the setup packet.
OpenedInv ==
  /\ \A p \in net : Opened(p.src) /\ Opened(p.dst)
  /\ Opened(server)
  /\ FlushingOpened
  /\ NoWriteWithoutFile

-----------------------------------------------------------------------------
(* rcopy *)

\* Every packet of rcopy goes to its server, or to the sender of an answer.
LEMMA ResentTo ==
  ASSUME NEW n, NEW dst, NEW q \in getPacketToResend(n, dst)
  PROVE  q.src = Rcopy /\ q.dst = dst
BY DEF getPacketToResend, createPDU

LEMMA RcopySendsTo ==
  ASSUME RcopyStep
  PROVE  /\ server' = server \/ \E p \in net : server' = p.src
         /\ \A q \in net' :
              q \in net \/ (q.src = Rcopy /\ (q.dst = server
                                              \/ \E p \in net : q.dst = p.src))
<1> DEFINE To(q) == q.src = Rcopy /\ (q.dst = server \/ \E p \in net : q.dst = p.src)
           Goal == /\ server' = server \/ \E p \in net : server' = p.src
                   /\ \A q \in net' : q \in net \/ To(q)
<1>1. ASSUME NEW n, NEW dst, dst = server \/ \E p \in net : dst = p.src
      PROVE  /\ To(EofPDU(dst, n))
             /\ \A q \in getPacketToResend(n, dst) : To(q)
             /\ \A flag, seq, data : To(createPDU(flag, Rcopy, dst, seq, data))
  BY <1>1, ResentTo DEF EofPDU, createPDU
<1>2. ASSUME NEW p \in net, NEW out, processRRorSREJ(p, out), \A q \in out : To(q)
      PROVE  Goal
  <2>1. /\ server' = p.src
        /\ net' \subseteq net \cup (processSREJpacket(p) \cup out)
    BY <1>2, Zenon DEF processRRorSREJ, Receive, Exchange
  <2>2. \A q \in processSREJpacket(p) : To(q)
    BY <1>1 DEF processSREJpacket
  <2> HIDE DEF To
  <2> QED
    BY <1>2, <2>1, <2>2
<1>3. ASSUME SendSetup
      PROVE  Goal
  <2>1. net' = net \cup {SetupPDU} /\ server' = server
    BY <1>3, Zenon DEF SendSetup, Send
  <2>2. To(SetupPDU)
    BY <1>1 DEF SetupPDU
  <2> HIDE DEF To
  <2> QED
    BY <2>1, <2>2
<1>4. ASSUME SendBlock
      PROVE  Goal
  <2> DEFINE block == createPDU("DATA_PKT", Rcopy, server, sequenceNum + 1,
                                Source[sequenceNum + 1])
  <2>1. net' = net \cup {block} /\ server' = server
    BY <1>4, Zenon DEF SendBlock, Send
  <2>2. To(block)
    BY <1>1
  <2> HIDE DEF To, block
  <2> QED
    BY <2>1, <2>2
<1>5. ASSUME ReadEof \/ EofTimeout
      PROVE  Goal
  <2>1. /\ server' = server
        /\ \/ net' = net
           \/ net' = net \cup {EofPDU(server, sequenceNum + 1)}
           \/ net' = net \cup {EofPDU(server, eofSeqNum)}
    BY <1>5, Zenon DEF ReadEof, EofTimeout, Send, netVars
  <2>2. To(EofPDU(server, sequenceNum + 1)) /\ To(EofPDU(server, eofSeqNum))
    BY <1>1
  <2> HIDE DEF To
  <2> QED
    BY <2>1, <2>2
<1>6. ASSUME AckTimeout
      PROVE  Goal
  <2>1. net' = net \cup getPacketToResend(lower, server) /\ server' = server
    BY <1>6, Zenon DEF AckTimeout, Send
  <2>2. \A q \in getPacketToResend(lower, server) : To(q)
    BY <1>1
  <2> HIDE DEF To
  <2> QED
    BY <2>1, <2>2
<1>7. ASSUME SetupTimeout \/ SetupGiveUp \/ FileOk \/ ReadError \/ WindowShut
           \/ AckGiveUp \/ EofGiveUp
      PROVE  Goal
  <2>1. net' = net /\ server' = server
    BY <1>7, Zenon DEF SetupTimeout, SetupGiveUp, FileOk, ReadError, WindowShut,
                       AckGiveUp, EofGiveUp, netVars
  <2> QED
    BY <2>1
<1>8. ASSUME NEW p \in net,
             SetupAnswer(p) \/ SetupAnswerFlipped(p) \/ DropFlipped(p)
      PROVE  Goal
  <2>1. net' \subseteq net /\ server' = p.src
    BY <1>8, Zenon DEF SetupAnswer, SetupAnswerFlipped, SetupAnswered, DropFlipped,
                       Receive, ReceiveFlipped, Exchange
  <2> QED
    BY <2>1
<1>9. ASSUME NEW p \in net,
             PollAck(p) \/ WaitAck(p) \/ EofAcked(p) \/ EofNotAcked(p)
      PROVE  Goal
  <2>1. processRRorSREJ(p, {}) \/ processRRorSREJ(p, {EofPDU(p.src, eofSeqNum)})
    BY <1>9 DEF PollAck, WaitAck, EofAcked, EofNotAcked
  <2>2. To(EofPDU(p.src, eofSeqNum))
    BY <1>1
  <2> HIDE DEF To, Goal
  <2> QED
    BY <1>2, <2>1, <2>2
<1> HIDE DEF Goal, To
<1> Goal
  BY <1>3, <1>4, <1>5, <1>6, <1>7, <1>8, <1>9
  DEF RcopyStep, SenderRun, SenderTimeout, SenderReceive, Goal
<1> QED
  BY DEF Goal, To

LEMMA RcopyStepOpened ==
  ASSUME OpenedInv, RcopyStep
  PROVE  OpenedInv'
<1>1. fdOpen' = fdOpen /\ expectedSeqNum' = expectedSeqNum /\ child' = child
  BY DEF RcopyStep, receiverVars
<1>2. Opened(server) /\ \A p \in net : Opened(p.src) /\ Opened(p.dst)
  BY DEF OpenedInv
<1>3. Opened(server)'
  BY <1>1, <1>2, RcopySendsTo DEF Opened
<1>4. ASSUME NEW q \in net' PROVE Opened(q.src)' /\ Opened(q.dst)'
  <2>1. Rcopy \notin Children
    BY AddressAssumption
  <2> QED
    BY <1>1, <1>2, <2>1, RcopySendsTo DEF Opened
<1>5. NoWriteWithoutFile'
  BY <1>1 DEF OpenedInv, NoWriteWithoutFile
<1>6. FlushingOpened'
  BY <1>1 DEF OpenedInv, FlushingOpened
<1> QED
  BY <1>3, <1>4, <1>5, <1>6 DEF OpenedInv

-----------------------------------------------------------------------------
(* The children *)

\* A child sends to rcopy only, and only once it has opened its file; and it
\* moves on in the file only then.
LEMMA ChildStepOpened ==
  ASSUME TypeOK, OpenedInv, NEW c \in Children, ChildStep(c)
  PROVE  OpenedInv'
<1> DEFINE Answer(q) == q.src = c /\ q.dst = Rcopy
<1>1. /\ fdOpen \in [Children -> BOOLEAN] /\ expectedSeqNum \in [Children -> Nat]
      /\ server' = server
  BY DEF TypeOK, ReceiverTypeOK, ChildStep, senderVars
<1>2. \A n : Answer(RR(c, n)) /\ Answer(SREJ(c, n)) /\ Answer(EOFAck(c, n))
  BY DEF RR, SREJ, EOFAck, createPDU
<1> HIDE DEF Answer
<1>3. ASSUME \A d \in Children : fdOpen[d] => fdOpen'[d],
             \/ expectedSeqNum' = expectedSeqNum
             \/ /\ fdOpen'[c]
                /\ \A d \in Children \ {c} : expectedSeqNum'[d] = expectedSeqNum[d],
             \A d \in Children :
               child'[d] = "FLUSH" => child[d] = "FLUSH" \/ fdOpen'[d],
             \A q \in net' : q \in net \/ (fdOpen'[c] /\ Answer(q))
      PROVE  OpenedInv'
  <2>1. ASSUME NEW a, Opened(a) PROVE Opened(a)'
    BY <1>3, <2>1 DEF Opened
  <2>2. Opened(server)'
    BY <1>1, <1>3 DEF OpenedInv, Opened
  <2>3. ASSUME NEW q \in net' PROVE Opened(q.src)' /\ Opened(q.dst)'
    <3>1. CASE q \in net
      BY <2>1, <3>1 DEF OpenedInv
    <3>2. CASE fdOpen'[c] /\ Answer(q)
      BY <3>2, AddressAssumption DEF Opened, Answer
    <3> QED
      BY <1>3, <3>1, <3>2
  <2>4. NoWriteWithoutFile'
    <3> SUFFICES ASSUME NEW d \in Children, expectedSeqNum'[d] > 1
                 PROVE  fdOpen'[d]
      BY DEF NoWriteWithoutFile
    <3>1. CASE expectedSeqNum'[d] = expectedSeqNum[d]
      BY <1>3, <3>1 DEF OpenedInv, NoWriteWithoutFile
    <3> QED
      BY <1>3, <3>1
  <2>5. FlushingOpened'
    BY <1>3 DEF OpenedInv, FlushingOpened
  <2> QED
    BY <2>2, <2>3, <2>4, <2>5 DEF OpenedInv
<1> DEFINE OthersAsBefore == \A d \in Children \ {c} : child'[d] = child[d]
<1>11. ASSUME NEW next, child' = [child EXCEPT ![c] = next]
       PROVE  OthersAsBefore /\ child'[c] = next
  BY <1>11 DEF TypeOK, ReceiverTypeOK
<1>12. child' = child => OthersAsBefore
  OBVIOUS
<1> HIDE DEF OthersAsBefore
<1>4. ASSUME NEW p \in net, p.dst = c PROVE fdOpen[c]
  BY <1>4 DEF OpenedInv, Opened
<1>5. ASSUME NEW p \in net, NEW next, NEW e, NEW slots, NEW out,
             p.dst = c, fdOpen' = fdOpen, OthersAsBefore,
             \/ Tracker(c, next, e, slots)
             \/ expectedSeqNum' = expectedSeqNum,
             Receive(p, out) \/ ReceiveFlipped(p, out),
             \A q \in out : Answer(q)
      PROVE  OpenedInv'
  <2>1. fdOpen'[c]
    BY <1>4, <1>5
  <2>2. \A q \in net' : q \in net \/ (fdOpen'[c] /\ Answer(q))
    BY <1>5, <2>1 DEF Receive, ReceiveFlipped, Exchange
  <2>3. \/ expectedSeqNum' = expectedSeqNum
        \/ \A d \in Children \ {c} : expectedSeqNum'[d] = expectedSeqNum[d]
    BY <1>1, <1>5 DEF Tracker
  <2>4. \A d \in Children : child'[d] = "FLUSH" => child[d] = "FLUSH" \/ fdOpen'[d]
    BY <1>5, <2>1 DEF OthersAsBefore
  <2> QED
    BY <1>3, <1>5, <2>1, <2>2, <2>3, <2>4
<1>6. ASSUME NEW p \in net, ForkIntact(c, p) \/ ForkFlipped(c, p)
      PROVE  OpenedInv'
  <2>1. fdOpen' = fdOpen /\ expectedSeqNum' = expectedSeqNum
    BY <1>6 DEF ForkIntact, ForkFlipped, Fork, trackerVars
  <2>2. net' \subseteq net
    BY <1>6 DEF ForkIntact, ForkFlipped, Receive, ReceiveFlipped, Exchange
  <2>3. child' = [child EXCEPT ![c] = "ACCEPT_FILENAME"]
    BY <1>6 DEF ForkIntact, ForkFlipped, Fork
  <2>4. \A d \in Children : child'[d] = "FLUSH" => child[d] = "FLUSH"
    BY <1>11, <2>3 DEF OthersAsBefore
  <2> QED
    BY <1>3, <2>1, <2>2, <2>4
<1>7. CASE RejectSetup(c) \/ OpenFails(c) \/ EofLoopTimeout(c) \/ EofLoopDone(c)
  <2>1. fdOpen' = fdOpen /\ expectedSeqNum' = expectedSeqNum /\ net' = net
    BY <1>7 DEF RejectSetup, OpenFails, EofLoopTimeout, EofLoopDone, trackerVars,
                netVars
  <2>2. \/ child' = child
        \/ \E next \in {"DONE", "MANAGE_INCOMING_DATA"} :
             child' = [child EXCEPT ![c] = next]
    BY <1>7 DEF RejectSetup, OpenFails, EofLoopTimeout, EofLoopDone
  <2>3. \A d \in Children : child'[d] = "FLUSH" => child[d] = "FLUSH"
    BY <1>11, <2>2 DEF OthersAsBefore
  <2> QED
    BY <1>3, <2>1, <2>3
<1>8. CASE AcceptSetup(c)
  <2> DEFINE answer == createPDU("SERVER_TO_RCOPY", c, Rcopy, 0, ZeroByte)
  <2>1. /\ fdOpen' = [fdOpen EXCEPT ![c] = TRUE]
        /\ expectedSeqNum' = expectedSeqNum
        /\ net' = net \cup {answer}
    BY <1>8, Zenon DEF AcceptSetup, Send, trackerVars
  <2>2. Answer(answer)
    BY DEF Answer, createPDU
  <2> HIDE DEF answer
  <2>3. fdOpen'[c] /\ \A d \in Children : fdOpen[d] => fdOpen'[d]
    BY <1>1, <2>1, Zenon
  <2>4. child' = [child EXCEPT ![c] = "MANAGE_INCOMING_DATA"]
    BY <1>8 DEF AcceptSetup
  <2>5. \A d \in Children : child'[d] = "FLUSH" => child[d] = "FLUSH"
    BY <1>11, <2>4 DEF OthersAsBefore
  <2> QED
    BY <1>3, <2>1, <2>2, <2>3, <2>5
<1>9. ASSUME NEW p \in net,
             \/ ExpectedData(c, p) \/ ExpectedEof(c, p) \/ AheadOfExpected(c, p)
             \/ BehindExpected(c, p) \/ WriteFails(c, p) \/ Flush(c, p)
      PROVE  OpenedInv'
  <2>1. PICK st : Manages(c, p, st)
    BY <1>9, Zenon DEF ExpectedData, ExpectedEof, AheadOfExpected, BehindExpected,
                       WriteFails, Flush
  <2>2. p.dst = c /\ fdOpen' = fdOpen
    BY <2>1 DEF Manages
  <2>3. \E out : Receive(p, out) /\ \A q \in out : Answer(q)
    <3>1. CASE ExpectedData(c, p)
      BY <1>2, <3>1 DEF ExpectedData
    <3>2. CASE ExpectedEof(c, p) \/ BehindExpected(c, p)
      BY <1>2, <3>2 DEF ExpectedEof, BehindExpected
    <3>3. CASE AheadOfExpected(c, p)
      BY <1>2, <3>3 DEF AheadOfExpected
    <3>4. CASE WriteFails(c, p) \/ Flush(c, p)
      BY <3>4 DEF WriteFails, Flush
    <3> QED
      BY <1>9, <3>1, <3>2, <3>3, <3>4
  <2>4. \/ \E next, e, slots : Tracker(c, next, e, slots)
        \/ expectedSeqNum' = expectedSeqNum
    BY <1>9, Zenon DEF ExpectedData, ExpectedEof, AheadOfExpected,
                       BehindExpected, WriteFails, Flush
  <2>5. \/ child' = child
        \/ \E next : child' = [child EXCEPT ![c] = next]
    BY <1>9, Zenon DEF ExpectedData, ExpectedEof, AheadOfExpected,
                       BehindExpected, WriteFails, Flush
  <2>6. OthersAsBefore
    BY <1>11, <1>12, <2>5
  <2> QED
    BY <1>5, <2>2, <2>3, <2>4, <2>6
<1>13. CASE FlushWrite(c) \/ FlushFails(c) \/ FlushEnds(c) \/ FlushEndsAtEof(c)
  <2>1. fdOpen' = fdOpen /\ fdOpen[c]
    BY <1>13 DEF FlushWrite, FlushFails, FlushEnds, FlushEndsAtEof, OpenedInv,
                 FlushingOpened
  <2>2. \E next, e, slots : Tracker(c, next, e, slots)
    BY <1>13, Zenon DEF FlushWrite, FlushFails, FlushEnds, FlushEndsAtEof
  <2>3. \A d \in Children \ {c} : expectedSeqNum'[d] = expectedSeqNum[d]
    BY <1>1, <2>2 DEF Tracker
  <2>4. \/ child' = child
        \/ \E next : child' = [child EXCEPT ![c] = next]
    BY <1>13, Zenon DEF FlushWrite, FlushFails, FlushEnds, FlushEndsAtEof
  <2>5. \A d \in Children : child'[d] = "FLUSH" => child[d] = "FLUSH" \/ fdOpen'[d]
    BY <1>11, <2>1, <2>4 DEF OthersAsBefore
  <2>6. \/ net' = net
        \/ \E n : net' = net \cup {RR(c, n)} \/ net' = net \cup {EOFAck(c, n)}
    BY <1>13, Zenon DEF FlushWrite, FlushFails, FlushEnds, FlushEndsAtEof, Send,
                        netVars
  <2>7. \A q \in net' : q \in net \/ (fdOpen'[c] /\ Answer(q))
    BY <1>2, <2>1, <2>6
  <2> QED
    BY <1>3, <2>1, <2>3, <2>5, <2>7
<1>10. ASSUME NEW p \in net,
              \/ BadChecksum(c, p) \/ IgnoreOther(c, p) \/ EnterEofAckLoop(c, p)
              \/ EofLoopAnswer(c, p)
       PROVE  OpenedInv'
  <2>1. p.dst = c /\ fdOpen' = fdOpen /\ expectedSeqNum' = expectedSeqNum
    BY <1>10 DEF BadChecksum, IgnoreOther, EnterEofAckLoop, EofLoopAnswer, Manages,
                 receiverVars
  <2>3. OthersAsBefore
    BY <1>10, <1>11, <1>12 DEF BadChecksum, IgnoreOther, EnterEofAckLoop,
                               EofLoopAnswer, receiverVars
  <2>2. \E out : (Receive(p, out) \/ ReceiveFlipped(p, out)) /\ \A q \in out : Answer(q)
    <3>1. CASE BadChecksum(c, p)
      BY <1>2, <3>1 DEF BadChecksum
    <3>2. CASE IgnoreOther(c, p)
      BY <3>2 DEF IgnoreOther
    <3>3. CASE EnterEofAckLoop(c, p)
      BY <1>2, <3>3 DEF EnterEofAckLoop
    <3>4. CASE EofLoopAnswer(c, p)
      BY <1>2, <3>4 DEF EofLoopAnswer
    <3> QED
      BY <1>10, <3>1, <3>2, <3>3, <3>4
  <2> QED
    BY <1>5, <2>1, <2>2, <2>3
<1> QED
  BY <1>6, <1>7, <1>8, <1>9, <1>10, <1>13 DEF ChildStep, ChildRun, ChildReceive

-----------------------------------------------------------------------------
(* The system *)

LEMMA InitOpened == Init => OpenedInv
BY AddressAssumption
DEF Init, InitNetwork, InitSender, InitReceiver, OpenedInv, Opened, FlushingOpened,
    NoWriteWithoutFile

LEMMA NextOpened == TypeOK /\ OpenedInv /\ [Next]_vars => OpenedInv'
<1> SUFFICES ASSUME TypeOK, OpenedInv, [Next]_vars PROVE OpenedInv'
  OBVIOUS
<1>1. CASE Discard \/ Drop \/ UNCHANGED vars
  <2>1. net' \subseteq net
    BY <1>1 DEF Discard, Drop, Lose, vars, netVars
  <2>2. UNCHANGED <<server, fdOpen, expectedSeqNum, child>>
    BY <1>1 DEF Discard, Drop, vars, senderVars, receiverVars
  <2> QED
    BY <2>1, <2>2 DEF OpenedInv, Opened, FlushingOpened, NoWriteWithoutFile
<1> QED
  BY <1>1, RcopyStepOpened, ChildStepOpened DEF Next

\* No block is written by a child whose open failed: its address never reaches
\* rcopy (receive_initial_PDU goes on to MANAGE_INCOMING_DATA all the same).
THEOREM OpenedCorrect == Spec => []NoWriteWithoutFile
<1>1. TypeOK /\ EofKnown /\ OpenedInv /\ [Next]_vars
        => (TypeOK /\ EofKnown /\ OpenedInv)'
  BY NextType, NextOpened
<1>2. Spec => [](TypeOK /\ EofKnown /\ OpenedInv)
  BY <1>1, InitType, InitOpened, PTL DEF Spec
<1>3. OpenedInv => NoWriteWithoutFile
  BY DEF OpenedInv
<1> QED
  BY <1>2, <1>3, PTL

=============================================================================
