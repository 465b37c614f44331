-------------------------------- MODULE Sender --------------------------------
(***************************************************************************)
(* rcopy, the sending program: the state machine of processFile (rcopy.c)  *)
(* and the sliding window it keeps (windowing.c).                          *)
(*                                                                         *)
(* The data in the file is abstracted to the sequence Source of the blocks *)
(* that successive reads return.  A read that returns data is always       *)
(* followed by getNextSeqNum, so the position in the file is sequenceNum.  *)
(*                                                                         *)
(* An action runs from one blocking call (or one iteration of a loop that  *)
(* sends) to the next.                                                     *)
(***************************************************************************)
EXTENDS Network

VARIABLES
  NS,             \* STATE of the state machine
  server,         \* where rcopy sends: overwritten by every recvfrom
  polling,        \* FILENAME: waiting for the answer; SEND_DATA: in the poll loop
  counter,        \* the tries of the loop that is running
  lower,          \* the lowest packet not acknowledged
  sequenceNum,    \* the last sequence number used
  window_buffer,  \* struct SR_buffer[window_size]
  eof,            \* has read returned 0?
  eofSeqNum,      \* the sequence number of the EOF packet, once eof
  complete        \* has "file transfer complete" been printed?

windowVars == <<lower, sequenceNum, window_buffer>>
senderVars == <<NS, server, polling, counter, lower, sequenceNum, window_buffer,
                eof, eofSeqNum, complete>>

States == {"FILENAME", "FILE_OK", "SEND_DATA", "WAIT_ON_ACK",
           "WAIT_ON_EOF_ACK", "DONE"}

-----------------------------------------------------------------------------
(* windowing.c *)

\* Mutant: the window is one packet too large.
checkWindowOpen_TooWide(nextSeqNum) == nextSeqNum <= lower + Window

checkWindowOpen(nextSeqNum) == nextSeqNum < lower + Window

windowStorePacket(sn, data) ==
  window_buffer' = [window_buffer EXCEPT ![sn % Window] =
                      [sequenceNumber |-> sn, validFlag |-> 0, buff |-> data]]

\* Mutant: an RR that arrives late moves the window back.
LowerAfter_OldRR(p) == IF p.flag = "RR_PACKET" THEN p.seq ELSE lower

\* lower after the answer p: an RR raises it, never lowers it.
LowerAfter(p) ==
  IF p.flag = "RR_PACKET" /\ lower < p.seq THEN p.seq ELSE lower

\* The slots after validateBuffer ran on every number p acknowledges.
ValidatedBy(p) ==
  [i \in DOMAIN window_buffer |->
     IF window_buffer[i].sequenceNumber \in lower .. (LowerAfter(p) - 1)
       THEN [window_buffer[i] EXCEPT !.validFlag = 1]
       ELSE window_buffer[i]]

processRRpacket(p) == window_buffer' = ValidatedBy(p) /\ lower' = LowerAfter(p)

\* Mutant: whatever the slot holds is resent under the number asked for.
getPacketToResend_AnySlot(n, dst) ==
  IF n = 0 THEN {}
  ELSE {createPDU("DATA_PKT", Rcopy, dst, n, window_buffer[n % Window].buff)}

\* What is sent to dst when packet n is asked for: nothing unless its slot
\* still holds it (a slot never used has number 0 and length 0).
getPacketToResend(n, dst) ==
  LET slot == window_buffer[n % Window]
  IN  IF slot.sequenceNumber = n /\ n # 0
        THEN {createPDU("DATA_PKT", Rcopy, dst, n, slot.buff)}
        ELSE {}

processSREJpacket(p) ==
  IF p.flag = "SREJ_PACKET" THEN getPacketToResend(p.seq, p.src) ELSE {}

-----------------------------------------------------------------------------

InitSender ==
  /\ NS = "FILENAME"
  /\ server = Server
  /\ polling = FALSE
  /\ counter = 0
  /\ lower = 1
  /\ sequenceNum = 0
  /\ window_buffer = initializeBuffer(Window)
  /\ eof = 0
  /\ eofSeqNum = 0
  /\ complete = FALSE

-----------------------------------------------------------------------------
(* sendSetupPacket *)

SetupPDU == createPDU("RCOPY_TO_SERVER", Rcopy, server, 0, ZeroByte)

\* One more iteration: the setup packet goes to whoever answered last.
SendSetup ==
  /\ NS = "FILENAME" /\ ~polling /\ counter < MaxTries
  /\ Send({SetupPDU})
  /\ polling' = TRUE
  /\ UNCHANGED <<NS, server, counter, windowVars, eof, eofSeqNum, complete>>

SetupTimeout ==
  /\ NS = "FILENAME" /\ polling /\ Polls("rcopy")
  /\ polling' = FALSE
  /\ counter' = counter + 1
  /\ UNCHANGED <<NS, server, windowVars, eof, eofSeqNum, complete, netVars>>

\* An answer: only its flag is looked at, never its checksum.
SetupAnswered(p, flagRight) ==
  /\ NS = "FILENAME" /\ polling
  /\ p.dst = Rcopy
  /\ server' = p.src
  /\ polling' = FALSE
  /\ IF flagRight THEN NS' = "FILE_OK" /\ counter' = 0
                  ELSE NS' = NS /\ counter' = counter + 1
  /\ UNCHANGED <<windowVars, eof, eofSeqNum, complete>>

SetupAnswer(p) ==
  /\ SetupAnswered(p, p.flag = "SERVER_TO_RCOPY")
  /\ Receive(p, {})

\* The byte that is flipped may be the flag or another one.
SetupAnswerFlipped(p) ==
  /\ \E flagHit \in BOOLEAN :
        SetupAnswered(p, p.flag = "SERVER_TO_RCOPY" /\ ~flagHit)
  /\ ReceiveFlipped(p, {})

SetupGiveUp ==
  /\ NS = "FILENAME" /\ ~polling /\ counter = MaxTries
  /\ NS' = "DONE"
  /\ UNCHANGED <<server, polling, counter, windowVars, eof, eofSeqNum, complete,
                 netVars>>

FileOk ==
  /\ NS = "FILE_OK"
  /\ NS' = "SEND_DATA"
  /\ UNCHANGED <<server, polling, counter, windowVars, eof, eofSeqNum, complete,
                 netVars>>

-----------------------------------------------------------------------------
(* dataTransfer *)

EofPDU(dst, n) == createPDU("EOF_FLAG", Rcopy, dst, n, ZeroByte)

\* read returned a block: number it, keep it, send it, then poll.
SendBlock ==
  /\ NS = "SEND_DATA" /\ eof = 0
  /\ checkWindowOpen(sequenceNum + 1)
  /\ sequenceNum < NumBlocks
  /\ sequenceNum' = sequenceNum + 1
  /\ windowStorePacket(sequenceNum + 1, Source[sequenceNum + 1])
  /\ Send({createPDU("DATA_PKT", Rcopy, server, sequenceNum + 1,
                     Source[sequenceNum + 1])})
  /\ polling' = TRUE
  /\ UNCHANGED <<NS, server, counter, lower, eof, eofSeqNum, complete>>

\* Mutant: the EOF packet does not wait for the last acknowledgments.
ReadEof_Early ==
  /\ NS = "SEND_DATA" /\ eof = 0
  /\ checkWindowOpen(sequenceNum + 1)
  /\ sequenceNum = NumBlocks
  /\ eof' = 1 /\ eofSeqNum' = sequenceNum + 1
  /\ NS' = "WAIT_ON_EOF_ACK" /\ counter' = 0 /\ polling' = FALSE
  /\ Send({EofPDU(server, sequenceNum + 1)})
  /\ UNCHANGED <<server, windowVars, complete>>

\* Mutant: whether anything is unacknowledged is not looked at.
ReadEof_AlwaysWaits ==
  /\ NS = "SEND_DATA" /\ eof = 0
  /\ checkWindowOpen(sequenceNum + 1)
  /\ sequenceNum = NumBlocks
  /\ eof' = 1 /\ eofSeqNum' = sequenceNum + 1
  /\ NS' = "WAIT_ON_ACK" /\ polling' = FALSE
  /\ UNCHANGED <<server, counter, windowVars, complete, netVars>>

\* read returned 0.  When everything is acknowledged the next state's first
\* act, sending the EOF packet, follows at once.
ReadEof ==
  /\ NS = "SEND_DATA" /\ eof = 0
  /\ checkWindowOpen(sequenceNum + 1)
  /\ sequenceNum = NumBlocks
  /\ eof' = 1
  /\ eofSeqNum' = sequenceNum + 1
  /\ IF lower = sequenceNum + 1
       THEN /\ NS' = "WAIT_ON_EOF_ACK" /\ counter' = 0
            /\ Send({EofPDU(server, sequenceNum + 1)})
       ELSE /\ NS' = "WAIT_ON_ACK" /\ counter' = counter
            /\ UNCHANGED netVars
  /\ polling' = FALSE
  /\ UNCHANGED <<server, windowVars, complete>>

ReadError ==
  /\ NS = "SEND_DATA" /\ eof = 0 /\ "read" \in IOFaults
  /\ checkWindowOpen(sequenceNum + 1)
  /\ NS' = "DONE"
  /\ polling' = FALSE
  /\ UNCHANGED <<server, counter, windowVars, eof, eofSeqNum, complete, netVars>>

WindowShut ==
  /\ NS = "SEND_DATA"
  /\ eof = 1 \/ ~checkWindowOpen(sequenceNum + 1)
  /\ NS' = "WAIT_ON_ACK"
  /\ polling' = FALSE
  /\ UNCHANGED <<server, counter, windowVars, eof, eofSeqNum, complete, netVars>>

\* processRRorSREJ on an intact answer; an answer with another flag does
\* nothing.  Resent packets go to the sender of the answer, and so does out.
processRRorSREJ(p, out) ==
  /\ p.dst = Rcopy
  /\ Receive(p, processSREJpacket(p) \cup out)
  /\ processRRpacket(p)
  /\ server' = p.src
  /\ UNCHANGED sequenceNum

\* An answer is in the queue right after a block was sent.
PollAck(p) ==
  /\ NS = "SEND_DATA" /\ polling /\ Polls("rcopy")
  /\ processRRorSREJ(p, {})
  /\ UNCHANGED <<NS, polling, counter, eof, eofSeqNum, complete>>

\* "checksum failed": only the address the answer came from is kept.
DropFlipped(p) ==
  /\ \/ NS = "SEND_DATA" /\ polling /\ Polls("rcopy")
     \/ NS \in {"WAIT_ON_ACK", "WAIT_ON_EOF_ACK"} /\ counter < MaxTries
  /\ p.dst = Rcopy
  /\ ReceiveFlipped(p, {})
  /\ server' = p.src
  /\ UNCHANGED <<NS, polling, counter, windowVars, eof, eofSeqNum, complete>>

-----------------------------------------------------------------------------
(* waitOnAck *)

\* Mutant: the tries are not counted.
AckTimeout_Uncounted ==
  /\ NS = "WAIT_ON_ACK" /\ counter < MaxTries
  /\ Send(getPacketToResend(lower, server))
  /\ UNCHANGED senderVars

\* Mutant: nothing is resent.
AckTimeout_Silent ==
  /\ NS = "WAIT_ON_ACK" /\ counter < MaxTries
  /\ counter' = counter + 1
  /\ UNCHANGED <<NS, server, polling, windowVars, eof, eofSeqNum, complete, netVars>>

AckTimeout ==
  /\ NS = "WAIT_ON_ACK" /\ counter < MaxTries /\ Polls("rcopy")
  /\ Send(getPacketToResend(lower, server))
  /\ counter' = counter + 1
  /\ UNCHANGED <<NS, server, polling, windowVars, eof, eofSeqNum, complete>>

\* The tries are used up: an answer that is already in the queue is not read.
AckGiveUp ==
  /\ NS = "WAIT_ON_ACK" /\ counter >= MaxTries
  /\ NS' = "DONE"
  /\ UNCHANGED <<server, polling, counter, windowVars, eof, eofSeqNum, complete,
                 netVars>>

\* Only an RR that raises lower lets more data be sent; when it acknowledges
\* the last block the EOF packet is sent at once.
WaitAck(p) ==
  LET advanced == lower < LowerAfter(p)
      allAcked == eof = 1 /\ LowerAfter(p) = eofSeqNum
  IN  /\ NS = "WAIT_ON_ACK" /\ counter < MaxTries
      /\ processRRorSREJ(p, IF allAcked THEN {EofPDU(p.src, eofSeqNum)} ELSE {})
      /\ NS' = IF allAcked THEN "WAIT_ON_EOF_ACK"
               ELSE IF advanced THEN "SEND_DATA" ELSE "WAIT_ON_ACK"
      /\ counter' = IF advanced \/ allAcked THEN 0 ELSE counter
      /\ UNCHANGED <<polling, eof, eofSeqNum, complete>>

-----------------------------------------------------------------------------
(* waitOnEOFAck *)

\* The last iteration sends an EOF packet whose answer is never polled for.
EofTimeout ==
  /\ NS = "WAIT_ON_EOF_ACK" /\ counter < MaxTries /\ Polls("rcopy")
  /\ Send({EofPDU(server, eofSeqNum)})
  /\ counter' = counter + 1
  /\ UNCHANGED <<NS, server, polling, windowVars, eof, eofSeqNum, complete>>

\* "I give up"
EofGiveUp ==
  /\ NS = "WAIT_ON_EOF_ACK" /\ counter >= MaxTries
  /\ NS' = "DONE"
  /\ UNCHANGED <<server, polling, counter, windowVars, eof, eofSeqNum, complete,
                 netVars>>

\* "file transfer complete"
EofAcked(p) ==
  /\ NS = "WAIT_ON_EOF_ACK" /\ counter < MaxTries
  /\ p.flag = "EOF_ACK"
  /\ processRRorSREJ(p, {})
  /\ NS' = "DONE"
  /\ complete' = TRUE
  /\ UNCHANGED <<polling, counter, eof, eofSeqNum>>

\* Any RR or SREJ is answered with the EOF packet, and costs no try.
EofNotAcked(p) ==
  /\ NS = "WAIT_ON_EOF_ACK" /\ counter < MaxTries
  /\ p.flag # "EOF_ACK"
  /\ processRRorSREJ(p, IF p.flag \in {"RR_PACKET", "SREJ_PACKET"}
                          THEN {EofPDU(p.src, eofSeqNum)} ELSE {})
  /\ UNCHANGED <<NS, polling, counter, eof, eofSeqNum, complete>>

-----------------------------------------------------------------------------

\* A poll of one second that ends with nothing received.
SenderTimeout == SetupTimeout \/ AckTimeout \/ EofTimeout

SenderReceive(p) ==
  \/ SetupAnswer(p) \/ SetupAnswerFlipped(p)
  \/ PollAck(p)     \/ DropFlipped(p)
  \/ WaitAck(p)
  \/ EofAcked(p)    \/ EofNotAcked(p)

\* The steps that wait for nothing.
SenderRun ==
  \/ SendSetup \/ SetupGiveUp \/ FileOk
  \/ SendBlock \/ ReadEof \/ ReadError \/ WindowShut
  \/ AckGiveUp \/ EofGiveUp

-----------------------------------------------------------------------------

SenderTypeOK ==
  /\ NS \in States /\ server \in Addresses
  /\ polling \in BOOLEAN /\ counter \in Nat
  /\ lower \in Nat /\ sequenceNum \in Nat
  /\ window_buffer \in [0 .. (Window - 1) -> Slot]
  /\ eof \in {0, 1} /\ eofSeqNum \in Nat
  /\ complete \in BOOLEAN

=============================================================================
