------------------------------- MODULE Receiver -------------------------------
(***************************************************************************)
(* The server (server.c): a main process that forks a child for every      *)
(* datagram it receives, and the children, each of which opens the output  *)
(* file, receives the data and writes it through the buffering state       *)
(* machine of bufferMngment.c.                                             *)
(*                                                                         *)
(* The output file is a function from block positions to what was last     *)
(* written there since the last truncation, Hole when nothing was.  Every  *)
(* write of a child is followed by an increment of expectedSeqNum, so the   *)
(* position of its file descriptor is its expectedSeqNum, also after a     *)
(* short write, when every block after it is nearer the beginning of the   *)
(* file: with a second child their places would overlap, so FaultAssumption *)
(* keeps short writes to one child.                                        *)
(***************************************************************************)
EXTENDS Network

CONSTANTS
  SizeField,   \* 2^16: the window size travels in two bytes
  Hole,        \* a position of the file that was not written
  Part         \* the beginning of a block, left by a short write

\* window_size of a child.  Zero would be a division by zero in the child.
ServerWindow == Window % SizeField

ASSUME SizeAssumption ==
  /\ SizeField \in Nat \ {0} /\ ServerWindow # 0
  /\ Hole \notin Blocks \cup {ZeroByte, Part} /\ Part \notin Blocks \cup {ZeroByte}

VARIABLES
  child,           \* what each child is doing; "none": not forked
  intact,          \* did the checksum and flag of its first PDU hold?
  fdOpen,          \* is buffer_struct->file_fd the output file?
  state,           \* tracker.state
  expectedSeqNum,  \* tracker.expectedSeqNum
  eofReceived,     \* tracker.eofSeqNum, -1 until an EOF packet arrives
  buffer,          \* tracker.buffer
  timeouts,        \* counter of continuouslySendEOFAck
  file             \* the output file, shared by the children

trackerVars == <<state, expectedSeqNum, eofReceived, buffer>>
receiverVars == <<child, intact, fdOpen, state, expectedSeqNum, eofReceived,
                  buffer, timeouts, file>>

\* "FLUSH": in the loop of flushingFunction, "SENDING_EOF_ACK": in that of
\* continuouslySendEOFAck.
ChildStates == {"none", "ACCEPT_FILENAME", "MANAGE_INCOMING_DATA", "FLUSH",
                "SENDING_EOF_ACK", "DONE"}

\* receiverState; BUFFER_DONE ends the child within the step that enters it.
TrackerStates == {"INORDER", "BUFFERING", "FLUSHING", "SEND_EOF_ACK",
                  "BUFFER_DONE"}

\* What a position of the file may hold.
Contents == Blocks \cup {ZeroByte, Part, Hole}

EmptyFile == [i \in 1 .. (NumBlocks + 1) |-> Hole]

-----------------------------------------------------------------------------

InitReceiver ==
  /\ child = [c \in Children |-> "none"]
  /\ intact = [c \in Children |-> FALSE]
  /\ fdOpen = [c \in Children |-> FALSE]
  /\ state = [c \in Children |-> "INORDER"]
  /\ expectedSeqNum = [c \in Children |-> 1]
  /\ eofReceived = [c \in Children |-> -1]
  /\ buffer = [c \in Children |-> initializeBuffer(ServerWindow)]
  /\ timeouts = [c \in Children |-> 0]
  /\ file = EmptyFile

-----------------------------------------------------------------------------
(* processServer and receive_initial_PDU *)

\* Whatever arrives at the server's port makes it fork.
Fork(c, p, firstIntact) ==
  /\ child[c] = "none"
  /\ p.dst = Server
  /\ child' = [child EXCEPT ![c] = "ACCEPT_FILENAME"]
  /\ intact' = [intact EXCEPT ![c] = firstIntact /\ p.flag = "RCOPY_TO_SERVER"]
  /\ UNCHANGED <<fdOpen, trackerVars, timeouts, file>>

ForkIntact(c, p)  == Fork(c, p, TRUE) /\ Receive(p, {})
ForkFlipped(c, p) == Fork(c, p, FALSE) /\ ReceiveFlipped(p, {})

\* "Checksum failed on first PDU sent", "Incorrect flag received ..."
RejectSetup(c) ==
  /\ child[c] = "ACCEPT_FILENAME" /\ ~intact[c]
  /\ child' = [child EXCEPT ![c] = "DONE"]
  /\ UNCHANGED <<intact, fdOpen, trackerVars, timeouts, file, netVars>>

\* O_TRUNC empties the file, whoever else is writing it.
AcceptSetup(c) ==
  /\ child[c] = "ACCEPT_FILENAME" /\ intact[c]
  /\ child' = [child EXCEPT ![c] = "MANAGE_INCOMING_DATA"]
  /\ fdOpen' = [fdOpen EXCEPT ![c] = TRUE]
  /\ file' = EmptyFile
  /\ Send({createPDU("SERVER_TO_RCOPY", c, Rcopy, 0, ZeroByte)})
  /\ UNCHANGED <<intact, trackerVars, timeouts>>

\* Mutant: rcopy is told that the file is there when it could not be opened.
OpenFails_Answers(c) ==
  /\ child[c] = "ACCEPT_FILENAME" /\ intact[c] /\ "open" \in IOFaults
  /\ child' = [child EXCEPT ![c] = "MANAGE_INCOMING_DATA"]
  /\ Send({createPDU("SERVER_TO_RCOPY", c, Rcopy, 0, ZeroByte)})
  /\ UNCHANGED <<intact, fdOpen, trackerVars, timeouts, file>>

\* sendErrorPacket hands sendto the address of a pointer: the child dies of
\* the error, or, when the injector drops the packet, goes on without a file.
OpenFails(c) ==
  /\ child[c] = "ACCEPT_FILENAME" /\ intact[c] /\ "open" \in IOFaults
  /\ \E next \in {"DONE", "MANAGE_INCOMING_DATA"} :
        child' = [child EXCEPT ![c] = next]
  /\ UNCHANGED <<intact, fdOpen, trackerVars, timeouts, file, netVars>>

-----------------------------------------------------------------------------
(* bufferMngment.c: what a child sends, and the slots of its buffer *)

\* Mutant: the RR also acknowledges the packet that is still expected.
RR_PastExpected(c, n) == createPDU("RR_PACKET", c, Rcopy, n + 1, ZeroByte)

RR(c, n)      == createPDU("RR_PACKET", c, Rcopy, n, ZeroByte)
SREJ(c, n)    == createPDU("SREJ_PACKET", c, Rcopy, n, ZeroByte)
EOFAck(c, n)  == createPDU("EOF_ACK", c, Rcopy, n, ZeroByte)

\* Mutant: whichever packet is in the slot is taken for packet n.
checkIfBuffered_AnyNumber(c, n) == buffer[c][n % ServerWindow].validFlag = 1

checkIfBuffered(c, n) ==
  LET slot == buffer[c][n % ServerWindow]
  IN  slot.validFlag = 1 /\ slot.sequenceNumber = n

storePacketInBuffer(c, p) ==
  [buffer[c] EXCEPT ![p.seq % ServerWindow] =
     [sequenceNumber |-> p.seq, validFlag |-> 1, buff |-> p.data]]

SlotCleared(c, n) == [buffer[c] EXCEPT ![n % ServerWindow].validFlag = 0]

\* What a write of data may leave on disk: it may return less than it was asked
\* for, the code looks only for an error.
OnDisk(data) ==
  {data} \cup (IF "short" \in IOFaults /\ data # ZeroByte THEN {Part} ELSE {})

Tracker(c, next, expected, slots) ==
  /\ state' = [state EXCEPT ![c] = next]
  /\ expectedSeqNum' = [expectedSeqNum EXCEPT ![c] = expected]
  /\ buffer' = [buffer EXCEPT ![c] = slots]

\* Mutant: the number of the EOF packet is not kept.
Manages_EofForgotten(c, p, st) ==
  /\ child[c] = "MANAGE_INCOMING_DATA" /\ state[c] = st
  /\ p.dst = c
  /\ p.flag \in {"DATA_PKT", "EOF_FLAG"}
  /\ UNCHANGED <<intact, fdOpen, eofReceived>>

\* An intact datagram for child c in manage_incoming_data, tracker state st,
\* that is passed to bufferManagement.  An EOF packet's number is kept first.
Manages(c, p, st) ==
  /\ child[c] = "MANAGE_INCOMING_DATA" /\ state[c] = st
  /\ p.dst = c
  /\ p.flag \in {"DATA_PKT", "EOF_FLAG"}
  /\ eofReceived' = [eofReceived EXCEPT
                       ![c] = IF p.flag = "EOF_FLAG" THEN p.seq ELSE @]
  /\ UNCHANGED <<intact, fdOpen>>

-----------------------------------------------------------------------------
(* inorderFunction and bufferingFunction *)

\* The expected block is written.  When blocks are missing nothing is sent:
\* what was buffered is flushed when the next packet arrives.
ExpectedData(c, p) ==
  LET n == expectedSeqNum[c]
  IN  \E st \in {"INORDER", "BUFFERING"}, written \in OnDisk(p.data) :
        /\ Manages(c, p, st)
        /\ p.flag = "DATA_PKT" /\ p.seq = n
        /\ file' = [file EXCEPT ![n] = written]
        /\ Tracker(c, IF st = "INORDER" THEN "INORDER" ELSE "FLUSHING",
                   n + 1, SlotCleared(c, n))
        /\ Receive(p, IF st = "INORDER" THEN {RR(c, n + 1)} ELSE {})
        /\ UNCHANGED <<child, timeouts>>

\* Mutant: an EOF packet is taken for the end whatever is still missing.
ExpectedEof_AnyNumber(c, p) ==
  LET n == expectedSeqNum[c]
  IN  /\ \E st \in {"INORDER", "BUFFERING"} : Manages(c, p, st)
      /\ p.flag = "EOF_FLAG"
      /\ Tracker(c, "SEND_EOF_ACK", n + 1, buffer[c])
      /\ Receive(p, {EOFAck(c, n)})
      /\ UNCHANGED <<child, timeouts, file>>

ExpectedEof(c, p) ==
  LET n == expectedSeqNum[c]
  IN  /\ \E st \in {"INORDER", "BUFFERING"} : Manages(c, p, st)
      /\ p.flag = "EOF_FLAG" /\ p.seq = n
      /\ Tracker(c, "SEND_EOF_ACK", n + 1, buffer[c])
      /\ Receive(p, {EOFAck(c, n)})
      /\ UNCHANGED <<child, timeouts, file>>

\* A later packet is buffered; only the first one of a gap is answered SREJ.
AheadOfExpected(c, p) ==
  LET n == expectedSeqNum[c]
  IN  \E st \in {"INORDER", "BUFFERING"} :
        /\ Manages(c, p, st)
        /\ p.seq > n
        /\ Tracker(c, "BUFFERING", n, storePacketInBuffer(c, p))
        /\ Receive(p, IF st = "INORDER" THEN {SREJ(c, n)} ELSE {RR(c, n)})
        /\ UNCHANGED <<child, timeouts, file>>

BehindExpected(c, p) ==
  LET n == expectedSeqNum[c]
  IN  \E st \in {"INORDER", "BUFFERING"} :
        /\ Manages(c, p, st)
        /\ p.seq < n
        /\ Tracker(c, st, n, buffer[c])
        /\ Receive(p, {RR(c, n)})
        /\ UNCHANGED <<child, timeouts, file>>

\* "write failed": the child ends.
WriteFails(c, p) ==
  LET n == expectedSeqNum[c]
  IN  /\ "write" \in IOFaults
      /\ \E st \in {"INORDER", "BUFFERING"} : Manages(c, p, st)
      /\ p.flag = "DATA_PKT" /\ p.seq = n
      /\ Tracker(c, "BUFFER_DONE", n, buffer[c])
      /\ child' = [child EXCEPT ![c] = "DONE"]
      /\ Receive(p, {})
      /\ UNCHANGED <<timeouts, file>>

-----------------------------------------------------------------------------
(* flushingFunction: the buffered packets from the expected one on are written,
   one after the other; another child may step in between *)

\* p itself is thrown away.
Flush(c, p) ==
  /\ Manages(c, p, "FLUSHING")
  /\ child' = [child EXCEPT ![c] = "FLUSH"]
  /\ Receive(p, {})
  /\ UNCHANGED <<state, expectedSeqNum, buffer, timeouts, file>>

\* Mutant: the packet is counted but not written.
FlushWrite_Skips(c) ==
  LET n == expectedSeqNum[c]
  IN  /\ child[c] = "FLUSH" /\ checkIfBuffered(c, n)
      /\ Tracker(c, "FLUSHING", n + 1, SlotCleared(c, n))
      /\ UNCHANGED <<child, intact, fdOpen, eofReceived, timeouts, file, netVars>>

\* Mutant: the slot is not freed after its packet was written.
FlushWrite_Keeps(c) ==
  LET n == expectedSeqNum[c]
  IN  /\ child[c] = "FLUSH" /\ checkIfBuffered(c, n)
      /\ \E written \in OnDisk(buffer[c][n % ServerWindow].buff) :
            file' = [file EXCEPT ![n] = written]
      /\ Tracker(c, "FLUSHING", n + 1, buffer[c])
      /\ UNCHANGED <<child, intact, fdOpen, eofReceived, timeouts, netVars>>

FlushWrite(c) ==
  LET n == expectedSeqNum[c]
  IN  /\ child[c] = "FLUSH" /\ checkIfBuffered(c, n)
      /\ \E written \in OnDisk(buffer[c][n % ServerWindow].buff) :
            file' = [file EXCEPT ![n] = written]
      /\ Tracker(c, "FLUSHING", n + 1, SlotCleared(c, n))
      /\ UNCHANGED <<child, intact, fdOpen, eofReceived, timeouts, netVars>>

\* "write failed": the packets written before it are not acknowledged.
FlushFails(c) ==
  LET n == expectedSeqNum[c]
  IN  /\ child[c] = "FLUSH" /\ checkIfBuffered(c, n)
      /\ "write" \in IOFaults
      /\ Tracker(c, "BUFFER_DONE", n, buffer[c])
      /\ child' = [child EXCEPT ![c] = "DONE"]
      /\ UNCHANGED <<intact, fdOpen, eofReceived, timeouts, file, netVars>>

\* The expected packet is missing: one RR for all that were written.
FlushEnds(c) ==
  LET n == expectedSeqNum[c]
  IN  /\ child[c] = "FLUSH" /\ ~checkIfBuffered(c, n)
      /\ n # eofReceived[c] + 1 \/ eofReceived[c] = -1
      /\ Tracker(c, "INORDER", n, buffer[c])
      /\ child' = [child EXCEPT ![c] = "MANAGE_INCOMING_DATA"]
      /\ Send({RR(c, n)})
      /\ UNCHANGED <<intact, fdOpen, eofReceived, timeouts, file>>

\* The EOF packet was among them: the child answers it once and ends.
FlushEndsAtEof(c) ==
  LET n == expectedSeqNum[c]
  IN  /\ child[c] = "FLUSH" /\ ~checkIfBuffered(c, n)
      /\ n = eofReceived[c] + 1 /\ eofReceived[c] # -1
      /\ Tracker(c, "BUFFER_DONE", n, buffer[c])
      /\ child' = [child EXCEPT ![c] = "DONE"]
      /\ Send({EOFAck(c, eofReceived[c])})
      /\ UNCHANGED <<intact, fdOpen, eofReceived, timeouts, file>>

-----------------------------------------------------------------------------
(* manage_incoming_data on what bufferManagement never sees *)

\* "Bad checksum": the expected packet is asked for in every tracker state.
BadChecksum(c, p) ==
  /\ child[c] = "MANAGE_INCOMING_DATA"
  /\ p.dst = c
  /\ ReceiveFlipped(p, {SREJ(c, expectedSeqNum[c])})
  /\ UNCHANGED receiverVars

IgnoreOther(c, p) ==
  /\ child[c] = "MANAGE_INCOMING_DATA"
  /\ p.dst = c
  /\ p.flag \notin {"DATA_PKT", "EOF_FLAG"}
  /\ Receive(p, {})
  /\ UNCHANGED receiverVars

-----------------------------------------------------------------------------
(* continuouslySendEOFAck *)

\* The second packet after the end of the file was seen starts the loop.
EnterEofAckLoop(c, p) ==
  /\ Manages(c, p, "SEND_EOF_ACK")
  /\ child' = [child EXCEPT ![c] = "SENDING_EOF_ACK"]
  /\ Receive(p, {EOFAck(c, eofReceived'[c])})
  /\ UNCHANGED <<state, expectedSeqNum, buffer, timeouts, file>>

\* Any datagram, intact or not, is answered.
EofLoopAnswer(c, p) ==
  /\ child[c] = "SENDING_EOF_ACK" /\ timeouts[c] < MaxTries
  /\ p.dst = c
  /\ \/ Receive(p, {EOFAck(c, eofReceived[c])})
     \/ ReceiveFlipped(p, {EOFAck(c, eofReceived[c])})
  /\ UNCHANGED receiverVars

EofLoopTimeout(c) ==
  /\ child[c] = "SENDING_EOF_ACK" /\ timeouts[c] < MaxTries
  /\ Polls("server")
  /\ timeouts' = [timeouts EXCEPT ![c] = @ + 1]
  /\ UNCHANGED <<child, intact, fdOpen, trackerVars, file, netVars>>

EofLoopDone(c) ==
  /\ child[c] = "SENDING_EOF_ACK" /\ timeouts[c] >= MaxTries
  /\ child' = [child EXCEPT ![c] = "DONE"]
  /\ state' = [state EXCEPT ![c] = "BUFFER_DONE"]
  /\ UNCHANGED <<intact, fdOpen, expectedSeqNum, eofReceived, buffer, timeouts,
                 file, netVars>>

-----------------------------------------------------------------------------

ChildReceive(c, p) ==
  \/ ForkIntact(c, p)      \/ ForkFlipped(c, p)
  \/ ExpectedData(c, p)    \/ ExpectedEof(c, p)
  \/ AheadOfExpected(c, p) \/ BehindExpected(c, p)
  \/ Flush(c, p)           \/ WriteFails(c, p)
  \/ BadChecksum(c, p)     \/ IgnoreOther(c, p)
  \/ EnterEofAckLoop(c, p) \/ EofLoopAnswer(c, p)

\* The steps that wait for nothing.
ChildRun(c) ==
  \/ RejectSetup(c) \/ AcceptSetup(c) \/ OpenFails(c)
  \/ FlushWrite(c)  \/ FlushFails(c)
  \/ FlushEnds(c)   \/ FlushEndsAtEof(c)
  \/ EofLoopDone(c)

-----------------------------------------------------------------------------

ReceiverTypeOK ==
  /\ child \in [Children -> ChildStates]
  /\ intact \in [Children -> BOOLEAN]
  /\ fdOpen \in [Children -> BOOLEAN]
  /\ state \in [Children -> TrackerStates]
  /\ expectedSeqNum \in [Children -> Nat]
  /\ eofReceived \in [Children -> Nat \cup {-1}]
  /\ buffer \in [Children -> [0 .. (ServerWindow - 1) -> Slot]]
  /\ timeouts \in [Children -> Nat]
  /\ file \in [1 .. (NumBlocks + 1) -> Contents]

=============================================================================
