---------------------------- MODULE SelectiveReject ----------------------------
(***************************************************************************)
(* rcopy and the server together: one run of rcopy, copying one file.      *)
(***************************************************************************)
EXTENDS Sender, Receiver

CONSTANT
  Prompt   \* does every datagram arrive before the next poll times out?

ASSUME PromptAssumption == Prompt \in BOOLEAN

vars == <<netVars, senderVars, receiverVars>>

Init == InitNetwork /\ InitSender /\ InitReceiver

-----------------------------------------------------------------------------

\* Nothing is on its way to or from rcopy.
Quiet ==
  net = {} /\ \A c \in Children : child[c] \notin {"ACCEPT_FILENAME", "FLUSH"}

RcopyStep ==
  /\ \/ SenderRun
     \/ (Prompt => Quiet) /\ SenderTimeout
     \/ \E p \in net : SenderReceive(p)
  /\ UNCHANGED receiverVars

\* A child's poll of one second starts after rcopy's, so each of its timeouts
\* follows one of rcopy's.
ChildStep(c) ==
  /\ \/ ChildRun(c)
     \/ /\ Prompt => Quiet /\ (timeouts[c] < counter \/ NS = "DONE")
        /\ EofLoopTimeout(c)
     \/ \E p \in net : ChildReceive(c, p)
  /\ UNCHANGED senderVars

\* A datagram for a program that has ended: there is no socket any more.
NobodyAt(a) ==
  \/ a = Rcopy /\ NS = "DONE"
  \/ a \in Children /\ child[a] = "DONE"

Discard ==
  /\ \E p \in net : NobodyAt(p.dst) /\ net' = net \ {p}
  /\ UNCHANGED <<losses, flips, senderVars, receiverVars>>

Drop == Lose /\ UNCHANGED <<senderVars, receiverVars>>

Next == RcopyStep \/ (\E c \in Children : ChildStep(c)) \/ Discard \/ Drop

Spec == Init /\ [][Next]_vars

\* A poll returns within a second, recvfrom when a datagram has come, and no
\* program stops between two calls.  That a datagram ever arrives is not assumed:
\* a poll may time out as often as the code lets it.
FairSpec ==
  /\ Spec
  /\ WF_vars(RcopyStep)
  /\ \A c \in Children : WF_vars(ChildStep(c))

\* Besides, datagrams of every kind keep arriving.
Delivery(f) == Next /\ \E p \in net : p.flag = f /\ p \notin net'

DeliverySpec == FairSpec /\ \A f \in Flags : WF_vars(Delivery(f))

-----------------------------------------------------------------------------

\* Every variable has the type its declaration in the code, or the model of
\* the network, gives it.
TypeOK == NetworkTypeOK /\ SenderTypeOK /\ ReceiverTypeOK

-----------------------------------------------------------------------------
(* Safety *)

\* "file transfer complete" (rcopy.c) is printed only when the output file is
\* the source, block for block, with nothing after it.
CompleteMeansCopied ==
  complete => file = [i \in 1 .. (NumBlocks + 1) |->
                        IF i <= NumBlocks THEN Source[i] ELSE Hole]

\* rcopy slides its window, and so gives up the only copy it could resend,
\* past a block only when the block is in the output file.
AckedIsOnDisk == \A i \in 1 .. (lower - 1) : file[i] = Source[i]

\* Every block sent and not acknowledged can still be resent: it has not been
\* overwritten in window_buffer by a later one and is not marked acknowledged.
UnackedIsHeld ==
  /\ sequenceNum < lower + Window
  /\ \A n \in lower .. sequenceNum :
       window_buffer[n % Window] =
         [sequenceNumber |-> n, validFlag |-> 0, buff |-> Source[n]]

\* rcopy waits for an RR only while some block it sent is unacknowledged, so
\* each timeout of waitOnAck has a block to resend.
WaitingHasUnacked == NS = "WAIT_ON_ACK" => lower <= sequenceNum

\* dataTransfer: "only send EOF ack once all other acks are completed".
EofAfterAllAcked ==
  \A p \in net : p.flag = "EOF_FLAG" => p.seq = NumBlocks + 1 /\ lower = p.seq

\* Whatever a flush may write is a block not written yet, under its own
\* number: no old packet, and never the byte of an EOF packet, is left marked
\* valid by the ways in-order data, storing and flushing share the slots.
BufferedIsPending ==
  \A c \in Children : \A i \in DOMAIN buffer[c] :
    LET slot == buffer[c][i]
        n    == slot.sequenceNumber
    IN  slot.validFlag = 1 => /\ n \in expectedSeqNum[c] .. NumBlocks
                              /\ i = n % ServerWindow
                              /\ slot.buff = Source[n]

\* What may be at position i of the output file, besides Hole.
RightAt(i) ==
  IF i > NumBlocks THEN {ZeroByte}
  ELSE {Source[i]} \cup (IF "short" \in IOFaults THEN {Part} ELSE {})

\* However many children write the file, a block that is there is at its place,
\* all of it unless its write was short.
FileBlocksRight == \A i \in DOMAIN file : file[i] \in {Hole} \cup RightAt(i)

\* A child answers EOF_ACK only after it has received every packet up to and
\* including the EOF packet, whichever of the three ways there it took.
EofAckMeansReceived ==
  \A p \in net : p.flag = "EOF_ACK" =>
    p.seq = NumBlocks + 1 /\ expectedSeqNum[p.src] = NumBlocks + 2

\* No data is ever written through a file_fd that was not opened.
NoWriteWithoutFile == \A c \in Children : expectedSeqNum[c] > 1 => fdOpen[c]

-----------------------------------------------------------------------------
(* The inductive invariant: what holds with any number of children *)

\* The window is made of blocks of the source that were sent.
WindowInv ==
  /\ sequenceNum \in 0 .. NumBlocks
  /\ lower \in 1 .. (sequenceNum + 1)
  /\ UnackedIsHeld
  /\ \A i \in DOMAIN window_buffer :
       LET slot == window_buffer[i]
           n    == slot.sequenceNumber
       IN  n # 0 => n \in 1 .. sequenceNum /\ slot.buff = Source[n]

\* What each state of rcopy's machine knows of the window and of the EOF.
PhaseInv ==
  /\ NS \in {"FILENAME", "FILE_OK"} => eof = 0
  /\ eof = 1 => /\ sequenceNum = NumBlocks /\ eofSeqNum = NumBlocks + 1
                /\ polling = FALSE
                /\ NS \in {"SEND_DATA", "WAIT_ON_ACK"} => lower <= NumBlocks
  /\ WaitingHasUnacked
  /\ NS = "WAIT_ON_EOF_ACK" => eof = 1 /\ lower = NumBlocks + 1

\* A datagram says something that is true and stays true.
DatagramOK(p) ==
  /\ p.flag = "DATA_PKT" => p.seq \in 1 .. sequenceNum /\ p.data = Source[p.seq]
  /\ p.flag = "EOF_FLAG" =>
       p.seq = NumBlocks + 1 /\ lower = NumBlocks + 1 /\ p.data = ZeroByte
  /\ p.flag = "RR_PACKET" => p.seq \in 1 .. (sequenceNum + 1)
  /\ p.flag = "EOF_ACK" => /\ p.seq = NumBlocks + 1
                           /\ p.src \in Children
                           /\ expectedSeqNum[p.src] = NumBlocks + 2

\* A slot that may be flushed holds a packet that was sent, under its number.
SlotOK(c, slot) ==
  LET n == slot.sequenceNumber
  IN  slot.validFlag = 1 =>
        \/ n \in 1 .. sequenceNum /\ slot.buff = Source[n]
        \/ n = NumBlocks + 1 /\ slot.buff = ZeroByte
           /\ eofReceived[c] = NumBlocks + 1

\* A child expects at most the next packet rcopy will number, until it has
\* received the EOF packet.
ChildInv(c) ==
  /\ expectedSeqNum[c] \in 1 .. (NumBlocks + 2)
  /\ \/ expectedSeqNum[c] <= sequenceNum + 1
     \/ /\ sequenceNum = NumBlocks
        /\ \/ state[c] \in {"SEND_EOF_ACK", "BUFFER_DONE"}
           \/ child[c] = "FLUSH" /\ eofReceived[c] = NumBlocks + 1
  /\ eofReceived[c] \in {-1, NumBlocks + 1}
  /\ eofReceived[c] # -1 => lower = NumBlocks + 1
  /\ state[c] = "SEND_EOF_ACK" =>
       eofReceived[c] = NumBlocks + 1 /\ expectedSeqNum[c] = NumBlocks + 2
  /\ child[c] = "SENDING_EOF_ACK" => state[c] = "SEND_EOF_ACK"
  /\ child[c] = "FLUSH" => state[c] = "FLUSHING"
  /\ \A i \in DOMAIN buffer[c] : SlotOK(c, buffer[c][i])

\* rcopy, the datagrams and the children agree on what was sent: all the
\* properties above that speak of any number of children follow from this.
TransferInv ==
  /\ WindowInv /\ PhaseInv
  /\ \A p \in net : DatagramOK(p)
  /\ \A c \in Children : ChildInv(c)
  /\ FileBlocksRight

-----------------------------------------------------------------------------
(* The inductive invariant of the copy: what holds while one child has the file *)

\* No more than one child has opened the output file.  A second one truncates it
\* and starts again at block 1 (open_output_file).
OneWriter == \A c, d \in Children : fdOpen[c] /\ fdOpen[d] => c = d

WholeWrites == "short" \notin IOFaults

\* The output file when every packet below e has been received.
Beginning(e) ==
  [i \in 1 .. (NumBlocks + 1) |-> IF i < e /\ i <= NumBlocks THEN Source[i] ELSE Hole]

\* Nobody is ahead of the child that expects packet e: neither the file, nor the
\* answers under way, nor rcopy.
Reached(e) ==
  /\ WholeWrites => file = Beginning(e)
  /\ lower <= e
  /\ \A p \in net : p.flag = "RR_PACKET" => p.seq <= e
  /\ complete => e = NumBlocks + 2 /\ NS = "DONE"

\* A child that has not opened the file has received nothing.
FreshUntilOpened ==
  \A c \in Children :
    /\ child[c] \in {"none", "ACCEPT_FILENAME"} => ~fdOpen[c]
    /\ ~fdOpen[c] => \A i \in DOMAIN buffer[c] : buffer[c][i].validFlag = 0

\* Before a child opens the file nothing has been copied; then all that was is
\* what this child received, in order.
CopyInv ==
  /\ FreshUntilOpened
  /\ (\A c \in Children : ~fdOpen[c]) => Reached(1)
  /\ OneWriter => /\ \A c \in Children : fdOpen[c] => Reached(expectedSeqNum[c])
                  /\ BufferedIsPending

-----------------------------------------------------------------------------
(* Refinement: the blocks in the output file, up to the last one written *)

Written == [i \in 1 .. Cardinality({j \in DOMAIN file : file[j] # Hole}) |-> file[i]]

Copy == INSTANCE FileCopy WITH output <- Written, done <- complete

\* The output file is at all times a beginning of the source that only grows:
\* no block is rewritten, skipped or written out of order, and rcopy reports
\* completion only at the end.
CopiesInOrder == Copy!CopySpec

-----------------------------------------------------------------------------
(* Liveness *)

\* rcopy ends, whatever the network does.
RcopyEnds == <>(NS = "DONE")

\* The transfer completes.
CopyCompletes == <>complete

\* "Wait up to 10 seconds to receive the EOF acknowledgment" (rcopy.c).
EofWaitEnds == NS = "WAIT_ON_EOF_ACK" ~> NS = "DONE"

\* Once rcopy has ended the server's children close (testRandError.sh waits
\* for them and reports "Children didn't close").
ChildrenClose == NS = "DONE" ~> \A c \in Children : child[c] \in {"none", "DONE"}

=============================================================================
