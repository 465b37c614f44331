------------------------------- MODULE Network -------------------------------
(***************************************************************************)
(* What the programs share: the UDP datagrams that rcopy, the server's     *)
(* main process and its children exchange, the fault injector (libcpe464,  *)
(* sendtoErr) every one of them is sent through, the arguments of rcopy    *)
(* and the struct SR_buffer both sides keep their window in.               *)
(*                                                                         *)
(* The network is a set of datagrams in flight.  Any of them may arrive    *)
(* next (UDP does not order), may stay for ever (it is lost or late), or,  *)
(* when Duplicates, may arrive more than once.  A datagram that is sent    *)
(* while an equal one is in flight merges with it: one of the two is lost. *)
(*                                                                         *)
(* A flip turns every bit of one byte over, which the Internet checksum    *)
(* always detects, so a flipped datagram is one whose checksum fails.      *)
(***************************************************************************)
EXTENDS Integers, Sequences, FiniteSets

CONSTANTS
  Rcopy,       \* the address of the sending program
  Server,      \* the address of the server's main process
  Children,    \* the addresses of the child processes the server may fork
  Blocks,      \* the contents a read of buffer_size bytes may return
  Source,      \* the file rcopy reads, as the sequence of the blocks read
  ZeroByte,    \* the one-byte payload [0] of the PDUs that carry no data
  Window,      \* window_size, argv[3] of rcopy
  MaxTries,    \* 10 in the code: the timeouts before a program gives up
  IOFaults,    \* what may fail: "read", "write", "open"; "short": a write may be short
  HungUp,      \* the programs whose standard input has hung up
  MaxLosses,   \* bound on the datagrams the injector drops
  MaxFlips,    \* bound on the datagrams the injector flips a byte of
  Duplicates   \* may a datagram arrive more than once?

ASSUME AddressAssumption ==
  Rcopy # Server /\ Rcopy \notin Children /\ Server \notin Children

ASSUME SourceAssumption == Source \in Seq(Blocks) /\ ZeroByte \notin Blocks

ASSUME ArgumentAssumption == Window \in Nat \ {0} /\ MaxTries \in Nat \ {0}

ASSUME FaultAssumption ==
  /\ IOFaults \subseteq {"read", "write", "open", "short"}
  /\ "short" \in IOFaults => \A c, d \in Children : c = d
  /\ HungUp \subseteq {"rcopy", "server"}
  /\ MaxLosses \in Nat /\ MaxFlips \in Nat /\ Duplicates \in BOOLEAN

VARIABLES
  net,      \* the datagrams in flight
  losses,   \* how many the injector has dropped
  flips     \* how many the injector has flipped

netVars == <<net, losses, flips>>

NumBlocks == Len(Source)

Addresses == {Rcopy, Server} \cup Children

\* enum FLAG: the flags that are ever put into a PDU that reaches a socket.
Flags == {"RCOPY_TO_SERVER", "SERVER_TO_RCOPY", "DATA_PKT", "RR_PACKET",
          "SREJ_PACKET", "EOF_FLAG", "EOF_ACK"}

\* A datagram.  seq is the sequence number of the header, or the number in
\* the payload of an RR or SREJ, whose header always says 0.
PDU == [flag : Flags, src : Addresses, dst : Addresses,
        seq : Nat, data : Blocks \cup {ZeroByte}]

createPDU(flag, src, dst, seq, data) ==
  [flag |-> flag, src |-> src, dst |-> dst, seq |-> seq, data |-> data]

\* struct SR_buffer
Slot == [sequenceNumber : Nat, validFlag : {0, 1}, buff : Blocks \cup {ZeroByte}]

EmptySlot == [sequenceNumber |-> 0, validFlag |-> 0, buff |-> ZeroByte]

\* Does pollCall tell whether there is a datagram?  When standard input has hung up
\* it returns 0 at once (module PollSet): no timeout, and not the socket either.
Polls(program) == program \notin HungUp

initializeBuffer(size) == [i \in 0 .. (size - 1) |-> EmptySlot]

-----------------------------------------------------------------------------

InitNetwork == net = {} /\ losses = 0 /\ flips = 0

\* p is taken from the socket's queue and the datagrams out are sent.
Exchange(p, out) ==
  /\ p \in net
  /\ \/ net' = (net \ {p}) \cup out
     \/ Duplicates /\ net' = net \cup out

\* p arrives as it was sent.
Receive(p, out) == Exchange(p, out) /\ UNCHANGED <<losses, flips>>

\* p arrives with a byte flipped.
ReceiveFlipped(p, out) ==
  /\ flips < MaxFlips
  /\ Exchange(p, out)
  /\ flips' = flips + 1
  /\ UNCHANGED losses

\* The datagrams out are sent without any having been received.
Send(out) == net' = net \cup out /\ UNCHANGED <<losses, flips>>

\* The injector drops a datagram.
Lose ==
  /\ losses < MaxLosses
  /\ \E p \in net : net' = net \ {p}
  /\ losses' = losses + 1
  /\ UNCHANGED flips

NetworkTypeOK == net \subseteq PDU /\ losses \in Nat /\ flips \in Nat

=============================================================================
