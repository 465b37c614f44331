# Selective-Reject in TLA+

`rcopy` copies a file to another host over UDP with a selective-reject sliding
window: it sends numbered blocks, the server acknowledges with RR (receive
ready: everything below this number has arrived), asks for one missing block
with SREJ, and the two end with EOF and EOF_ACK.  The repository builds two
programs, `rcopy` (`rcopy.c`, `windowing.c`) and `server` (`server.c`,
`bufferMngment.c`), which talk through `libcpe464`, a library that drops
datagrams and corrupts them on purpose.

This directory models that protocol as the code runs it, checks it with TLC on
small instances, and proves with TLAPS, for every value of the constants, that one
child copies the file, what holds of any number of children of the server, of the poll
set and of the server's main process, and what the checksum and the fault injector
promise.

## 1. Inventory

| Component | State | Operations | Makes it correct |
|---|---|---|---|
| rcopy state machine, `rcopy.c` | `STATE` of `processFile`, the server's address, `counter`, `eof`, `eofSeqNum` | `sendSetupPacket`, `dataTransfer`, `waitOnAck`, `waitOnEOFAck`, `processRRorSREJ` | "complete" is printed only when the file is there; EOF only after the last RR; it ends |
| sliding window, `windowing.c` | `lower`, `sequenceNum`, an `SR_buffer` per slot | `checkWindowOpen`, `windowStorePacket`, `processRRpacket`, `processSREJpacket`, `getPacketToResend`, `validateBuffer` | an unacknowledged block is never overwritten; the window never moves back |
| server main process, `server.c`, `forkMod` | the main socket, its children, the seed of the next one | `processServer` (receive, fork), `handleZombies` | every datagram is handed to one child of its own; every child that ends is reaped |
| server child, `server.c` | its `STATE`, the socket, `file_fd` | `receive_initial_PDU`, `manage_incoming_data` | answers only when the file is open; ends |
| receiver buffering, `bufferMngment.c` | `tracker`: `state`, `expectedSeqNum`, `eofSeqNum`, a slot array | `inorderFunction`, `bufferingFunction`, `flushingFunction`, `sendEOFAck`, `continuouslySendEOFAck` | every block is written once, in order, before it is acknowledged |
| transport and fault injector, `libcpe464`, `safeUtil.c` | the events scheduled, the message number, the datagrams in the kernel's queues | `sendtoErr`, `recvfromErr`, `errorDrop`, `errorFlipBits` | a flipped datagram is recognised; the caller's buffer stays as it is |
| PDU checksum, `checksum.c` | none | `in_cksum` | any one corrupted byte shows |
| poll set, `pollLib.c` | the table of `pollfd` | `addToPollSet`, `removeFromPollSet`, `pollCall` | says "ready" only of a socket that is |
| injector settings and messages | the environment, what `sendErr_init` was given, the report | parsing, `setUserMode_...`, `infoSeqNo` | the errors are those configured, the environment first |
| set-up, `networks.c`, `gethostbyname.c` | none | name lookup, `bind` | run once, a failure exits |
| `newPDU.c` | none | an old copy, not built | - |

How they interact.  rcopy sends a setup packet to the server's main socket; the
main process forks a child, which handles *that* datagram, opens the output
with `O_TRUNC` and answers from a socket of its own.  From then on rcopy and
the child talk alone.  Shared state: the output file, which is one file
however many children have it open, and `struct SR_buffer`, which both sides
keep their packets in, `n % window_size` being the slot of packet `n`.

What is hard.  Datagrams are lost, duplicated, late, out of order, corrupted;
both sides run concurrently; only rcopy has timeouts in the transfer, only the
child's last loop has one at the end; `recvfrom` overwrites the address rcopy
sends to on every datagram, also on one that is thrown away; a second setup
packet forks a second child for the same file.  `PROJECT.json` lists each
hazard at its line.

## 2. Modules

| Module | Models | Lines it stands for |
|---|---|---|
| `Network` | PDUs, the set of datagrams in flight, drop / flip / duplicate, the constants of a run, `SR_buffer` | `createPDU`, `bufferMngment.h`, `PacketManager.cpp`, `safeRecvfrom` |
| `Sender` | rcopy | `rcopy.c`, `windowing.c` |
| `Receiver` | the server's children; its main process as one step that forks | `server.c`, `bufferMngment.c` |
| `SelectiveReject` | their composition; `Spec`, the fair specifications, every property, the inductive invariant | `processFile` of both programs |
| `FileCopy` | the promise: the output is a beginning of the source, only grows, and is reported done at the end | abstract |
| `PollSet` | the table of descriptors both programs poll | `pollLib.c` |
| `ServerMain` | the main process: receive, fork, seeds, SIGCHLD and `waitpid` | `server.c`, `network-hooks.c` |
| `Dispatch` | what `ServerMain` promises and `Receiver` assumes: each datagram is handed to one process of its own in one step | abstract |
| `Checksum` | `in_cksum`, sealing a PDU | `checksum.c`, `formatReceiverReadyPDU` |
| `Injector` | the settings of a process, its event lists, and what `sendtoErr` makes of a message | `SettingsManager.cpp`, `PacketManager.cpp`, `MsgEvents` |
| `MCSelectiveReject`, `MCInjector` | block sequences and symmetry; payloads, environments and arguments for TLC | - |
| `Types_proofs` | `TypeCorrect` and the lemmas on types | - |
| `Transfer_proofs` | the inductive invariant and what follows from it | - |
| `Opened_proofs` | `NoWriteWithoutFile` | - |
| `Copy_proofs` | what one child writes is what rcopy gives up and reports, and the two programs implement `FileCopy` | - |
| `Checksum_proofs` | the fold behind the checksum, a sealed PDU, a changed byte | - |
| `Injector_proofs` | the injector's settings, messages and report | - |
| `PollSet_proofs` | the poll table and what `pollCall` reports | - |
| `ServerMain_proofs` | the main process, and that it implements `Dispatch` | - |

`SelectiveReject` composes `Sender` and `Receiver`, which both extend `Network`.
`PollSet`, `Injector` (with `Checksum`) and `ServerMain` stand below them and check
what they take for granted:

* `Sender` and `Receiver` use a `pollCall` that is ready or timed out, or, when standard
  input has hung up, returns 0 at once (`Polls`): `ReportsLowestMember` and
  `HangUpHidesSockets` of `PollSet`.
* `Network` loses and flips datagrams one by one, its checksum fails on a flipped one and
  a resent PDU is as good as new: `FlipIsSeen` and `SealedPasses` of `Injector`.
* `Receiver` takes a datagram and forks a child in one step: `HandedToOneChild` of
  `ServerMain`.

### How state and actions correspond to the code

* A step runs from one blocking call (`poll`, `recvfrom`) to the next.  Between
  them a process shares only the network and the output file with others.  What
  it sends in a step it sends last, so a step is one to everybody else as long as
  it touches the file once.  A flush writes several times: it is a step of its own per
  write (`Flush`, `FlushWrite`, then `FlushEnds`, `FlushEndsAtEof` or `FlushFails`), and
  other children step in between.  In `AcceptSetup` the open and the answer are one
  step: a step of another process between the two gives the same as the step before
  the open or after the answer.
* `NS` is `STATE` of `rcopy.c`.  `polling` says that rcopy is at the poll of
  `sendSetupPacket` or inside the poll loop of `dataTransfer`.  `counter` is the
  local of whichever loop is running.
* The source file is the constant sequence `Source` of the blocks that successive
  reads return: every read that returns data is followed by `getNextSeqNum`, so
  `sequenceNum` is the position in the file.  Likewise a child's file position
  is its `expectedSeqNum`: each write is followed by its increment.
* `file` maps block positions to what is there, `Hole` after a truncation; it
  has one position more than the source, so that an EOF packet's byte written
  by a flush would show.
* `net` is a set.  Two equal datagrams in flight merge, that is, one of the two
  is lost, which UDP allows.  A datagram that is never received is lost or
  late: only where losses must be *counted* (liveness, the runs with `Prompt`)
  are they an action (`Drop`) with a bound.
* A write puts the whole block at its place or, with `"short"` in `IOFaults`, the beginning
  of it (`Part`).  What follows a short write then lies nearer the beginning of the
  file than its position in `file` says, which matters as soon as a second child
  writes: `FaultAssumption` allows short writes with one child only.
* A flip complements a byte: it changes the sum of the 16-bit words by an odd
  number of at most 255, or by 256 times one, which is never a multiple of 0xFFFF,
  so the Internet checksum always detects it (run `injector`, theorem `FlipsAreSeen`).  `ReceiveFlipped` is a datagram whose
  checksum fails; the code's reaction to that is what is modelled.
  `sendSetupPacket` does not look at the checksum, so there the flag itself may
  be the byte that was hit.
* In `ServerMain` the handler of SIGCHLD may start between any two steps of
  `processServer`, and a signal that comes while one is pending is lost.  A child ends at
  any time, or never.  A fork takes a process of `Children` that is free and may fail at any
  time, for want of one or of memory, which ends the server.  In `Injector` a message is one step: `sendto_Err` touches nothing
  but its own process.
* A child of `Children` is forked at the server's whim for any datagram that reaches
  the main socket.  A setup packet reaching a server with all of `Children`
  forked stays in flight.
* `OpenFails`: `sendErrorPacket` hands `sendto` the address of the pointer to the
  PDU's destination; the call fails and the child exits, or the injector drops the
  packet before the call and the child goes on with `file_fd` never set.

### Constants

`Window` is `argv[3]`.  `SizeField` is 2^16, the two bytes it is sent in;
`MaxTries` is 10.  They are constants so that TLC can take small ones; the theorems
hold for the real ones.  `IOFaults`, `HungUp`, `MaxLosses`, `MaxFlips`, `Duplicates` bound what
may go wrong; the theorems hold for all of their values.  `Prompt` restricts the
runs about progress (section 4).

The operators marked *Mutant* are plausible bugs: each is the definition that follows it
with one mistake (a window one packet too wide, an EOF that is sent early, a slot
that is not freed...).  Nothing uses them.  They document, together with `PROJECT.json`,
which mistake each property catches, by replacing the definition.

## 3. Safety runs

Deadlock is checked in `poll_set` only: elsewhere the programs end, or a bound is reached.

| Run | Instance | Question |
|---|---|---|
| `one_child` | 3 blocks, window 2, 1 try, 1 flip, duplicates, failing read / write / open | With one child, under every interleaving, is what rcopy reports and gives up really on disk, do the window and slots of both sides hold what they should, and do the two programs implement `FileCopy`? (`CopiesInOrder`, mapping: `output` is the written prefix of `file`, `done` is `complete`) |
| `narrow_server` | 4 blocks, window 5 that the field truncates to 2, 2 tries, 1 flip, failing read / write / open | Does the copy stay right when packets collide in the child's slots? |
| `two_children` | 2 children, 3 blocks, window 2, 2 tries, failing open | What still holds when a second setup packet forks a second child: `TransferInv`, `CopyInv`, `FileBlocksRight`, `EofAckMeansReceived`, `NoWriteWithoutFile`.  A flush of one is interleaved with the other's open and writes |
| `poll_set` | descriptors 0, 1, 3, 5, table of 2 | Does the table name the members, and `pollCall` the lowest at which something happened, after any additions and removals?  And what of a hang-up of standard input? |
| `injector` | a byte of 4 values, message numbers of 4, 2 results of a draw, 5 sends; every header with payloads of 1 and 2 bytes under an environment that asks for every error, and 7 lists for each of drop and flip, 4 rates (none, no number, 0 and 2), program rates of -1 and 0, and every program argument with one PDU of each length, every byte after it | Does a sealed PDU pass, one with a flipped byte fail, and a resend pass, for even and odd lengths and whatever follows in memory?  Does an error happen exactly when it is configured and drawn, are the listed messages lost, and what does the report count? |
| `server_main` | 4 datagrams, 3 processes | With SIGCHLD between any two steps: is no zombie forgotten, do seeds differ, and does the main process implement `Dispatch`? (mapping: `waiting` is the queue and the datagram received and not yet forked for, `serving` the datagram of each process that is there) |

Why the bounds are enough.  With window 2 and three blocks a slot is used twice
(packets 1 and 3), on both sides; the EOF packet shares a slot with packet 2;
the gap of one missing packet, a buffered one behind it, and the flush all
occur.  One flip reaches every place a checksum is tested.
In `narrow_server` packets 2 and 4 are in flight together and share a slot of the
child, so that a flush may find the wrong one there.  A duplicate arrives
any number of times.  One or two tries suffice for safety, since a poll may
time out at any moment: more tries resend what a duplicate can stand for.  Two
children are the least that disagree.  The descriptors of `poll_set` lie in the first
table, at its end and past it, so that it grows once and twice.  In `server_main` two
children can end before one signal while a third runs, and a fourth datagram finds the
table full or an entry that was reaped.  Five messages make a number of 4 values wrap.
With a byte of 4 values a word has 16: the sums of four and five words carry, once and twice, and
the 8 and 9 bytes reach both lengths of the last word.

`CompleteMeansCopied`, `AckedIsOnDisk`, `BufferedIsPending` and `CopiesInOrder` are
claims about one child: with two they are false (finding 1), and which runs have how
many children is therefore part of what they say.  `CopyInv`, checked with two children,
says what is left of them: everything, as long as only one has opened the output.

## 4. Liveness runs and fairness

`FairSpec` assumes that rcopy and each child keep taking steps when they can
(`WF`): a `poll` of one second returns, `recvfrom` returns when a datagram is
there, a process is not stopped between two calls.  It does not assume that a
datagram arrives: a poll may time out as often as the code lets it.

* `narrow_server` (`RcopyEnds`, one child, a flip, failing system calls): rcopy always
  reaches `DONE`.
* `prompt_copies` (`CopyCompletes`, `CompleteMeansCopied`: 4 blocks, 4 tries, up to
  2 losses, up to 3 children): with `Prompt`, nothing times out while a datagram for a
  program is still on its way, and a child's last loop times out after rcopy's,
  as two polls of one second that were started in this order do.  Then two losses,
  wherever they strike, do not stop the copy, and the extra children a lost
  setup answer creates do no harm.

`ServerSpec` assumes that the main process keeps taking steps: it is not stopped between
two calls, `recvfrom` returns when a datagram is there, a pending signal is delivered.  It
does not assume that a child ever ends.  `server_main` then shows that every child that
ends is reaped (`ZombiesReaped`) and every datagram that arrives is taken
(`ArrivedIsTaken`), unless a fork has failed and the server has exited.

`DeliverySpec` adds that datagrams of each kind keep arriving (`eof_livelock`): the
livelock it exhibits is not one of lost messages.

## 5. Findings

The first five are each a run that TLC must find violated.

1. `late_setup`: a late setup packet forks a second child, which truncates the file
   after "file transfer complete" was printed.
2. `eof_livelock`: `waitOnEOFAck` counts only timeouts; an RR from a second child
   is answered with an EOF packet, which it answers with an RR, for ever.
3. `child_left`: after a transfer without loss the child stays in `recvfrom`: the
   loop that would time out is entered by a packet that never comes.
4. `stdin_hung_up`: once standard input hangs up, `pollCall` returns 0 at once, and with one
   datagram lost `waitOnEOFAck` blocks in `recvfrom` instead of waiting ten seconds.
5. `short_write`: a short write is taken for a whole one; "file transfer complete" is
   printed although part of a block is missing.

Two comments of the library say something else than its code does.  No property can be
refuted by them, since the code does what the programs need or what its own arithmetic
says: the passing run `injector` states what happens, over the very cases the comments
exclude.

6. `ErrorsAsConfigured`: `cpe464.h` says of the error rate "0 means no errors"; the code
   compares with `randNum <= m_ErrorRate`, so that at rate 0 a draw of 0 drops or flips the
   message.  The property is an equivalence with the draw in it, and the run has rate 0 with
   that draw.  Only a negative rate, which nothing forbids, never errs.
7. `SealedPasses`: the NOTE of `checksum.c` asks for an even length, says that an odd one
   is read a byte past its end, and wants that byte zeroed.  The code masks it out: it
   copies the odd byte alone into a zeroed word.  The run has odd lengths and every byte after
   them, the theorem `SealedIsCorrect` every length and byte.  The mutant `Sum_WholeWords` is
   the code the NOTE describes, and `FlipIsSeen` fails with it.

Met while modelling, and not findings of a run:

* When the flag of the setup answer is corrupted, the setup packet is resent to the child
  that answered (`recvfrom` has overwritten the address), which ignores it: the
  remaining tries are in vain.  The model has it (`SetupAnswerFlipped`).
* `CPE464_OVERRIDE_ERR_FLIP` with a list flips nothing ("TODO"), and an empty list
  variable asks for random events as -1 does.
* With `CPE464_OVERRIDE_SEEDRAND` every child draws the same errors as its parent.
* `networks.c` does not include `cpe464.h`, so `CPE464_OVERRIDE_PORT` never reaches
  `bind`.

## 6. Proofs

Those about the copy are theorems of `Spec` for any window, number of tries, file, set of
children and faults, under the named assumptions of `Network`, `Receiver` and
`SelectiveReject`: addresses differ, the source is a sequence of blocks, window and
tries are positive, the truncated window is not 0 (it would be a division by zero).

`Types_proofs`.  `TypeOK` alone is not inductive: a child answers EOF_ACK with
`eofReceived`, which is -1 until an EOF packet came.  `EofKnown` (once a child is
past the end, it has the number) is added, and the two are proved inductive, with one
lemma per kind of datum (a datagram, a slot, the file) and one step per action.

`Transfer_proofs`.  The inductive invariant is `TransferInv`:

* `WindowInv`: the slots of rcopy hold sent blocks; those from `lower` to
  `sequenceNum` are all there.  That two packets of one window never share a slot
  is arithmetic (`SlotsDiffer`) and what the guard of `checkWindowOpen` is for.
* `PhaseInv`: what each state knows.  That `lower <= NumBlocks` while rcopy waits
  with `eof` set is why `waitOnAck`'s timeout has a block to resend and why the
  EOF test on each path sends EOF exactly once everything is acknowledged.
* `DatagramOK`: a datagram says something true that *stays* true: a DATA packet holds
  its block, an RR does not exceed `sequenceNum + 1`.  This is what makes the
  order of arrival, duplicates and the number of children irrelevant.
* `ChildInv`: a child expects at most the next number rcopy will use, and its valid
  slots hold what was sent under their numbers, or the EOF packet once it came.
  It is needed for the flush: `FlushLoopTransfer` shows that each packet written is one
  that was sent, at its place, and that only the EOF packet takes the child past the
  last block.
* `FileBlocksRight`: what is at a position is its block, or, with short writes, a part
  of it.  Each write and each truncation keeps it, whoever makes it.

From it follow `UnackedCorrect`, `WaitingCorrect`, `EofCorrect`, `EofAckCorrect`,
`FileCorrect`.  `two_children` checks the same invariant with TLC, from which it was first
found.

`Opened_proofs`.  `OpenedInv`: every address that any datagram names, and the one
rcopy sends to, is of a child that opened its file, if of a child at all.  The
setup answer is the first datagram of a child and it is sent after the open.  Hence
a child in the middle of a flush, which began on a datagram sent to it, has its file open.

`Copy_proofs`.  `CopyInv` is the inductive invariant of the copy.  `Reached(e)` is the
state in which nobody is ahead of a child that expects packet e: `lower` is at most e, so
is every RR under way, the file holds exactly the blocks below e, and "file transfer
complete" was printed only if e is past the EOF packet.  `CopyInv` says that

* while no child has opened the output, `Reached(1)` holds: nothing was copied;
* while one child at most has opened it (`OneWriter`), `Reached` holds for what that child
  expects, and its valid slots hold packets ahead of that (`BufferedIsPending`);
* a child that has not opened the file has no valid slot (`FreshUntilOpened`): what a second
  child starts from when it becomes the first to open.

The proof goes by what a step can do to `Reached`: rcopy moves `lower` only to an RR it
received (`RcopyReached`), a child's number only grows and its RR carries it
(`ChildReached`), a write puts block e at e and is followed by e + 1 (`BeginningGrows`), and
a slot taken out of the buffer by a flush makes room a window ahead (`SlotsAdvance`,
`SlotsStored`).  From `CopyInv` follow, for any number of children,

* `BufferedCorrect`: `OneWriter => BufferedIsPending`;
* `AckedCorrect`, `CompleteCorrect`: with `WholeWrites`, `OneWriter => AckedIsOnDisk` and
  `OneWriter => CompleteMeansCopied`;
* `CopyImplementsFileCopy`: with `WholeWrites`, `Spec` and `[]OneWriter` imply
  `CopiesInOrder`.  Each step either writes the next block (`Copy` of `FileCopy`), reports
  completion once, or changes nothing `FileCopy` sees (`MappedCopyStep`);
* `OneChildCopies`: with one child `OneWriter` always holds, so `Spec` implies `FileCopy`.

The two hypotheses are the findings, no more: without `OneWriter` the second child's
truncation makes them false (`late_setup`), without `WholeWrites` a short write does
(`short_write`).  Every other fault (loss, duplicates, reordering, corrupted datagrams,
failing calls, a hung-up standard input, a truncated window) is allowed.

`PollSet_proofs`.  The invariants of `poll_set` are inductive together: that an index
below the size and outside `members` is zeroed is what makes a grown table right,
and that every member is below `maxFileDescriptor` is what makes `Happened` the members
(`HappenedToMembers`).

`ServerMain_proofs`.  `ServerInv` is the types (a child that runs has a datagram: `buffer` is
not used before one was received), `ZombieNoticed`, `HeldInv` (a datagram held for the fork has
arrived and is in no queue) and `SeedInv` (every child's seed lies
between the main process's and the next one, and no two that are not free are equal:
what `SeedsDiffer` needs to survive a fork).  With it each action maps to a step of
`Dispatch` or to a stutter: `Arrival` to `Arrive`, `Fork` to `Serve`, `Waitpid` and the
exit without a parent to `Leave`, `ForkFails` to `Stop`, and `Recvfrom` and the signals
change nothing that `Dispatch` sees.

`Checksum_proofs`.  The checksum is a fold over the bytes, so what it promises needs
induction, which the provers cannot take from a theorem about an operator.  They can take
it from sets: the library proves that the natural numbers are well founded and that a
well-founded set has minimal elements, hence a set of numbers has a least one
(`LeastNumber`), hence there is a function that adds up every subset of a finite set
(`AddsUpExists`), the recursive function in the library's fold is one (`SumAddsUp`), and
what holds of the empty set and survives one more index holds of the sum (`AddingUp`).
From these: a sum is bounded (`SumBounded`) and changes by what is changed in it
(`SumChanges`).  Folding twice leaves the same number modulo `Word - 1`, and 0 only for 0
(`FoldedWord`); it is enough because a PDU has fewer than `Word` bytes, which
`ByteAssumption` says of the payloads (1400 of them at most, and 7 before them, against
65536).  Then `SealedIsCorrect`: a PDU sealed by `createPDU` passes the test, whatever
its length, even or odd, and its bytes; and `OneByteIsSeen`: with one byte changed in any way it
fails.  Both hold whatever byte follows the PDU in memory (`NextByteUnread`).

`Injector_proofs`.  `InjectorInv` says which events the two lists hold, and that the
counting event is the last (the environment is read before main), that the rate is the
environment's or else the program's, that the message number is the number of messages sent
modulo its width, and what a message can be: not sent, dropped, the PDU, or the PDU with one
byte complemented.  It is there for the proof and no run lists it: what it adds to the
properties of `injector` is what sets the lists up.  With the two theorems above it gives every
property of that run, for any width of a byte, of a message number and of `drand48`, any lists
and any rates.  That an error happens *whenever* the draw is not above the rate needs that
a list of events asked for is not empty (`DrawnWhen`).  The assumptions it rests on,
`InjectorAssumption`, say what the settings are: rates that are numbers, or not set, lists of
numbers and other words.

What stays with TLC: liveness (`RcopyEnds`, `CopyCompletes`, `ZombiesReaped`,
`ArrivedIsTaken`: fairness and ENABLED are out of the prover's reach) and the findings,
which are counterexamples.  Every invariant and every refinement the passing runs check is
stated by a theorem.

## 7. Not modelled

* The file name, and which errno a call fails with; short writes with several children.
* Of the injector: its port, debug and autograder settings, the hooks of calls the
  programs do not make (TCP, `select`), printing.
* Sequence numbers of 2^31 and more: `int` in the code, natural numbers here.
* `checkArgs` and set-up (`networks.c`, `gethostbyname.c`): system calls made once, each
  failure of which exits before the protocol starts.
* A window size of 0 in 16 bits (the process is killed by the division); `read` failing
  frees `window_buffer` twice after the machine has stopped.
* TCP wrappers, `newPDU.c`, which is not built, and scripts.

## 8. Plan

Order: what decides whether a copied file is right came first (`Network`, `Sender`,
`Receiver`, `SelectiveReject`, `FileCopy`; the type invariant and `TransferInv`
proved), then what they rest on (`PollSet`, `Checksum`, `Injector`, `ServerMain`), then
the faults (short writes, a hang-up) and a flush step by step.  What they promise is
proved as far as it is safety.  What is left, in this order:

1. The safety half of progress, for any bounds: that the tries of each loop only grow
   between two answers, so that a run without an answer ends.
2. What the composition takes from the modules below it, as theorems about the
   operators both use (a flipped setup answer, a hung-up `pollCall`).
