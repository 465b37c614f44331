------------------------------- MODULE PollSet -------------------------------
(***************************************************************************)
(* The poll set (pollLib.c) both programs wait through: a table indexed by *)
(* descriptor, which grows when a descriptor does not fit, and a call that *)
(* reports the lowest descriptor at which something happened.              *)
(*                                                                         *)
(* poll(2) is modelled from its use: it sets revents of each of the first  *)
(* maxFileDescriptor entries, from events when data is ready, and whatever *)
(* events asks for when the descriptor hung up or failed.                  *)
(***************************************************************************)
EXTENDS Integers

CONSTANTS
  Descriptors,      \* the file descriptors a program may be given
  POLL_SET_SIZE     \* 10 in the code

ASSUME PollAssumption ==
  Descriptors \subseteq Nat /\ POLL_SET_SIZE \in Nat \ {0}

VARIABLES
  pollFileDescriptors,   \* the table of struct pollfd
  maxFileDescriptor,
  currentPollSetSize,
  members,               \* history: the descriptors added and not removed
  called                 \* history: what the last pollCall saw and returned

pollVars == <<pollFileDescriptors, maxFileDescriptor, currentPollSetSize, members,
              called>>

\* struct pollfd; POLLIN is the only event asked for.  A zeroed entry names
\* descriptor 0.
Entry(fd, events) == [fd |-> fd, events |-> events]
Zeroed == Entry(0, {})

NotCalled == [ready |-> {}, hungUp |-> {}, result |-> -1]

PollInit ==
  /\ pollFileDescriptors = [i \in {} |-> Zeroed]
  /\ maxFileDescriptor = 0
  /\ currentPollSetSize = 0
  /\ members = {}
  /\ called = NotCalled

-----------------------------------------------------------------------------

setupPollSet ==
  /\ currentPollSetSize = 0
  /\ currentPollSetSize' = POLL_SET_SIZE
  /\ pollFileDescriptors' = [i \in 0 .. (POLL_SET_SIZE - 1) |-> Zeroed]
  /\ called' = NotCalled
  /\ UNCHANGED <<maxFileDescriptor, members>>

\* Mutant: the table grows by one entry too few.
SizeFor_TooSmall(s) ==
  IF s >= currentPollSetSize THEN s ELSE currentPollSetSize

SizeFor(s) ==
  IF s >= currentPollSetSize THEN s + POLL_SET_SIZE ELSE currentPollSetSize

\* Mutant: the table is one entry shorter than its size says.
Grown_OneShort(size) ==
  [i \in 0 .. (size - 2) |->
     IF i < currentPollSetSize THEN pollFileDescriptors[i] ELSE Zeroed]

\* growPollSet: the entries there were, then zeroed ones.
Grown(size) ==
  [i \in 0 .. (size - 1) |->
     IF i < currentPollSetSize THEN pollFileDescriptors[i] ELSE Zeroed]

\* Mutant: the last descriptor added is taken for the largest.
MaxWith_Last(s) == s + 1

MaxWith(s) == IF s + 1 >= maxFileDescriptor THEN s + 1 ELSE maxFileDescriptor

addToPollSet(s) ==
  /\ currentPollSetSize > 0
  /\ currentPollSetSize' = SizeFor(s)
  /\ maxFileDescriptor' = MaxWith(s)
  /\ pollFileDescriptors' =
       [Grown(SizeFor(s)) EXCEPT ![s] = Entry(s, {"POLLIN"})]
  /\ members' = members \cup {s}
  /\ called' = NotCalled

\* Mutant: the entry goes on naming the descriptor.
removeFromPollSet_Named(s) ==
  /\ s < currentPollSetSize
  /\ pollFileDescriptors' = [pollFileDescriptors EXCEPT ![s] = Entry(s, {})]
  /\ members' = members \ {s}
  /\ called' = NotCalled
  /\ UNCHANGED <<maxFileDescriptor, currentPollSetSize>>

\* The maximum stays, so the entry is still polled, as descriptor 0.  A descriptor
\* that was never added is zeroed too; one past the end of the table is an access
\* out of bounds, which has no behaviour to model.
removeFromPollSet(s) ==
  /\ s < currentPollSetSize
  /\ pollFileDescriptors' = [pollFileDescriptors EXCEPT ![s] = Zeroed]
  /\ members' = members \ {s}
  /\ called' = NotCalled
  /\ UNCHANGED <<maxFileDescriptor, currentPollSetSize>>

\* Mutant: of revents, only what was asked for is looked at.
Reported_OnlyAsked(entry, ready, hungUp) ==
  (entry.fd \in hungUp \/ entry.fd \in ready) /\ "POLLIN" \in entry.events

\* revents > 0 for an entry, given what is ready and what hung up or failed.
Reported(entry, ready, hungUp) ==
  entry.fd \in hungUp \/ (entry.fd \in ready /\ "POLLIN" \in entry.events)

\* The entries poll reports.
Happened(ready, hungUp) ==
  {i \in 0 .. (maxFileDescriptor - 1) :
     Reported(pollFileDescriptors[i], ready, hungUp)}

\* The lowest of them; poll counts them and 0 is the timeout.
pollCall(ready, hungUp) ==
  /\ currentPollSetSize > 0
  /\ \E result \in {-1} \cup Happened(ready, hungUp) :
       /\ IF Happened(ready, hungUp) = {}
            THEN result = -1
            ELSE /\ result # -1
                 /\ \A i \in Happened(ready, hungUp) : result <= i
       /\ called' = [ready |-> ready, hungUp |-> hungUp, result |-> result]
  /\ UNCHANGED <<pollFileDescriptors, maxFileDescriptor, currentPollSetSize,
                 members>>

PollNext ==
  \/ setupPollSet
  \/ \E s \in Descriptors : addToPollSet(s) \/ removeFromPollSet(s)
  \/ \E ready, hungUp \in SUBSET Descriptors : pollCall(ready, hungUp)

PollSpec == PollInit /\ [][PollNext]_pollVars

-----------------------------------------------------------------------------

PollTypeOK ==
  /\ currentPollSetSize \in Nat /\ maxFileDescriptor \in Nat
  /\ pollFileDescriptors \in
       [0 .. (currentPollSetSize - 1) ->
          [fd : Descriptors \cup {0}, events : SUBSET {"POLLIN"}]]
  /\ members \subseteq Descriptors
  /\ called \in [ready : SUBSET Descriptors, hungUp : SUBSET Descriptors,
                 result : Nat \cup {-1}]

\* poll reads no entry past the end of the table, and every descriptor that was
\* added and not removed is among those it reads, however the table has grown.
MembersPolled ==
  /\ maxFileDescriptor <= currentPollSetSize
  /\ \A s \in members : s < maxFileDescriptor

\* The table names a descriptor and asks for POLLIN at the index of the
\* descriptor when it was added and not removed; any other entry is zeroed.
TableNamesMembers ==
  \A i \in 0 .. (currentPollSetSize - 1) :
    pollFileDescriptors[i] = IF i \in members THEN Entry(i, {"POLLIN"}) ELSE Zeroed

\* While standard input has not hung up, pollCall reports the lowest descriptor
\* of the set at which something happened, and a timeout only when nothing did.
ReportsLowestMember ==
  0 \notin called.hungUp =>
    LET happened == members \cap (called.ready \cup called.hungUp)
    IN  IF called.result = -1
          THEN happened = {}
          ELSE called.result \in happened /\ \A s \in happened : called.result <= s

\* Once standard input has hung up, every pollCall returns 0 at once, whatever
\* else is ready and though 0 was never added: what Polls of module Network says.
HangUpHidesSockets ==
  0 \in called.hungUp /\ members # {} => called.result = 0

=============================================================================
