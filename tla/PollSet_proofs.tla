---------------------------- MODULE PollSet_proofs ----------------------------
(***************************************************************************)
(* The poll set for any descriptors and any initial size: the table names  *)
(* exactly the members, poll sees each of them, and pollCall reports the   *)
(* lowest at which something happened.                                     *)
(***************************************************************************)
EXTENDS PollSet, TLAPS

PollInv ==
  /\ PollTypeOK /\ MembersPolled /\ TableNamesMembers
  /\ ReportsLowestMember /\ HangUpHidesSockets

\* With a zeroed entry only a hang-up of descriptor 0 is reported.
LEMMA HappenedToMembers ==
  ASSUME PollTypeOK, MembersPolled, TableNamesMembers,
         NEW ready \in SUBSET Descriptors, NEW hungUp \in SUBSET Descriptors,
         0 \notin hungUp
  PROVE  Happened(ready, hungUp) = members \cap (ready \cup hungUp)
<1>1. ASSUME NEW i \in 0 .. (maxFileDescriptor - 1)
      PROVE  Reported(pollFileDescriptors[i], ready, hungUp)
               <=> i \in members \cap (ready \cup hungUp)
  <2>1. i \in 0 .. (currentPollSetSize - 1)
    BY DEF PollTypeOK, MembersPolled
  <2>2. pollFileDescriptors[i] = IF i \in members THEN Entry(i, {"POLLIN"}) ELSE Zeroed
    BY <2>1 DEF TableNamesMembers
  <2> QED
    BY <2>2 DEF Reported, Entry, Zeroed
<1>2. members \subseteq 0 .. (maxFileDescriptor - 1)
  BY PollAssumption DEF PollTypeOK, MembersPolled
<1> QED
  BY <1>1, <1>2 DEF Happened

LEMMA AddKeeps ==
  ASSUME PollInv, NEW s \in Descriptors, addToPollSet(s)
  PROVE  PollInv'
<1> DEFINE size == SizeFor(s)
<1>1. /\ s \in Nat /\ currentPollSetSize \in Nat /\ maxFileDescriptor \in Nat
      /\ maxFileDescriptor <= currentPollSetSize
      /\ POLL_SET_SIZE \in Nat \ {0} /\ members \subseteq Descriptors
      /\ Descriptors \subseteq Nat
  BY PollAssumption DEF PollInv, PollTypeOK, MembersPolled
<1>2. size \in Nat /\ s < size /\ currentPollSetSize <= size
  BY <1>1 DEF SizeFor
<1>3. /\ currentPollSetSize' = size /\ maxFileDescriptor' = MaxWith(s)
      /\ pollFileDescriptors' = [Grown(size) EXCEPT ![s] = Entry(s, {"POLLIN"})]
      /\ members' = members \cup {s} /\ called' = NotCalled
  BY DEF addToPollSet
<1> HIDE DEF size
<1>4. /\ maxFileDescriptor' \in Nat /\ maxFileDescriptor' <= size
      /\ s < maxFileDescriptor' /\ maxFileDescriptor <= maxFileDescriptor'
  BY <1>1, <1>2, <1>3 DEF MaxWith
<1>5. Grown(size) \in [0 .. (size - 1) -> [fd : Descriptors \cup {0},
                                           events : SUBSET {"POLLIN"}]]
  <2>1. Zeroed \in [fd : Descriptors \cup {0}, events : SUBSET {"POLLIN"}]
    BY DEF Zeroed, Entry
  <2> QED
    BY <1>1, <1>2, <2>1 DEF Grown, PollInv, PollTypeOK
<1>6. PollTypeOK'
  <2>1. Entry(s, {"POLLIN"}) \in [fd : Descriptors \cup {0}, events : SUBSET {"POLLIN"}]
    BY DEF Entry
  <2>2. pollFileDescriptors' \in
          [0 .. (size - 1) -> [fd : Descriptors \cup {0}, events : SUBSET {"POLLIN"}]]
    BY <1>2, <1>3, <1>5, <2>1
  <2>3. called' \in [ready : SUBSET Descriptors, hungUp : SUBSET Descriptors,
                     result : Nat \cup {-1}]
    BY <1>3 DEF NotCalled
  <2> QED
    BY <1>1, <1>2, <1>3, <1>4, <2>2, <2>3 DEF PollTypeOK
<1>7. MembersPolled'
  <2>1. ASSUME NEW m \in members' PROVE m < maxFileDescriptor'
    <3>1. CASE m \in members
      <4>1. m \in Nat /\ m < maxFileDescriptor
        BY <1>1, <3>1 DEF PollInv, MembersPolled
      <4> QED
        BY <1>1, <1>4, <4>1
    <3> QED
      BY <1>3, <1>4, <3>1
  <2> QED
    BY <1>3, <1>4, <2>1 DEF MembersPolled
<1>8. TableNamesMembers'
  <2>1. ASSUME NEW i \in 0 .. (size - 1)
        PROVE  pollFileDescriptors'[i]
                 = IF i \in members' THEN Entry(i, {"POLLIN"}) ELSE Zeroed
    <3>1. CASE i = s
      BY <1>2, <1>3, <1>5, <3>1
    <3>2. CASE i # s
      <4>1. pollFileDescriptors'[i] = Grown(size)[i] /\ (i \in members' <=> i \in members)
        BY <1>3, <1>5, <3>2
      <4>2. CASE i < currentPollSetSize
        <5>1. Grown(size)[i] = pollFileDescriptors[i] /\ i \in 0 .. (currentPollSetSize - 1)
          BY <1>1, <1>2, <4>2 DEF Grown
        <5> QED
          BY <4>1, <5>1 DEF PollInv, TableNamesMembers
      <4>3. CASE ~(i < currentPollSetSize)
        <5>1. Grown(size)[i] = Zeroed
          BY <4>3 DEF Grown
        <5>2. i \notin members
          <6> SUFFICES ASSUME i \in members PROVE FALSE
            OBVIOUS
          <6>1. i < maxFileDescriptor
            BY DEF PollInv, MembersPolled
          <6> QED
            BY <1>1, <1>2, <4>3, <6>1
        <5> QED
          BY <4>1, <5>1, <5>2
      <4> QED
        BY <4>2, <4>3
    <3> QED
      BY <3>1, <3>2
  <2> QED
    BY <1>3, <2>1 DEF TableNamesMembers
<1>9. ReportsLowestMember'
  BY <1>3 DEF ReportsLowestMember, NotCalled
<1>10. HangUpHidesSockets'
  BY DEF addToPollSet, HangUpHidesSockets, NotCalled
<1> QED
  BY <1>6, <1>7, <1>8, <1>9, <1>10 DEF PollInv

LEMMA RemoveKeeps ==
  ASSUME PollInv, NEW s \in Descriptors, removeFromPollSet(s)
  PROVE  PollInv'
<1>1. /\ s \in 0 .. (currentPollSetSize - 1)
      /\ pollFileDescriptors' = [pollFileDescriptors EXCEPT ![s] = Zeroed]
      /\ members' = members \ {s} /\ called' = NotCalled
      /\ UNCHANGED <<maxFileDescriptor, currentPollSetSize>>
  BY PollAssumption DEF removeFromPollSet, PollInv, PollTypeOK
<1>2. Zeroed \in [fd : Descriptors \cup {0}, events : SUBSET {"POLLIN"}]
  BY DEF Zeroed, Entry
<1>3. PollTypeOK'
  <2>1. called' \in [ready : SUBSET Descriptors, hungUp : SUBSET Descriptors,
                     result : Nat \cup {-1}]
    BY <1>1 DEF NotCalled
  <2> QED
    BY <1>1, <1>2, <2>1 DEF PollInv, PollTypeOK
<1>4. MembersPolled'
  BY <1>1 DEF PollInv, MembersPolled
<1>5. TableNamesMembers'
  BY <1>1 DEF PollInv, PollTypeOK, TableNamesMembers
<1>6. ReportsLowestMember' /\ HangUpHidesSockets'
  BY <1>1 DEF ReportsLowestMember, HangUpHidesSockets, NotCalled
<1> QED
  BY <1>3, <1>4, <1>5, <1>6 DEF PollInv

LEMMA CallKeeps ==
  ASSUME PollInv, NEW ready \in SUBSET Descriptors, NEW hungUp \in SUBSET Descriptors,
         pollCall(ready, hungUp)
  PROVE  PollInv'
<1>1. PICK result \in {-1} \cup Happened(ready, hungUp) :
        /\ IF Happened(ready, hungUp) = {}
             THEN result = -1
             ELSE result # -1 /\ \A i \in Happened(ready, hungUp) : result <= i
        /\ called' = [ready |-> ready, hungUp |-> hungUp, result |-> result]
  BY DEF pollCall
<1>2. UNCHANGED <<pollFileDescriptors, maxFileDescriptor, currentPollSetSize, members>>
  BY DEF pollCall
<1>3. Happened(ready, hungUp) \subseteq Nat
  BY DEF Happened, PollInv, PollTypeOK
<1>4. PollTypeOK' /\ MembersPolled' /\ TableNamesMembers'
  BY <1>1, <1>2, <1>3 DEF PollInv, PollTypeOK, MembersPolled, TableNamesMembers
<1>5. ReportsLowestMember'
  <2> SUFFICES ASSUME 0 \notin hungUp
               PROVE  IF result = -1
                        THEN members \cap (ready \cup hungUp) = {}
                        ELSE /\ result \in members \cap (ready \cup hungUp)
                             /\ \A s \in members \cap (ready \cup hungUp) : result <= s
    BY <1>1, <1>2 DEF ReportsLowestMember
  <2>1. Happened(ready, hungUp) = members \cap (ready \cup hungUp)
    BY HappenedToMembers DEF PollInv
  <2> QED
    BY <1>1, <2>1
<1>6. HangUpHidesSockets'
  <2>1. /\ called'.hungUp = hungUp /\ called'.result = result /\ members' = members
    BY <1>1, <1>2
  <2> SUFFICES ASSUME 0 \in hungUp, members # {} PROVE result = 0
    BY <2>1, Zenon DEF HangUpHidesSockets
  <2>2. PICK s \in members : s < maxFileDescriptor
    BY DEF PollInv, MembersPolled
  <2>3. s \in Nat /\ maxFileDescriptor \in Nat /\ currentPollSetSize \in Nat
        /\ maxFileDescriptor <= currentPollSetSize
    BY PollAssumption DEF PollInv, PollTypeOK, MembersPolled
  <2>4. 0 \in 0 .. (maxFileDescriptor - 1) /\ 0 \in 0 .. (currentPollSetSize - 1)
    BY <2>2, <2>3
  <2>5. pollFileDescriptors[0].fd = 0
    <3>1. \/ pollFileDescriptors[0] = Entry(0, {"POLLIN"})
          \/ pollFileDescriptors[0] = Zeroed
      BY <2>4 DEF PollInv, TableNamesMembers
    <3> QED
      BY <3>1 DEF Entry, Zeroed
  <2>6. 0 \in Happened(ready, hungUp)
    BY <2>4, <2>5 DEF Happened, Reported
  <2> QED
    BY <1>1, <1>3, <2>6
<1> QED
  BY <1>4, <1>5, <1>6 DEF PollInv

LEMMA PollInitInv == PollInit => PollInv
<1> SUFFICES ASSUME PollInit PROVE PollInv
  OBVIOUS
<1>1. PollTypeOK
  BY DEF PollInit, PollTypeOK, NotCalled
<1>2. MembersPolled /\ TableNamesMembers /\ ReportsLowestMember /\ HangUpHidesSockets
  BY DEF PollInit, MembersPolled, TableNamesMembers, ReportsLowestMember,
         HangUpHidesSockets, NotCalled
<1> QED
  BY <1>1, <1>2 DEF PollInv

LEMMA PollNextInv == PollInv /\ [PollNext]_pollVars => PollInv'
<1> SUFFICES ASSUME PollInv, [PollNext]_pollVars PROVE PollInv'
  OBVIOUS
<1>1. CASE setupPollSet
  <2>1. /\ currentPollSetSize = 0 /\ currentPollSetSize' = POLL_SET_SIZE
        /\ pollFileDescriptors' = [i \in 0 .. (POLL_SET_SIZE - 1) |-> Zeroed]
        /\ maxFileDescriptor' = maxFileDescriptor /\ members' = members
        /\ called' = NotCalled
    BY <1>1 DEF setupPollSet
  <2>2. maxFileDescriptor = 0 /\ members = {}
    BY <2>1, PollAssumption DEF PollInv, PollTypeOK, MembersPolled
  <2>3. Zeroed \in [fd : Descriptors \cup {0}, events : SUBSET {"POLLIN"}]
    BY DEF Zeroed, Entry
  <2>4. PollTypeOK'
    BY <2>1, <2>2, <2>3, PollAssumption DEF PollTypeOK, NotCalled
  <2>5. /\ MembersPolled' /\ TableNamesMembers'
        /\ ReportsLowestMember' /\ HangUpHidesSockets'
    BY <2>1, <2>2, PollAssumption
    DEF MembersPolled, TableNamesMembers, ReportsLowestMember, HangUpHidesSockets,
        NotCalled
  <2> QED
    BY <2>4, <2>5 DEF PollInv
<1>2. CASE UNCHANGED pollVars
  BY <1>2 DEF pollVars, PollInv, PollTypeOK, MembersPolled, TableNamesMembers,
              ReportsLowestMember, HangUpHidesSockets
<1> QED
  BY <1>1, <1>2, AddKeeps, RemoveKeeps, CallKeeps DEF PollNext

\* For any descriptors and any POLL_SET_SIZE, the table of pollLib.c names
\* exactly the descriptors added and not removed.
THEOREM TableCorrect == PollSpec => []TableNamesMembers
<1>1. PollInv => TableNamesMembers
  BY DEF PollInv
<1> QED
  BY <1>1, PollInitInv, PollNextInv, PTL DEF PollSpec

\* While standard input has not hung up, pollCall returns the lowest descriptor
\* of the set at which something happened, or -1 when nothing did.
THEOREM ReportCorrect == PollSpec => []ReportsLowestMember
<1>1. PollInv => ReportsLowestMember
  BY DEF PollInv
<1> QED
  BY <1>1, PollInitInv, PollNextInv, PTL DEF PollSpec

\* Once standard input has hung up pollCall returns 0 whatever the sockets do.
THEOREM HangUpCorrect == PollSpec => []HangUpHidesSockets
<1>1. PollInv => HangUpHidesSockets
  BY DEF PollInv
<1> QED
  BY <1>1, PollInitInv, PollNextInv, PTL DEF PollSpec

\* Every variable of the poll set keeps its type.
THEOREM PollTypes == PollSpec => []PollTypeOK
<1>1. PollInv => PollTypeOK
  BY DEF PollInv
<1> QED
  BY <1>1, PollInitInv, PollNextInv, PTL DEF PollSpec

\* However the table has grown, poll reads no entry past its end and reads the
\* entry of every descriptor in the set.
THEOREM MembersCorrect == PollSpec => []MembersPolled
<1>1. PollInv => MembersPolled
  BY DEF PollInv
<1> QED
  BY <1>1, PollInitInv, PollNextInv, PTL DEF PollSpec

=============================================================================
