-------------------------------- MODULE Injector --------------------------------
(***************************************************************************)
(* The fault injector of libcpe464 in one process: how its settings come   *)
(* from the environment (SettingsManager.cpp, before main) and from the    *)
(* arguments of sendErr_init, and what sendtoErr then does to a PDU the    *)
(* program keeps and may send again (PacketManager.cpp, MsgEvents).        *)
(*                                                                         *)
(* drand48 is one of Draws results, and a rate says how many of them the   *)
(* draw is to be below.  A forked child has a copy of everything here, with *)
(* the message number its parent had reached.                              *)
(***************************************************************************)
EXTENDS Checksum, FiniteSets

CONSTANTS
  Draws,          \* 2^48: the results of drand48
  MsgNos,         \* 2^32: a message number is an unsigned int
  Undefined,      \* a variable that is not in the environment
  NoNumber,       \* a list entry that does not start with a number
  Environments,   \* records [rate, drop, flip] of CPE464_OVERRIDE_ERR_...
  Programs,       \* records [rate, drop, flip]: arguments of sendErr_init
  Unsent,         \* nothing was sent yet
  Dropped,        \* the message was not sent
  MaxSends        \* bound on the messages sent

\* No rate is checked: atof and strtof may give any number, NoNumber stands for a
\* variable strtof finds none in.  A list is the sequence of its entries, none for
\* an empty string.  Neither fate of a message is a buffer.
ASSUME InjectorAssumption ==
  /\ Draws \in Nat \ {0} /\ MsgNos \in Nat \ {0} /\ MaxSends \in Nat
  /\ {Undefined, NoNumber} \cap Int = {} /\ {Unsent, Dropped} \cap Seq(Bytes) = {} /\ Unsent # Dropped
  /\ \A e \in Environments :
       /\ e.rate \in Int \cup {Undefined, NoNumber}
       /\ \A list \in {e.drop, e.flip} \ {Undefined} : list \in Seq(Int \cup {NoNumber})
  /\ \A p \in Programs : p.rate \in Int /\ {p.drop, p.flip} \subseteq BOOLEAN

VARIABLES
  env,                    \* the environment, as it was before main
  program,                \* the arguments of sendErr_init
  started,                \* has sendErr_init been called?
  m_ErrorRate,
  m_MsgNo,
  m_ErrorCase_Constant,   \* the events run on every message, in this order
  m_ErrorCase_Chance,     \* the events one of which is run now and then
  m_History,              \* how many messages infoSeqNo has seen
  sends,                  \* history: how many messages were sent
  randNum,                \* history: what drand48 returned for the last of them
  pdu,                    \* the PDU in the caller's buffer
  wire                    \* what became of it when it was last sent

settings == <<m_ErrorRate, m_ErrorCase_Constant, m_ErrorCase_Chance>>
injectorVars == <<env, program, started, settings, m_MsgNo, m_History, sends, randNum,
                  pdu, wire>>

-----------------------------------------------------------------------------
(* SettingsManager: lists of message numbers *)

\* The numbers in a list, up to the first entry that is none.
parser2ListLong(list) ==
  {list[i] : i \in {i \in DOMAIN list : \A j \in 1 .. i : list[j] # NoNumber}}

\* Negative numbers are left out, the others cut to 32 bits.
parserLong2Uint32(longs) == {n % MsgNos : n \in {n \in longs : n >= 0}}

MessageNumbers(list) == parserLong2Uint32(parser2ListLong(list))

-----------------------------------------------------------------------------
(* MsgEvents *)

\* numbers and all are m_DropList and m_DropAll.
Event(type, all, numbers) == [type |-> type, all |-> all, numbers |-> numbers]

errorDrop         == Event("drop", TRUE, {})
DropSpecific(nos) == Event("drop", FALSE, nos)
errorFlipBits     == Event("flip", FALSE, {})
infoSeqNo         == Event("info", FALSE, {})

Drops(event, msgNo) == event.type = "drop" /\ (event.all \/ msgNo \in event.numbers)

Complemented(bytes, k) == [bytes EXCEPT ![k] = (Byte - 1) - @]

\* The buffers an event that does not drop may leave.
Changed(event, bytes) ==
  IF event.type = "flip" THEN {Complemented(bytes, k) : k \in DOMAIN bytes} ELSE {bytes}

-----------------------------------------------------------------------------
(* SettingsManager's constructor, and sendErr_init *)

\* A rate that is no number counts as not set.
RateSet(variable) == variable \notin {Undefined, NoNumber}

\* A defined variable names messages by their numbers, or asks for random events.
Lists(variable) == variable # Undefined /\ MessageNumbers(variable) # {}
AsksRandom(variable) == variable # Undefined /\ MessageNumbers(variable) = {}

\* A list of the messages to flip is "TODO": nothing is flipped.
loadEnvData_ErrFlip == IF AsksRandom(env.flip) THEN <<errorFlipBits>> ELSE <<>>

loadEnvData_ErrDrop ==
  /\ m_ErrorCase_Constant =
       IF Lists(env.drop) THEN <<DropSpecific(MessageNumbers(env.drop))>> ELSE <<>>
  /\ m_ErrorCase_Chance =
       (IF AsksRandom(env.drop) THEN <<errorDrop>> ELSE <<>>) \o loadEnvData_ErrFlip

Loaded ==
  /\ m_ErrorRate = IF RateSet(env.rate) THEN env.rate ELSE 0
  /\ loadEnvData_ErrDrop
  /\ started = FALSE
  /\ m_MsgNo = 0 /\ m_History = 0 /\ sends = 0 /\ randNum = 0 /\ wire = Unsent

Configured == env \in Environments /\ program \in Programs

Kept == \E seq \in [1 .. 4 -> Bytes], flag \in Bytes, payload \in Payloads :
          pdu = Sealed(seq, flag, payload)

InjectorInit == Configured /\ Loaded /\ Kept

\* Mutant: the argument adds its event whatever the environment says.
setUserMode_Ignoring(isSet, isEnabled, event) ==
  IF isEnabled THEN <<event>> ELSE <<>>

\* setUserMode_ErrDrop, setUserMode_ErrFlip: a defined variable overrides.
setUserMode(isSet, isEnabled, event) ==
  IF ~isSet /\ isEnabled THEN <<event>> ELSE <<>>

sendErr_init ==
  /\ ~started /\ started' = TRUE
  /\ m_ErrorCase_Constant' = Append(m_ErrorCase_Constant, infoSeqNo)
  /\ m_ErrorRate' = IF RateSet(env.rate) THEN m_ErrorRate ELSE program.rate
  /\ m_ErrorCase_Chance' =
       m_ErrorCase_Chance
         \o setUserMode(env.drop # Undefined, program.drop, errorDrop)
         \o setUserMode(env.flip # Undefined, program.flip, errorFlipBits)
  /\ UNCHANGED <<env, program, m_MsgNo, m_History, sends, randNum, pdu, wire>>

-----------------------------------------------------------------------------
(* PacketManager::sendto_Err *)

\* Mutant: infoSeqNo also sees the messages an earlier event dropped.
Counting_All(msgNo) == {i \in DOMAIN m_ErrorCase_Constant :
                          m_ErrorCase_Constant[i].type = "info"}

\* runMsgEvents: the events that count message msgNo; a drop ends the list.
Counting(msgNo) ==
  {i \in DOMAIN m_ErrorCase_Constant :
     /\ m_ErrorCase_Constant[i].type = "info"
     /\ \A j \in 1 .. i : ~Drops(m_ErrorCase_Constant[j], msgNo)}

ConstantDrops(msgNo) ==
  \E i \in DOMAIN m_ErrorCase_Constant : Drops(m_ErrorCase_Constant[i], msgNo)

\* processEvents: the events that may be drawn, none when the draw says so.
Drawn(draw) ==
  IF draw <= m_ErrorRate THEN {m_ErrorCase_Chance[i] : i \in DOMAIN m_ErrorCase_Chance}
                         ELSE {}

\* Mutant: a drop by number is forgotten when the event drawn drops nothing.
Outcomes_Overwritten(msgNo, draw) ==
  IF Drawn(draw) = {}
    THEN {IF ConstantDrops(msgNo) THEN Dropped ELSE pdu}
    ELSE UNION {IF Drops(event, msgNo) THEN {Dropped} ELSE Changed(event, pdu) :
                  event \in Drawn(draw)}

\* What may become of the copy of pdu that message msgNo is.
Outcomes(msgNo, draw) ==
  IF Drawn(draw) = {}
    THEN {IF ConstantDrops(msgNo) THEN Dropped ELSE pdu}
    ELSE UNION {IF ConstantDrops(msgNo) \/ Drops(event, msgNo)
                  THEN {Dropped} ELSE Changed(event, pdu) : event \in Drawn(draw)}

\* Mutant: the events work on the caller's buffer.
sendto_Err_InPlace ==
  /\ started /\ sends < MaxSends
  /\ m_MsgNo' = (m_MsgNo + 1) % MsgNos
  /\ m_History' = m_History + Cardinality(Counting(m_MsgNo'))
  /\ randNum' \in 0 .. (Draws - 1)
  /\ wire' \in Outcomes(m_MsgNo', randNum')
  /\ pdu' = IF wire' = Dropped THEN pdu ELSE wire'
  /\ sends' = sends + 1
  /\ UNCHANGED <<env, program, started, settings>>

\* Mutant: the message number is wider than an unsigned int.
sendto_Err_Wide ==
  /\ started /\ sends < MaxSends
  /\ m_MsgNo' = m_MsgNo + 1
  /\ m_History' = m_History + Cardinality(Counting(m_MsgNo'))
  /\ randNum' \in 0 .. (Draws - 1)
  /\ wire' \in Outcomes(m_MsgNo', randNum')
  /\ sends' = sends + 1
  /\ UNCHANGED <<env, program, started, settings, pdu>>

\* The caller's buffer is copied first, and stays as it is for a resend.
sendto_Err ==
  /\ started /\ sends < MaxSends
  /\ m_MsgNo' = (m_MsgNo + 1) % MsgNos
  /\ m_History' = m_History + Cardinality(Counting(m_MsgNo'))
  /\ randNum' \in 0 .. (Draws - 1)
  /\ wire' \in Outcomes(m_MsgNo', randNum')
  /\ sends' = sends + 1
  /\ UNCHANGED <<env, program, started, settings, pdu>>

InjectorNext == sendErr_init \/ sendto_Err

InjectorSpec == InjectorInit /\ [][InjectorNext]_injectorVars

-----------------------------------------------------------------------------

Events ==
  [type : {"drop", "flip", "info"}, all : BOOLEAN, numbers : SUBSET (0 .. (MsgNos - 1))]

\* Every variable has the type its declaration in the code gives it: the message
\* number, above all, stays within its 32 bits.
InjectorTypeOK ==
  /\ env \in Environments /\ program \in Programs /\ started \in BOOLEAN
  /\ m_ErrorRate \in Int /\ m_MsgNo \in 0 .. (MsgNos - 1)
  /\ m_ErrorCase_Constant \in Seq(Events) /\ m_ErrorCase_Chance \in Seq(Events)
  /\ m_History \in Nat /\ sends \in 0 .. MaxSends /\ randNum \in 0 .. (Draws - 1)
  /\ pdu \in Seq(Bytes) /\ (wire \in {Unsent, Dropped} \/ wire \in Seq(Bytes))

\* A PDU passes the test of every receiver however often it was sent before, also
\* when its sum carries: a resend is not spoilt by a byte flipped in an earlier
\* send.  That holds for an odd length too, whatever byte comes next in the buffer,
\* though checksum.c asks to have that byte zeroed.
SealedPasses == \A next \in Bytes : in_cksum(Append(pdu, next), Len(pdu)) = 0

\* The checksum tells exactly the messages that were changed on the way, whichever
\* byte was and whatever the receiver's buffer holds after them: what
\* ReceiveFlipped of module Network takes for granted.
FlipIsSeen ==
  wire \notin {Unsent, Dropped} =>
    \A next \in Bytes : in_cksum(Append(wire, next), Len(wire)) = 0 <=> wire = pdu

\* What is to happen at random: what the environment says, when it says anything,
\* else what the program asks for.  A list asks for nothing random.
AtRandom(variable, argument) ==
  IF variable = Undefined THEN argument ELSE AsksRandom(variable)

Rate == IF RateSet(env.rate) THEN env.rate ELSE program.rate

Listed(msgNo) == Lists(env.drop) /\ msgNo \in MessageNumbers(env.drop)

\* "Should [the environment] be defined, it will always have precedence over any
\* compiled option" (SettingsManager.h): rate, drops and flips are the environment's
\* where it says anything, the program's otherwise, and what happens to a message is
\* neither less nor more: an error exactly when it is listed, or when something may
\* happen at random and the draw is not above the rate.  So a rate of 0 still errs
\* on a draw of 0, where cpe464.h says "0 means no errors".
ErrorsAsConfigured ==
  sends > 0 =>
    LET drops == AtRandom(env.drop, program.drop)
        flips == AtRandom(env.flip, program.flip)
    IN  /\ wire # pdu <=> Listed(m_MsgNo) \/ (randNum <= Rate /\ (drops \/ flips))
        /\ wire = Dropped => Listed(m_MsgNo) \/ drops
        /\ wire \notin {Dropped, pdu} => flips

\* The messages a list names are dropped, whatever is drawn besides: a test that
\* loses message 2 loses it in every run.
ListedAreDropped == sends > 0 /\ Listed(m_MsgNo) => wire = Dropped

\* The report printed at the end ("Msgs (Total)", infoSeqNo.cpp) counts every
\* message but those dropped by number: their event comes before the counting
\* one, because the environment is read before main.
ReportMissesOnlyListed ==
  m_History = Cardinality({n \in 1 .. sends : ~Listed(n % MsgNos)})

-----------------------------------------------------------------------------
(* The inductive invariant *)

ConstantEvents ==
  (IF Lists(env.drop) THEN <<DropSpecific(MessageNumbers(env.drop))>> ELSE <<>>)
    \o IF started THEN <<infoSeqNo>> ELSE <<>>

ChanceEvents ==
  (IF AtRandom(env.drop, program.drop) THEN {errorDrop} ELSE {})
    \cup IF AtRandom(env.flip, program.flip) THEN {errorFlipBits} ELSE {}

\* Every part of the invariant that is proved: the rate, which events there are,
\* that the counting one comes last, that the message number is the number of
\* messages sent in 32 bits, and that a message is the PDU with one byte complemented
\* at most.
InjectorInv ==
  /\ InjectorTypeOK
  /\ m_ErrorCase_Constant = ConstantEvents
  /\ m_ErrorCase_Chance \in Seq(ChanceEvents)
  /\ AsksRandom(env.drop) \/ AsksRandom(env.flip) \/ (started /\ ChanceEvents # {})
       => m_ErrorCase_Chance # <<>>
  /\ RateSet(env.rate) \/ started => m_ErrorRate = Rate
  /\ sends > 0 => started
  /\ m_MsgNo = sends % MsgNos
  /\ sends = 0 <=> wire = Unsent
  /\ wire \in {Unsent, Dropped, pdu} \cup {Complemented(pdu, k) : k \in DOMAIN pdu}
  /\ Len(pdu) < Word /\ SealedPasses
  /\ ErrorsAsConfigured /\ ListedAreDropped /\ ReportMissesOnlyListed

=============================================================================
