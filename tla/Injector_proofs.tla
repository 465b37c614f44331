---------------------------- MODULE Injector_proofs ----------------------------
(***************************************************************************)
(* The fault injector for any settings, PDU and number of messages: what   *)
(* it drops and flips is what was configured, what it leaves in the        *)
(* caller's buffer stays sealed, its report counts what it should, and the *)
(* checksum tells every message it flipped.                                *)
(***************************************************************************)
EXTENDS Injector, Checksum_proofs

-----------------------------------------------------------------------------
(* Lists of message numbers *)

\* The bounds are numbers.
LEMMA Limits ==
  Draws \in Nat /\ Draws > 0 /\ MsgNos \in Nat /\ MsgNos > 0 /\ MaxSends \in Nat
<1>1. Draws \in Nat \ {0} /\ MsgNos \in Nat \ {0} /\ MaxSends \in Nat
  BY InjectorAssumption, Zenon
<1> QED
  BY <1>1

\* A message that was not sent is no buffer.
LEMMA Fates ==
  Unsent # Dropped /\ Unsent \notin Seq(Bytes) /\ Dropped \notin Seq(Bytes)
BY InjectorAssumption

\* Two sequences of one element, joined.
LEMMA ConcatTwo ==
  ASSUME NEW a, NEW b
  PROVE  <<a>> \o <<b>> = <<a, b>>
<1> DEFINE S == {a, b}
           s == <<a>>
           t == <<b>>
<1>1. s \in Seq(S) /\ Len(s) = 1 /\ t \in Seq(S) /\ Len(t) = 1 /\ s[1] = a /\ t[1] = b
  OBVIOUS
<1> HIDE DEF s, t, S
<1>2. /\ s \o t \in Seq(S) /\ Len(s \o t) = Len(s) + Len(t)
      /\ \A i \in 1 .. Len(s) + Len(t) :
           (s \o t)[i] = IF i <= Len(s) THEN s[i] ELSE t[i - Len(s)]
  BY <1>1, ConcatProperties, Zenon
<1>3. /\ Len(s \o t) = 2 /\ (s \o t)[1] = a /\ (s \o t)[2] = b
  BY <1>1, <1>2
<1> DEFINE u == s \o t
           v == <<a, b>>
<1>4. v \in Seq(S) /\ Len(v) = 2 /\ v[1] = a /\ v[2] = b
  BY DEF S
<1>5. u \in Seq(S) /\ Len(u) = 2 /\ u[1] = a /\ u[2] = b
  BY <1>2, <1>3
<1> HIDE DEF u, v
<1>6. u = v
  <2>1. \A i \in 1 .. 2 : u[i] = v[i]
    BY <1>4, <1>5
  <2> QED
    BY <1>4, <1>5, <2>1, SeqEqual
<1> QED
  BY <1>6 DEF u, v, s, t

\* A list gives message numbers of 32 bits, whatever is in it.
LEMMA NumbersInRange ==
  ASSUME NEW list \in Seq(Int \cup {NoNumber})
  PROVE  MessageNumbers(list) \in SUBSET (0 .. (MsgNos - 1))
<1>1. parser2ListLong(list) \subseteq Int
  <2>1. SUFFICES ASSUME NEW i \in DOMAIN list, \A j \in 1 .. i : list[j] # NoNumber
                 PROVE  list[i] \in Int
    BY DEF parser2ListLong
  <2>2. i \in 1 .. i /\ list[i] \in Int \cup {NoNumber}
    OBVIOUS
  <2> QED
    BY <2>1, <2>2
<1>2. \A n \in Nat : n % MsgNos \in 0 .. (MsgNos - 1)
  BY InjectorAssumption
<1> QED
  BY <1>1, <1>2 DEF MessageNumbers, parserLong2Uint32

\* Any rate that is set is a number.
LEMMA RatesAreNumbers ==
  ASSUME env \in Environments, program \in Programs
  PROVE  (RateSet(env.rate) => env.rate \in Int) /\ program.rate \in Int
BY InjectorAssumption DEF RateSet

\* Joined sequences are empty when both are.
LEMMA ConcatLonger ==
  ASSUME NEW S, NEW s \in Seq(S), NEW t \in Seq(S), s \o t = <<>>
  PROVE  s = <<>> /\ t = <<>> /\ Len(s) = 0 /\ Len(t) = 0
<1>1. Len(s) + Len(t) = 0
  <2>1. Len(s \o t) = Len(s) + Len(t)
    BY ConcatProperties, Zenon
  <2> QED
    BY <2>1
<1> QED
  BY <1>1

\* The events the settings are made of.
LEMMA EventTypes ==
  /\ errorDrop \in Events /\ errorFlipBits \in Events /\ infoSeqNo \in Events
  /\ \A numbers \in SUBSET (0 .. (MsgNos - 1)) : DropSpecific(numbers) \in Events
BY DEF errorDrop, errorFlipBits, infoSeqNo, DropSpecific, Event, Events

\* What the list of messages to drop adds to the constant events.
LEMMA ListedEvents ==
  ASSUME env \in Environments
  PROVE  (IF Lists(env.drop) THEN <<DropSpecific(MessageNumbers(env.drop))>> ELSE <<>>)
           \in Seq(Events)
<1>1. CASE Lists(env.drop)
  <2>1. env.drop \in Seq(Int \cup {NoNumber})
    BY <1>1, InjectorAssumption DEF Lists
  <2>2. DropSpecific(MessageNumbers(env.drop)) \in Events
    BY <2>1, NumbersInRange, EventTypes
  <2> QED
    BY <1>1, <2>2
<1>2. CASE ~Lists(env.drop)
  BY <1>2
<1> QED
  BY <1>1, <1>2

-----------------------------------------------------------------------------
(* Initial states *)

\* The settings as loadEnvData leaves them, before main.
LEMMA InitInjector == InjectorInit => InjectorInv
<1> SUFFICES ASSUME InjectorInit PROVE InjectorInv
  OBVIOUS
<1> USE DEF InjectorInit, Configured
<1>1. PICK seq \in [1 .. 4 -> Bytes], flag \in Bytes, payload \in Payloads :
        pdu = Sealed(seq, flag, payload)
  BY DEF Kept
<1>2. /\ pdu \in Seq(Bytes) /\ Len(pdu) < Word
      /\ \A next \in Bytes : in_cksum(Append(pdu, next), Len(pdu)) = 0
  BY <1>1, SealedIsCorrect DEF Short
<1>3. /\ started = FALSE /\ m_MsgNo = 0 /\ m_History = 0 /\ sends = 0 /\ wire = Unsent
      /\ m_ErrorRate = (IF RateSet(env.rate) THEN env.rate ELSE 0) /\ randNum = 0
  BY DEF Loaded
<1>4. m_ErrorRate \in Int /\ (RateSet(env.rate) => m_ErrorRate = Rate)
  BY <1>3, RatesAreNumbers DEF Rate
<1>5. /\ m_ErrorCase_Constant \in Seq(Events)
      /\ m_ErrorCase_Constant = ConstantEvents
  <2> DEFINE listed == IF Lists(env.drop)
                         THEN <<DropSpecific(MessageNumbers(env.drop))>> ELSE <<>>
  <2>1. m_ErrorCase_Constant = listed
    BY DEF Loaded, loadEnvData_ErrDrop
  <2>2. listed \in Seq(Events)
    BY ListedEvents
  <2>3. ConstantEvents = listed \o <<>>
    BY <1>3 DEF ConstantEvents
  <2> HIDE DEF listed
  <2> QED
    BY <2>1, <2>2, <2>3
<1>6. /\ m_ErrorCase_Chance \in Seq(Events)
      /\ m_ErrorCase_Chance \in Seq(ChanceEvents)
      /\ AsksRandom(env.drop) \/ AsksRandom(env.flip) => m_ErrorCase_Chance # <<>>
  <2> DEFINE drops == IF AsksRandom(env.drop) THEN <<errorDrop>> ELSE <<>>
             flips == IF AsksRandom(env.flip) THEN <<errorFlipBits>> ELSE <<>>
  <2>1. m_ErrorCase_Chance = drops \o flips
    BY DEF Loaded, loadEnvData_ErrDrop, loadEnvData_ErrFlip
  <2>2. drops \in Seq(ChanceEvents) /\ flips \in Seq(ChanceEvents)
    <3>1. /\ AsksRandom(env.drop) => errorDrop \in ChanceEvents
          /\ AsksRandom(env.flip) => errorFlipBits \in ChanceEvents
      BY DEF ChanceEvents, AtRandom, AsksRandom
    <3> QED
      BY <3>1
  <2>3. drops \in Seq(Events) /\ flips \in Seq(Events)
    BY EventTypes
  <2>5. /\ AsksRandom(env.drop) => Len(drops) = 1
        /\ AsksRandom(env.flip) => Len(flips) = 1
    OBVIOUS
  <2> HIDE DEF drops, flips
  <2>4. m_ErrorCase_Chance \in Seq(Events) /\ m_ErrorCase_Chance \in Seq(ChanceEvents)
    BY <2>1, <2>2, <2>3
  <2>6. AsksRandom(env.drop) \/ AsksRandom(env.flip) => m_ErrorCase_Chance # <<>>
    <3>1. drops \o flips = <<>> => Len(drops) = 0 /\ Len(flips) = 0
      BY <2>3, ConcatLonger, Zenon
    <3>2. 1 # 0
      OBVIOUS
    <3> QED
      BY <2>1, <2>5, <3>1, <3>2, Zenon
  <2> QED
    BY <2>4, <2>6
<1>7. InjectorTypeOK
  <2>1. m_MsgNo \in 0 .. (MsgNos - 1) /\ m_History \in Nat /\ sends \in 0 .. MaxSends
    <3>1. 0 \in 0 .. (MsgNos - 1) /\ 0 \in Nat /\ 0 \in 0 .. MaxSends
      BY Limits
    <3> QED
      BY <1>3, <3>1
  <2>4. started \in BOOLEAN
    BY <1>3
  <2>5. randNum \in 0 .. (Draws - 1)
    BY <1>3, Limits
  <2>2. wire \in {Unsent, Dropped}
    BY <1>3
  <2>3. env \in Environments /\ program \in Programs
    OBVIOUS
  <2> QED
    BY <1>2, <1>4, <1>5, <1>6, <2>1, <2>2, <2>3, <2>4, <2>5, Zenon DEF InjectorTypeOK
<1>8. m_MsgNo = sends % MsgNos
  BY <1>3, Limits
<1>9. ErrorsAsConfigured /\ ListedAreDropped
  BY <1>3 DEF ErrorsAsConfigured, ListedAreDropped
<1>10. ReportMissesOnlyListed
  BY <1>3, FS_EmptySet DEF ReportMissesOnlyListed
<1>11. SealedPasses
  BY <1>2 DEF SealedPasses
<1>12. (sends = 0 <=> wire = Unsent) /\ ~started /\ ~(sends > 0)
  BY <1>3
<1> QED
  BY <1>2, <1>3, <1>4, <1>5, <1>6, <1>7, <1>8, <1>9, <1>10, <1>11, <1>12, Zenon
     DEF InjectorInv

-----------------------------------------------------------------------------
(* sendErr_init *)

\* sendErr_init appends events, and what was sent stays as it is.
LEMMA StartInjector ==
  ASSUME InjectorInv, sendErr_init
  PROVE  InjectorInv'
<1> USE DEF InjectorInv, sendErr_init
<1>1. /\ env' = env /\ program' = program /\ m_MsgNo' = m_MsgNo /\ m_History' = m_History
      /\ sends' = sends /\ pdu' = pdu /\ wire' = wire /\ started' = TRUE /\ started = FALSE
      /\ randNum' = randNum
  BY DEF InjectorTypeOK
<1>2. env \in Environments /\ program \in Programs
  BY DEF InjectorTypeOK
<1>3. m_ErrorRate' \in Int /\ (m_ErrorRate = Rate)'
  <2>1. program.rate \in Int /\ m_ErrorRate \in Int
    BY <1>2, RatesAreNumbers DEF InjectorTypeOK
  <2>2. RateSet(env.rate) => m_ErrorRate = Rate
    OBVIOUS
  <2>3. m_ErrorRate' = IF RateSet(env.rate) THEN m_ErrorRate ELSE program.rate
    OBVIOUS
  <2> HIDE DEF InjectorInv, sendErr_init
  <2>4. Rate' = Rate
    BY <1>1 DEF Rate, RateSet
  <2> QED
    BY <2>1, <2>2, <2>3, <2>4 DEF Rate
<1>4. m_ErrorCase_Constant' \in Seq(Events) /\ m_ErrorCase_Constant' = ConstantEvents'
  <2> DEFINE listed == IF Lists(env.drop)
                         THEN <<DropSpecific(MessageNumbers(env.drop))>> ELSE <<>>
  <2>1. listed \in Seq(Events) /\ infoSeqNo \in Events
    BY <1>2, ListedEvents, EventTypes
  <2>2. ConstantEvents = listed \o <<>> /\ ConstantEvents' = listed \o <<infoSeqNo>>
    BY <1>1 DEF ConstantEvents
  <2>3. /\ m_ErrorCase_Constant = ConstantEvents
        /\ m_ErrorCase_Constant' = Append(m_ErrorCase_Constant, infoSeqNo)
    OBVIOUS
  <2> HIDE DEF listed, InjectorInv, sendErr_init
  <2>4. listed \o <<>> = listed /\ listed \o <<infoSeqNo>> = Append(listed, infoSeqNo)
    BY <2>1
  <2>5. Append(listed, infoSeqNo) \in Seq(Events)
    BY <2>1
  <2> QED
    BY <2>2, <2>3, <2>4, <2>5
<1>5. /\ m_ErrorCase_Chance' \in Seq(Events)
      /\ m_ErrorCase_Chance' \in Seq(ChanceEvents')
      /\ ChanceEvents' # {} => m_ErrorCase_Chance' # <<>>
  <2> DEFINE drops == setUserMode(env.drop # Undefined, program.drop, errorDrop)
             flips == setUserMode(env.flip # Undefined, program.flip, errorFlipBits)
  <2>1. m_ErrorCase_Chance' = m_ErrorCase_Chance \o drops \o flips
    OBVIOUS
  <2>2. drops \in Seq(ChanceEvents) /\ flips \in Seq(ChanceEvents)
    <3>1. /\ env.drop = Undefined /\ program.drop => errorDrop \in ChanceEvents
          /\ env.flip = Undefined /\ program.flip => errorFlipBits \in ChanceEvents
      BY DEF ChanceEvents, AtRandom
    <3> QED
      BY <3>1 DEF setUserMode
  <2>3. drops \in Seq(Events) /\ flips \in Seq(Events)
    BY EventTypes DEF setUserMode
  <2>4. m_ErrorCase_Chance \in Seq(Events) /\ m_ErrorCase_Chance \in Seq(ChanceEvents)
    BY DEF InjectorTypeOK
  <2>5. ChanceEvents' = ChanceEvents
    BY <1>1 DEF ChanceEvents, AtRandom, AsksRandom
  <2>7. AsksRandom(env.drop) \/ AsksRandom(env.flip) => m_ErrorCase_Chance # <<>>
    OBVIOUS
  <2>8. /\ env.drop = Undefined /\ program.drop => Len(drops) = 1
        /\ env.flip = Undefined /\ program.flip => Len(flips) = 1
    BY DEF setUserMode
  <2> HIDE DEF drops, flips, InjectorInv, sendErr_init
  <2>9. m_ErrorCase_Chance' = <<>> =>
          m_ErrorCase_Chance = <<>> /\ Len(drops) = 0 /\ Len(flips) = 0
    <3>1. SUFFICES ASSUME m_ErrorCase_Chance \o drops \o flips = <<>>
                   PROVE  m_ErrorCase_Chance = <<>> /\ Len(drops) = 0 /\ Len(flips) = 0
      BY <2>1
    <3>2. m_ErrorCase_Chance \o drops \in Seq(Events)
      BY <2>3, <2>4
    <3>3. m_ErrorCase_Chance \o drops = <<>> /\ Len(flips) = 0
      BY <2>3, <3>1, <3>2, ConcatLonger, Zenon
    <3> QED
      BY <2>3, <2>4, <3>3, ConcatLonger, Zenon
  <2>10. ChanceEvents # {} =>
           \/ AsksRandom(env.drop) \/ AsksRandom(env.flip)
           \/ Len(drops) = 1 \/ Len(flips) = 1
    BY <2>8 DEF ChanceEvents, AtRandom
  <2>6. /\ m_ErrorCase_Chance \o drops \o flips \in Seq(Events)
        /\ m_ErrorCase_Chance \o drops \o flips \in Seq(ChanceEvents)
    BY <2>2, <2>3, <2>4
  <2>11. ChanceEvents # {} => m_ErrorCase_Chance' # <<>>
    BY <2>7, <2>9, <2>10
  <2> QED
    BY <2>1, <2>5, <2>6, <2>11
<1>6. InjectorTypeOK'
  BY <1>1, <1>3, <1>4, <1>5, Zenon DEF InjectorTypeOK
<1>7. /\ (m_MsgNo = sends % MsgNos)' /\ (sends = 0 <=> wire = Unsent)'
      /\ (wire \in {Unsent, Dropped, pdu} \cup {Complemented(pdu, k) : k \in DOMAIN pdu})'
      /\ (Len(pdu) < Word)'
  BY <1>1 DEF Complemented
<1>8. SealedPasses'
  BY <1>1 DEF SealedPasses
<1>9. (ErrorsAsConfigured /\ ListedAreDropped)' /\ ~(sends' > 0)
  <2>1. ~(sends > 0)
    OBVIOUS
  <2> HIDE DEF InjectorInv, sendErr_init
  <2> QED
    BY <1>1, <2>1 DEF ErrorsAsConfigured, ListedAreDropped
<1>10. ReportMissesOnlyListed'
  BY <1>1 DEF ReportMissesOnlyListed, Listed, Lists
<1>11. /\ (\/ AsksRandom(env.drop) \/ AsksRandom(env.flip) \/ (started /\ ChanceEvents # {})
             => m_ErrorCase_Chance # <<>>)'
       /\ (RateSet(env.rate) \/ started => m_ErrorRate = Rate)' /\ (sends > 0 => started)'
  <2> HIDE DEF InjectorInv, sendErr_init
  <2>1. (AsksRandom(env.drop) \/ AsksRandom(env.flip) => ChanceEvents # {})'
    BY DEF AsksRandom, ChanceEvents, AtRandom
  <2> QED
    BY <1>1, <1>3, <1>5, <2>1
<1> HIDE DEF InjectorInv, sendErr_init
<1> QED
  BY <1>4, <1>5, <1>6, <1>7, <1>8, <1>9, <1>10, <1>11, Zenon DEF InjectorInv

-----------------------------------------------------------------------------
(* sendtoErr *)

\* The list of the messages to drop comes before the counting event.
LEMMA EventsOfAMessage ==
  ASSUME InjectorInv, started, NEW msgNo
  PROVE  /\ ConstantDrops(msgNo) <=> Listed(msgNo)
         /\ Cardinality(Counting(msgNo)) = IF Listed(msgNo) THEN 0 ELSE 1
<1> USE DEF InjectorInv, Listed
<1> DEFINE listed == Lists(env.drop) /\ msgNo \in MessageNumbers(env.drop)
           drop == DropSpecific(MessageNumbers(env.drop))
<1>1. /\ infoSeqNo.type = "info" /\ ~Drops(infoSeqNo, msgNo)
      /\ drop.type = "drop" /\ (Drops(drop, msgNo) <=> msgNo \in MessageNumbers(env.drop))
  BY DEF infoSeqNo, DropSpecific, Event, Drops
<1>2. CASE Lists(env.drop)
  <2>1. m_ErrorCase_Constant = <<drop, infoSeqNo>>
    <3>1. m_ErrorCase_Constant = <<drop>> \o <<infoSeqNo>>
      BY <1>2 DEF ConstantEvents
    <3> HIDE DEF drop
    <3> QED
      BY <3>1, ConcatTwo, Zenon
  <2> HIDE DEF drop
  <2>2. DOMAIN m_ErrorCase_Constant = {1, 2}
    BY <2>1
  <2>3. ConstantDrops(msgNo) <=> listed
    BY <1>1, <1>2, <2>1, <2>2 DEF ConstantDrops
  <2>4. Counting(msgNo) = IF listed THEN {} ELSE {2}
    <3>1. \A i \in {1, 2} : m_ErrorCase_Constant[i].type = "info" <=> i = 2
      BY <1>1, <2>1
    <3>2. (\A j \in 1 .. 2 : ~Drops(m_ErrorCase_Constant[j], msgNo)) <=> ~listed
      <4>1. 1 .. 2 = {1, 2}
        OBVIOUS
      <4> QED
        BY <1>1, <1>2, <2>1, <4>1
    <3> QED
      BY <2>2, <3>1, <3>2 DEF Counting
  <2> QED
    BY <2>3, <2>4, FS_EmptySet, FS_Singleton
<1>3. CASE ~Lists(env.drop)
  <2>1. m_ErrorCase_Constant = <<infoSeqNo>>
    BY <1>3 DEF ConstantEvents
  <2>2. DOMAIN m_ErrorCase_Constant = {1}
    BY <2>1
  <2>3. ~ConstantDrops(msgNo)
    BY <1>1, <2>1, <2>2 DEF ConstantDrops
  <2>4. Counting(msgNo) = {1}
    BY <1>1, <2>1, <2>2 DEF Counting
  <2> QED
    BY <1>3, <2>3, <2>4, FS_Singleton
<1> QED
  BY <1>2, <1>3

\* A byte complemented is another byte: Byte - 1 is odd.
LEMMA ComplementedBytes ==
  ASSUME NEW bytes \in Seq(Bytes), NEW k \in DOMAIN bytes
  PROVE  LET v == (Byte - 1) - bytes[k]
         IN  /\ v \in Bytes /\ v # bytes[k]
             /\ Complemented(bytes, k) = [bytes EXCEPT ![k] = v]
             /\ Complemented(bytes, k) \in Seq(Bytes)
<1> DEFINE u == bytes[k]
<1>1. u \in Bytes
  OBVIOUS
<1>2. Byte \in Nat /\ Byte % 2 = 0 /\ Byte > 0
  BY ByteAssumption
<1>3. /\ (Byte - 1) - u \in Bytes /\ (Byte - 1) - u # u
  <2> HIDE DEF u
  <2> QED
    BY <1>1, <1>2 DEF Bytes
<1>4. Complemented(bytes, k) = [bytes EXCEPT ![k] = (Byte - 1) - u]
  BY DEF Complemented
<1>5. [bytes EXCEPT ![k] = (Byte - 1) - u] \in Seq(Bytes)
  BY <1>3
<1> QED
  BY <1>3, <1>4, <1>5

\* Something is drawn when the draw is not above the rate and there is something.
LEMMA DrawnWhen ==
  ASSUME InjectorInv, started, NEW draw
  PROVE  Drawn(draw) # {} <=>
           draw <= Rate /\ (AtRandom(env.drop, program.drop) \/ AtRandom(env.flip, program.flip))
<1>1. /\ m_ErrorRate = Rate /\ m_ErrorCase_Chance \in Seq(ChanceEvents)
      /\ ChanceEvents # {} => m_ErrorCase_Chance # <<>>
  BY DEF InjectorInv
<1>2. ChanceEvents # {} <=>
        AtRandom(env.drop, program.drop) \/ AtRandom(env.flip, program.flip)
  BY DEF ChanceEvents
<1>3. (\E i \in DOMAIN m_ErrorCase_Chance : TRUE) <=> ChanceEvents # {}
  <2>1. ASSUME NEW i \in DOMAIN m_ErrorCase_Chance PROVE ChanceEvents # {}
    <3>1. m_ErrorCase_Chance[i] \in ChanceEvents
      BY <1>1
    <3> QED
      BY <3>1
  <2>2. ASSUME m_ErrorCase_Chance # <<>> PROVE 1 \in DOMAIN m_ErrorCase_Chance
    BY <1>1, <2>2
  <2> QED
    BY <1>1, <2>1, <2>2
<1>4. Drawn(draw) # {} <=> draw <= m_ErrorRate /\ \E i \in DOMAIN m_ErrorCase_Chance : TRUE
  BY Zenon DEF Drawn
<1> QED
  BY <1>1, <1>2, <1>3, <1>4, Zenon

\* The ways a message can leave: dropped, as it is, or with one byte complemented.
LEMMA OutcomeCases ==
  ASSUME InjectorInv, NEW msgNo, NEW draw, NEW o \in Outcomes(msgNo, draw)
  PROVE  \/ o = Dropped /\ ConstantDrops(msgNo)
         \/ o = pdu /\ ~ConstantDrops(msgNo) /\ Drawn(draw) = {}
         \/ o = Dropped /\ Drawn(draw) # {} /\ AtRandom(env.drop, program.drop)
         \/ /\ \E k \in DOMAIN pdu : o = Complemented(pdu, k)
            /\ ~ConstantDrops(msgNo) /\ Drawn(draw) # {} /\ AtRandom(env.flip, program.flip)
<1>1. CASE Drawn(draw) = {}
  BY <1>1 DEF Outcomes
<1>2. CASE Drawn(draw) # {}
  <2>1. PICK event \in Drawn(draw) :
          o \in IF ConstantDrops(msgNo) \/ Drops(event, msgNo)
                  THEN {Dropped} ELSE Changed(event, pdu)
    BY <1>2 DEF Outcomes
  <2>2. event \in ChanceEvents
    BY DEF Drawn, InjectorInv
  <2>3. CASE ConstantDrops(msgNo)
    BY <2>1, <2>3
  <2>4. CASE ~ConstantDrops(msgNo) /\ event = errorDrop /\ AtRandom(env.drop, program.drop)
    <3>1. Drops(event, msgNo)
      BY <2>4 DEF Drops, errorDrop, Event
    <3> QED
      BY <1>2, <2>1, <2>4, <3>1
  <2>5. CASE ~ConstantDrops(msgNo) /\ event = errorFlipBits /\ AtRandom(env.flip, program.flip)
    <3>1. ~Drops(event, msgNo) /\ event.type = "flip"
      BY <2>5 DEF Drops, errorFlipBits, Event
    <3>2. o \in {Complemented(pdu, k) : k \in DOMAIN pdu}
      BY <2>1, <2>5, <3>1 DEF Changed
    <3> QED
      BY <1>2, <2>5, <3>2
  <2> QED
    BY <2>2, <2>3, <2>4, <2>5 DEF ChanceEvents
<1> QED
  BY <1>1, <1>2

\* The message number goes round with the number of messages sent.
LEMMA NextNumber ==
  ASSUME NEW n \in Nat
  PROVE  /\ ((n % MsgNos) + 1) % MsgNos = (n + 1) % MsgNos
         /\ (n + 1) % MsgNos \in 0 .. (MsgNos - 1)
<1> DEFINE m == n % MsgNos
           d == n \div MsgNos
<1>1. MsgNos \in Nat /\ MsgNos > 0
  BY Limits
<1>2. m \in Nat /\ m < MsgNos /\ d \in Nat /\ n = d * MsgNos + m
  BY <1>1, Division
<1>3. (n + 1) % MsgNos \in 0 .. (MsgNos - 1)
  BY <1>1
<1> HIDE DEF m, d
<1>4. (m + 1) % MsgNos = (n + 1) % MsgNos
  <2>1. d * MsgNos \in Nat /\ (d + 1) * MsgNos = d * MsgNos + MsgNos
    BY <1>1, <1>2
  <2>2. CASE m + 1 < MsgNos
    <3>1. (m + 1) % MsgNos = m + 1
      BY <1>1, <1>2, <2>2
    <3>2. (d * MsgNos + (m + 1)) % MsgNos = m + 1
      BY <1>1, <1>2, <2>2, Remainder
    <3>3. n + 1 = d * MsgNos + (m + 1)
      BY <1>2, <2>1
    <3> QED
      BY <3>1, <3>2, <3>3
  <2>3. CASE m + 1 = MsgNos
    <3>1. (m + 1) % MsgNos = 0
      BY <1>1, <2>3
    <3>2. ((d + 1) * MsgNos + 0) % MsgNos = 0
      BY <1>1, <1>2, Remainder
    <3>3. n + 1 = (d + 1) * MsgNos + 0
      BY <1>1, <1>2, <2>1, <2>3
    <3> QED
      BY <3>1, <3>2, <3>3
  <2> QED
    BY <1>1, <1>2, <2>2, <2>3
<1> QED
  BY <1>3, <1>4 DEF m

\* infoSeqNo counts the message, unless its number was in the list.
LEMMA HistoryCounts ==
  ASSUME InjectorInv, started, sendto_Err
  PROVE  ReportMissesOnlyListed' /\ m_History' \in Nat
<1> DEFINE Counted(n) == ~Listed(n % MsgNos)
           S == {n \in 1 .. sends : Counted(n)}
           T == {n \in 1 .. sends + 1 : Counted(n)}
<1>1. /\ sends \in Nat /\ sends' = sends + 1 /\ env' = env
      /\ m_MsgNo' = (sends + 1) % MsgNos
      /\ m_History' = m_History + Cardinality(Counting(m_MsgNo'))
      /\ m_History = Cardinality(S)
  <2>1. sends \in Nat
    BY DEF InjectorInv, InjectorTypeOK
  <2>2. m_MsgNo' = (sends + 1) % MsgNos
    BY <2>1, NextNumber DEF InjectorInv, sendto_Err
  <2> QED
    BY <2>1, <2>2 DEF InjectorInv, ReportMissesOnlyListed, sendto_Err
<1>2. \A q \in {m_MsgNo'} : Cardinality(Counting(q)) =
         IF Listed(q) THEN 0 ELSE 1
  BY EventsOfAMessage
<1>3. Cardinality(Counting(m_MsgNo')) = IF Counted(sends + 1) THEN 1 ELSE 0
  BY <1>1, <1>2
<1>4. IsFiniteSet(S) /\ Cardinality(S) \in Nat
  <2>1. IsFiniteSet(1 .. sends)
    BY <1>1, FS_Interval
  <2> QED
    BY <2>1, FS_Subset, FS_CardinalityType
<1>5. Cardinality(T) = IF Counted(sends + 1) THEN Cardinality(S) + 1 ELSE Cardinality(S)
  <2>1. sends + 1 \notin S
    BY <1>1
  <2>2. CASE Counted(sends + 1)
    <3>1. T = S \cup {sends + 1}
      BY <1>1, <2>2
    <3> QED
      BY <1>4, <2>1, <2>2, <3>1, FS_AddElement
  <2>3. CASE ~Counted(sends + 1)
    <3>1. T = S
      BY <1>1, <2>3
    <3> QED
      BY <2>3, <3>1
  <2> QED
    BY <2>2, <2>3
<1>6. m_History' = Cardinality(T) /\ m_History' \in Nat
  <2> HIDE DEF S, T, Counted
  <2> QED
    BY <1>1, <1>3, <1>4, <1>5
<1>7. ReportMissesOnlyListed' <=> m_History' = Cardinality(T)
  BY <1>1 DEF ReportMissesOnlyListed, Listed, Lists
<1> QED
  BY <1>6, <1>7

\* One more message keeps every part of the invariant.
LEMMA SendInjector ==
  ASSUME InjectorInv, sendto_Err
  PROVE  InjectorInv'
<1>1. /\ started /\ env' = env /\ program' = program /\ started' = started /\ pdu' = pdu
      /\ settings' = settings /\ sends' = sends + 1 /\ sends < MaxSends
      /\ m_MsgNo' = (m_MsgNo + 1) % MsgNos
  BY DEF sendto_Err
<1>2. /\ m_ErrorRate' = m_ErrorRate /\ m_ErrorCase_Constant' = m_ErrorCase_Constant
      /\ m_ErrorCase_Chance' = m_ErrorCase_Chance
  BY <1>1 DEF settings
<1>3. /\ sends \in Nat /\ pdu \in Seq(Bytes) /\ InjectorTypeOK
      /\ m_MsgNo = sends % MsgNos /\ sends' # 0
  BY <1>1 DEF InjectorInv, InjectorTypeOK
<1>4. m_MsgNo' = sends' % MsgNos /\ m_MsgNo' \in 0 .. (MsgNos - 1)
  BY <1>1, <1>3, NextNumber
<1>5. randNum' \in 0 .. (Draws - 1) /\ wire' \in Outcomes(m_MsgNo', randNum')
  BY DEF sendto_Err
<1> DEFINE drops == AtRandom(env.drop, program.drop)
           flips == AtRandom(env.flip, program.flip)
           listed == Lists(env.drop) /\ m_MsgNo' \in MessageNumbers(env.drop)
           drawn == randNum' <= Rate /\ (drops \/ flips)
<1>6. /\ \A q \in {m_MsgNo'} : ConstantDrops(q) <=> Listed(q)
      /\ \A d \in {randNum'} : Drawn(d) # {} <=> d <= Rate /\ (drops \/ flips)
  BY <1>1, EventsOfAMessage, DrawnWhen
<1>7. \/ wire' = Dropped /\ listed
      \/ wire' = pdu /\ ~listed /\ ~drawn
      \/ wire' = Dropped /\ drawn /\ drops
      \/ /\ \E k \in DOMAIN pdu : wire' = Complemented(pdu, k)
         /\ ~listed /\ drawn /\ flips
  <2>1. \A q \in {m_MsgNo'} : \A d \in {randNum'} : \A o \in {wire'} : o \in Outcomes(q, d) =>
          \/ o = Dropped /\ ConstantDrops(q)
          \/ o = pdu /\ ~ConstantDrops(q) /\ Drawn(d) = {}
          \/ o = Dropped /\ Drawn(d) # {} /\ drops
          \/ /\ \E k \in DOMAIN pdu : o = Complemented(pdu, k)
             /\ ~ConstantDrops(q) /\ Drawn(d) # {} /\ flips
    BY OutcomeCases
  <2>2. \A q \in {m_MsgNo'} : Listed(q) <=> Lists(env.drop) /\ q \in MessageNumbers(env.drop)
    BY DEF Listed
  <2> HIDE DEF drops, flips
  <2>3. \/ wire' = Dropped /\ ConstantDrops(m_MsgNo')
        \/ wire' = pdu /\ ~ConstantDrops(m_MsgNo') /\ Drawn(randNum') = {}
        \/ wire' = Dropped /\ Drawn(randNum') # {} /\ drops
        \/ /\ \E k \in DOMAIN pdu : wire' = Complemented(pdu, k)
           /\ ~ConstantDrops(m_MsgNo') /\ Drawn(randNum') # {} /\ flips
    BY <1>5, <2>1
  <2>4. (ConstantDrops(m_MsgNo') <=> listed) /\ (Drawn(randNum') # {} <=> drawn)
    BY <1>6, <2>2
  <2> HIDE DEF listed, drawn
  <2> QED
    BY <2>3, <2>4
<1> HIDE DEF listed, drawn, drops, flips
<1>8. \A k \in DOMAIN pdu : Complemented(pdu, k) \in Seq(Bytes) /\ Complemented(pdu, k) # pdu
  BY <1>3, ComplementedBytes
<1>9. wire' # Unsent /\ (wire' \in Seq(Bytes) \/ wire' = Dropped)
  BY <1>3, <1>7, <1>8, Fates
<1>10. wire' = Dropped => listed \/ drops
  BY <1>3, <1>7, <1>8, Fates
<1>11. wire' \notin {Dropped, pdu} => flips
  BY <1>7
<1>12. listed => wire' = Dropped
  BY <1>7
<1>18. wire' # pdu <=> listed \/ drawn
  BY <1>3, <1>7, <1>8, Fates
<1>13. InjectorTypeOK'
  <2>1. sends' \in 0 .. MaxSends
    BY <1>1, <1>3, Limits
  <2>2. m_History' \in Nat
    BY <1>1, HistoryCounts
  <2>3. wire' \in {Unsent, Dropped} \/ wire' \in Seq(Bytes)
    BY <1>9
  <2> QED
    BY <1>1, <1>2, <1>3, <1>4, <1>5, <2>1, <2>2, <2>3, Zenon DEF InjectorTypeOK
<1>14. /\ m_ErrorCase_Constant' = ConstantEvents' /\ m_ErrorCase_Chance' \in Seq(ChanceEvents')
       /\ (\/ AsksRandom(env.drop) \/ AsksRandom(env.flip) \/ (started /\ ChanceEvents # {})
             => m_ErrorCase_Chance # <<>>)'
       /\ (RateSet(env.rate) \/ started => m_ErrorRate = Rate)'
       /\ (sends > 0 => started)'
  BY <1>1, <1>2 DEF InjectorInv, ConstantEvents, ChanceEvents, AtRandom, AsksRandom, Lists,
     RateSet, Rate
<1>15. /\ (sends = 0 <=> wire = Unsent)'
       /\ (wire \in {Unsent, Dropped, pdu} \cup {Complemented(pdu, k) : k \in DOMAIN pdu})'
       /\ (Len(pdu) < Word)' /\ SealedPasses'
  <2>1. (sends = 0 <=> wire = Unsent)'
    BY <1>3, <1>9
  <2>2. (wire \in {Unsent, Dropped, pdu} \cup {Complemented(pdu, k) : k \in DOMAIN pdu})'
    BY <1>1, <1>7 DEF Complemented
  <2> QED
    BY <1>1, <2>1, <2>2 DEF InjectorInv, SealedPasses
<1>16. ErrorsAsConfigured' /\ ListedAreDropped'
  <2>1. (Listed(m_MsgNo))' = listed /\ AtRandom(env.drop, program.drop)' = drops
        /\ AtRandom(env.flip, program.flip)' = flips /\ Rate' = Rate
    BY <1>1 DEF listed, drops, flips, Listed, AtRandom, AsksRandom, Lists, Rate, RateSet
  <2>2. (randNum <= Rate /\ (AtRandom(env.drop, program.drop) \/ AtRandom(env.flip, program.flip)))'
          <=> drawn
    BY <2>1 DEF drawn
  <2> QED
    BY <1>1, <1>10, <1>11, <1>12, <1>18, <2>1, <2>2, Zenon
       DEF ErrorsAsConfigured, ListedAreDropped
<1>17. ReportMissesOnlyListed'
  BY <1>1, HistoryCounts
<1> QED
  BY <1>4, <1>13, <1>14, <1>15, <1>16, <1>17 DEF InjectorInv

-----------------------------------------------------------------------------
(* The theorems *)

\* Whatever the environment, the program, the PDU and the draws, InjectorInv holds
\* before and after every call of sendErr_init and sendtoErr.
THEOREM InjectorCorrect == InjectorSpec => []InjectorInv
<1>1. ASSUME InjectorInv, [InjectorNext]_injectorVars
      PROVE  InjectorInv'
  <2>1. CASE sendErr_init
    BY <1>1, <2>1, StartInjector
  <2>2. CASE sendto_Err
    BY <1>1, <2>2, SendInjector
  <2>3. CASE UNCHANGED injectorVars
    <3>1. /\ env' = env /\ program' = program /\ started' = started
          /\ m_ErrorRate' = m_ErrorRate /\ m_ErrorCase_Constant' = m_ErrorCase_Constant
          /\ m_ErrorCase_Chance' = m_ErrorCase_Chance /\ m_MsgNo' = m_MsgNo
          /\ m_History' = m_History /\ sends' = sends /\ pdu' = pdu /\ wire' = wire
          /\ randNum' = randNum
      BY <2>3 DEF injectorVars, settings
    <3> QED
      BY <1>1, <3>1 DEF InjectorInv, InjectorTypeOK, ConstantEvents, ChanceEvents, AtRandom,
         AsksRandom, Lists, Listed, RateSet, Rate, Complemented, SealedPasses,
         ErrorsAsConfigured, ListedAreDropped, ReportMissesOnlyListed
  <2> QED
    BY <1>1, <2>1, <2>2, <2>3 DEF InjectorNext
<1> QED
  BY <1>1, InitInjector, PTL DEF InjectorSpec

\* Every variable keeps its type: the message number above all stays in 32 bits.
THEOREM InjectorTypes == InjectorSpec => []InjectorTypeOK
<1>1. InjectorInv => InjectorTypeOK
  BY DEF InjectorInv
<1> QED
  BY <1>1, InjectorCorrect, PTL

\* The PDU in the caller's buffer passes a receiver's test for ever, so a resend
\* from the window is never spoilt by an earlier send.
THEOREM ResendsStaySealed == InjectorSpec => []SealedPasses
<1>1. InjectorInv => SealedPasses
  BY DEF InjectorInv
<1> QED
  BY <1>1, InjectorCorrect, PTL

\* Of the messages that are sent, the checksum tells exactly those with a byte
\* flipped: rcopy and the children need not fear one that looks whole.
THEOREM FlipsAreSeen == InjectorSpec => []FlipIsSeen
<1>1. ASSUME InjectorInv PROVE FlipIsSeen
  <2>1. Short(pdu) /\ SealedPasses
    BY <1>1 DEF InjectorInv, InjectorTypeOK, Short
  <2>2. SUFFICES ASSUME wire \notin {Unsent, Dropped}, NEW next \in Bytes
                 PROVE  in_cksum(Append(wire, next), Len(wire)) = 0 <=> wire = pdu
    BY DEF FlipIsSeen
  <2>3. CASE wire = pdu
    BY <2>1, <2>3 DEF SealedPasses
  <2>4. ASSUME NEW k \in DOMAIN pdu, wire = Complemented(pdu, k)
        PROVE  in_cksum(Append(wire, next), Len(wire)) # 0 /\ wire # pdu
    <3> DEFINE v == (Byte - 1) - pdu[k]
    <3>1. v \in Bytes /\ v # pdu[k] /\ wire = [pdu EXCEPT ![k] = v]
      BY <2>1, <2>4, ComplementedBytes DEF Short
    <3> HIDE DEF v
    <3>2. in_cksum(pdu, Len(pdu)) = 0
      BY <2>1, <2>2, NextByteUnread DEF SealedPasses, Short
    <3>3. in_cksum(Append(wire, next), Len(pdu)) # 0 /\ Len(wire) = Len(pdu)
      <4>1. \A n \in Bytes : in_cksum(Append([pdu EXCEPT ![k] = v], n), Len(pdu)) # 0
        BY <2>1, <3>1, <3>2, OneByteIsSeen
      <4>2. Len([pdu EXCEPT ![k] = v]) = Len(pdu)
        BY <2>1, <3>1, SumOfChanged DEF Short
      <4> QED
        BY <3>1, <4>1, <4>2, Zenon
    <3>4. [pdu EXCEPT ![k] = v][k] = v
      BY <2>4, Zenon
    <3> QED
      BY <3>1, <3>3, <3>4, Zenon
  <2> QED
    BY <1>1, <2>2, <2>3, <2>4 DEF InjectorInv
<1> QED
  BY <1>1, InjectorCorrect, PTL

\* Something happens to a message exactly when it is listed, or when the draw is
\* not above the rate and there is something to happen at random; what that is, and
\* the rate, is what the environment says or, where it is silent, the program.
THEOREM ErrorsAreConfigured == InjectorSpec => []ErrorsAsConfigured
<1>1. InjectorInv => ErrorsAsConfigured
  BY DEF InjectorInv
<1> QED
  BY <1>1, InjectorCorrect, PTL

\* A message whose number is in CPE464_OVERRIDE_ERR_DROP is dropped, whatever else
\* is drawn for it.
THEOREM ListedAlwaysDropped == InjectorSpec => []ListedAreDropped
<1>1. InjectorInv => ListedAreDropped
  BY DEF InjectorInv
<1> QED
  BY <1>1, InjectorCorrect, PTL

\* The report at the end counts all the messages but those in the list.
THEOREM ReportIsRight == InjectorSpec => []ReportMissesOnlyListed
<1>1. InjectorInv => ReportMissesOnlyListed
  BY DEF InjectorInv
<1> QED
  BY <1>1, InjectorCorrect, PTL

=============================================================================
