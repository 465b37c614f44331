------------------------------ MODULE MCInjector ------------------------------
EXTENDS Injector

\* One byte (an even length) and two (an odd one).
MCPayloads == {<<b>> : b \in Bytes} \cup {<<b, Byte - 1 - b>> : b \in Bytes}

\* Not defined, "", "-1", "2", "1,5" (5 is 1 when MsgNos is 4), "1,x,2" and "x,2".
MCLists == {Undefined, <<>>, <<-1>>, <<2>>, <<1, 5>>, <<1, NoNumber, 2>>, <<NoNumber, 2>>}

MCEnvironments == [rate : {Undefined, NoNumber, 0, 2}, drop : MCLists, flip : MCLists]
MCPrograms == [rate : {-1, 0}, drop : BOOLEAN, flip : BOOLEAN]

AllErrors == [rate |-> 2, drop |-> <<>>, flip |-> <<-1>>]
Quiet == [rate |-> 0, drop |-> FALSE, flip |-> FALSE]

\* Every PDU with an environment that asks for every error, and every environment
\* and program with one PDU of each length.
MCInit ==
  \/ env = AllErrors /\ program = Quiet /\ Loaded /\ Kept
  \/ /\ Configured /\ Loaded
     /\ \E payload \in {<<1>>, <<1, 2>>} : pdu = Sealed(<<0, 0, 1, 3>>, 3, payload)

MCSpec == MCInit /\ [][InjectorNext]_injectorVars
=============================================================================
