--------------------------- MODULE MCSelectiveReject ---------------------------
EXTENDS SelectiveReject, TLC

MCBlocks == {"b1", "b2", "b3", "b4"}
TwoBlocks == <<"b1", "b2">>
ThreeBlocks == <<"b1", "b2", "b3">>
FourBlocks == <<"b1", "b2", "b3", "b4">>
ChildSymmetry == Permutations(Children)
=============================================================================
