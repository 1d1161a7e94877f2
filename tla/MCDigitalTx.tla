---------------------------- MODULE MCDigitalTx ----------------------------
EXTENDS DigitalSafety, TLC

CONSTANTS o1, o2

MCOperators == {o1, o2}
Symmetry    == Permutations(MCOperators)
=============================================================================
