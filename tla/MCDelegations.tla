---------------------------- MODULE MCDelegations ----------------------------
EXTENDS Delegations, TLC

MCSymmetry == Permutations(Child) \cup Permutations(Call)
=============================================================================
