-------------------------- MODULE MCActivityClaim --------------------------
(* ActivityClaim for TLC. Publishers are told apart by the order of their rows,
   so users are symmetric only where no row exists at the start.             *)
EXTENDS ActivityClaimRefinement, TLC

CONSTANTS u1, u2, u3, s1, s2

TwoUsers   == {u1, u2}
ThreeUsers == {u1, u2, u3}
OneSlot    == {s1}
TwoSlots   == {s1, s2}

NoRows     == {<<>>}
OneRow     == {<<u1>>}
TwoRows    == {<<u1, u2>>}
ThreeRows  == {<<u1, u2, u3>>}

SlotSymmetry == Permutations(Slots)
=============================================================================
