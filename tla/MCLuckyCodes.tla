---------------------------- MODULE MCLuckyCodes ----------------------------
(* LuckyCodes for TLC.                                                        *)
EXTENDS LuckyCodesRefinement

CONSTANTS u1, u2, u3, s1, s2

TwoUsers   == {u1, u2}
ThreeUsers == {u1, u2, u3}
OneSlot    == {s1}
TwoSlots   == {s1, s2}
=============================================================================
