---------------------------- MODULE MCGroupQRCode -----------------------------
EXTENDS GroupQRCode, TLC

CONSTANTS a1, a2, v1, n1, n2, n3

MCAdmins   == {a1, a2}
MCVisitors == {v1}
MCNames    == {n1, n2, n3}

Symmetry == Permutations(MCAdmins) \union Permutations(MCNames)
===============================================================================
