--------------------------- MODULE MCPointsLedger ---------------------------
(* PointsLedger for TLC. Users, phones, codes and requests are interchangeable. *)
EXTENDS PointsLedger, TLC

CONSTANTS u1, u2, u3, p1, p2, c1, r1, r2, r3, r4

ThreeUsers   == {u1, u2, u3}
TwoPhones    == {p1, p2}
OneCode      == {c1}
FourRequests == {r1, r2, r3, r4}

Symmetry == UNION {Permutations(S) : S \in {Users, Phones, Codes, Requests}}
=============================================================================
