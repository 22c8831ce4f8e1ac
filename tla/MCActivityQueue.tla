-------------------------- MODULE MCActivityQueue --------------------------
(* ActivityQueue for TLC: three publishers. The identities of the publishers
   do not matter, only the order they joined in, so they are symmetric.      *)
EXTENDS ActivityQueue, TLC

CONSTANTS u1, u2, u3

MCUsers  == {u1, u2, u3}
Symmetry == Permutations(MCUsers)
=============================================================================
