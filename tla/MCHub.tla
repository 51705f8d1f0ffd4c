--------------------------------- MODULE MCHub ---------------------------------
(* An instance of Hub for TLC: alice on one device, bob on two.              *)
EXTENDS Hub, TLC

CONSTANTS alice, bob, a1, b1, b2, r1, r2

MCOwnerThree == [s \in {a1, b1, b2} |-> IF s = a1 THEN alice ELSE bob]

\* The devices of bob are alike, and so are the responses.
MCSymmetry == {f @@ g : f \in Permutations({b1, b2}), g \in Permutations({r1, r2})}
================================================================================
