-------------------------------- MODULE MCChat --------------------------------
(* Instances of Chat for TLC: alice and bob, and a second spelling of bob's   *)
(* address.                                                                   *)
EXTENDS Chat, TLC

CONSTANTS alice, bob, bobUpper, a1, b1, b2

MCResps      == 1 .. MaxMsgs
MCEmail      == [a \in Addrs |-> IF a = bobUpper THEN bob ELSE a]
MCOwnerTwo   == [s \in {a1, b1} |-> IF s = a1 THEN alice ELSE bob]
MCOwnerBoth  == [s \in {b1, b2} |-> bob]
MCOwnerThree == [s \in {a1, b1, b2} |-> IF s = a1 THEN alice ELSE bob]
\* bob's two streams are alike: Owner is the only constant that names them.
MCSymmetry == Permutations({b1, b2})
===============================================================================
