----------------------------- MODULE MCMessageStore -----------------------------
(* Instances of MessageStore for TLC: ann talks with bob, whose address has   *)
(* two spellings, with cat, and with herself.                                 *)
EXTENDS MessageStore

CONSTANTS ann, bob, Bob, cat

MCAddrs == {ann, bob, Bob, cat}
MCEmail == [a \in MCAddrs |-> IF a = Bob THEN bob ELSE a]
MCTalks == {<<ann, Bob>>, <<bob, ann>>, <<cat, ann>>, <<ann, ann>>}
MCPair  == {<<ann, bob>>, <<bob, ann>>}
MCLimits == {-1, 0, 1}

MCSymmetry == Permutations(Messages)
================================================================================
