------------------------------- MODULE MCAccounts -------------------------------
(* Instances of Accounts for TLC: one user with two spellings of her address, *)
(* an old client, and environments that rotate two keys.                      *)
EXTENDS Accounts, TLC

CONSTANTS ann, Ann, bob, Bob, old, p1, p2, k1, k2, sa, sb

MCAddrs  == {ann, Ann, bob, Bob}
MCEmail  == [a \in MCAddrs |-> IF a \in {ann, Ann} THEN ann ELSE bob]

MCHolders == Calls \cup {old}

\* The old client registered Bob, and was given the address as he spelled it.
MCOldToken == [h \in {old} |-> [kid |-> NoKid, key |-> sa, user |-> old,
                                email |-> Bob, left |-> Duration]]
MCOldPassword == [h \in {old} |-> p1]

Keys(f, g) == [k \in Kids |-> IF k = k1 THEN f ELSE g]

Env(ks, secret, kid) == [jwtKeys |-> ks, jwtSecret |-> secret, activeKid |-> kid]

\* The secret of an earlier version, then as key "1" next to a new one, with one
\* of the two active by chance, and last the new one alone, under another name
\* than the active one.
MCRotation ==
  {Env(NoKeys, sa, NoKid), Env(Keys(sa, sb), NoSecret, NoKid),
   Env(Keys(NoSecret, sb), NoSecret, k1)}

MCUnnamed == {Env(Keys(sa, sb), NoSecret, NoKid)}

MCSymmetry == Permutations(Calls)
================================================================================
