------------------------------ MODULE MCRateLimit ------------------------------
(* Instances of RateLimit for TLC.  A tick is half a minute.                  *)
EXTENDS RateLimit

CONSTANTS bob, ip

(* One request names an account, one comes without an e-mail address.        *)
MCMixed == {[email |-> bob, peer |-> NoPeer],
            [email |-> NoEmail, peer |-> [ip |-> ip, port |-> 1]]}

(* Two connections of one machine.                                           *)
MCOneMachine == {[email |-> NoEmail, peer |-> [ip |-> ip, port |-> p]] : p \in 1 .. 2}
================================================================================
