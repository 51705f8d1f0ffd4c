------------------------------- MODULE MCProcess -------------------------------
(* Instances of Process for TLC: three environments that main refuses at its  *)
(* start, each at another statement, and one that serves, with TLS.           *)
EXTENDS Process

MCEnv(keys, certs, requireTLS) ==
  [uri |-> TRUE, secret |-> TRUE, keys |-> keys, certs |-> certs,
   requireTLS |-> requireTLS]

MCEnvs == {MCEnv("malformed", TRUE, FALSE), MCEnv("pairs", TRUE, TRUE),
           MCEnv("unset", FALSE, TRUE),
           [MCEnv("unset", FALSE, FALSE) EXCEPT !.secret = FALSE]}
===============================================================================
