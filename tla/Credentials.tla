------------------------------ MODULE Credentials ------------------------------
(*****************************************************************************)
(* What Register, Login and the stream interceptor promise of the accounts,  *)
(* whatever calls, crashes and key rotations come in between: an account is  *)
(* made once and keeps its password, one caller is told that it made it,     *)
(* every answer about a password is true when it is given and never taken    *)
(* back, and a stream is opened in the name of an account only after its     *)
(* password was shown.                                                       *)
(*****************************************************************************)

CONSTANTS
  Calls,    \* the RPCs
  Veterans  \* the names for which an earlier version has issued a token

VARIABLES
  accounts, \* the accounts: a name, which is a normalized address, and a password
  told      \* what the caller of each RPC was told of an account

credVars == <<accounts, told>>

\* Errors promise nothing.
Nothing == [kind |-> "nothing"]

Taken(n) == \E x \in accounts : x.name = n

Holds(n, p) == [name |-> n, password |-> p] \in accounts

SomeoneTold(kinds, n) == \E c \in Calls : told[c].kind \in kinds /\ told[c].name = n

CredInit ==
  /\ \A x, y \in accounts : x.name = y.name => x = y
  /\ Veterans \subseteq {x.name : x \in accounts}
  /\ told = [c \in Calls |-> Nothing]

\* An account is made; its maker may never hear of it.
Create ==
  /\ \E x \in accounts' : ~Taken(x.name) /\ accounts' = accounts \cup {x}
  /\ UNCHANGED told

\* One caller is told that it registered a name, and this is its password.
Registered(x) ==
  /\ x.kind = "registered"
  /\ Holds(x.name, x.password)
  /\ ~SomeoneTold({"registered"}, x.name)

LoggedIn(x) == x.kind = "loggedIn" /\ Holds(x.name, x.password)

\* There is such an account, and its password is another one.
Denied(x) == x.kind = "denied" /\ Taken(x.name) /\ ~Holds(x.name, x.password)

\* A stream: somebody has shown the password of the name, here or to an earlier
\* version.
Opened(x) ==
  /\ x.kind = "opened"
  /\ x.name \in Veterans \/ SomeoneTold({"registered", "loggedIn"}, x.name)

\* A call is answered once.
Tell(c, x) ==
  /\ told[c] = Nothing
  /\ Registered(x) \/ LoggedIn(x) \/ Denied(x) \/ Opened(x)
  /\ told' = [told EXCEPT ![c] = x]
  /\ UNCHANGED accounts

CredNext == Create \/ \E c \in Calls : Tell(c, told'[c])

CredSpec == CredInit /\ [][CredNext]_credVars
================================================================================
