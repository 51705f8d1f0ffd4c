---------------------------------- MODULE Auth ----------------------------------
(*****************************************************************************)
(* JWTManager (internal/auth/jwt.go) and the start of the process that       *)
(* configures it (cmd/api/main.go): signing keys, the active key, tokens and *)
(* their expiry, over restarts with other keys.                              *)
(*                                                                           *)
(* A token is what its holder can show: the kid in its header, the secret    *)
(* its signature was made with, its claims and the ticks until it expires.   *)
(* Signatures are those of HMAC: the check succeeds with the same secret.    *)
(* Operators marked "Fault" are as in Hub.                                   *)
(*****************************************************************************)
EXTENDS Naturals

CONSTANTS
  Addrs,     \* strings used as e-mail addresses
  Email,     \* normalize.Email, on Addrs
  Holders,   \* who holds a token: the calls that return one, and old clients
  Old,       \* the old clients, whose tokens an earlier version issued
  OldToken,  \* and these tokens
  NoToken,   \* "no token"
  Kids,      \* key ids
  One,       \* the kid "1" of NewJWTManager
  NoKid,     \* JWT_ACTIVE_KID is not set; a token without kid
  Secrets,   \* signing secrets
  NoSecret,  \* no secret under this kid; JWT_SECRET is not set
  Configs,   \* the environments the process is started in
  NoConfig,  \* it was not started yet
  Duration   \* ticks a token is valid

\* No kid has a secret: JWT_KEYS is not set.  (One that is set and has no entry,
\* as ",", is left out.)
NoKeys == [k \in Kids |-> NoSecret]

Config == [jwtKeys : [Kids -> Secrets \cup {NoSecret}],
           jwtSecret : Secrets \cup {NoSecret},
           activeKid : Kids \cup {NoKid}]

Token == [kid : Kids \cup {NoKid}, key : Secrets, user : Holders, email : Addrs,
          left : 0 .. Duration]

\* main.go:34: without a secret and without keys the process exits.
ASSUME AuthAssumption ==
  /\ Email \in [Addrs -> Addrs]
  /\ \A a \in Addrs : Email[Email[a]] = Email[a]
  /\ One \in Kids
  /\ NoKid \notin Kids
  /\ NoSecret \notin Secrets
  /\ Duration \in Nat
  /\ Configs \subseteq {c \in Config : c.jwtKeys # NoKeys \/ c.jwtSecret # NoSecret}
  /\ NoConfig \notin Configs
  /\ Old \subseteq Holders
  /\ OldToken \in [Old -> {t \in Token : t.kid = NoKid}]
  /\ NoToken \notin Token

VARIABLES
  up,      \* the process serves
  config,  \* its environment, or that of the last process
  keys,    \* m.keys: kid -> secret, or NoSecret
  active,  \* m.active
  token    \* the token of each holder, or NoToken

authVars == <<up, config, keys, active, token>>

AuthTypeOK ==
  /\ up \in BOOLEAN
  /\ config \in Configs \cup {NoConfig}
  /\ up => config # NoConfig
  /\ keys \in [Kids -> Secrets \cup {NoSecret}]
  /\ active \in Kids \cup {NoKid}
  /\ token \in [Holders -> Token \cup {NoToken}]

-------------------------------------------------------------------------------
(* Start and end of the process                                               *)

\* NewJWTManager
SingleKey(secret) ==
  /\ keys' = [NoKeys EXCEPT ![One] = secret]
  /\ active' = One

\* NewJWTManagerFromKeys: without an active kid, the first one that the range
\* over the map, whose order is random, comes to.  A kid without a key is taken.
FromKeys(keyMap, activeKid) ==
  /\ keys' = keyMap
  /\ \/ activeKid # NoKid /\ active' = activeKid
     \/ activeKid = NoKid /\ \E k \in Kids : keyMap[k] # NoSecret /\ active' = k

\* main: JWT_KEYS wins over JWT_SECRET.
NewManager(c) ==
  \/ c.jwtKeys # NoKeys /\ FromKeys(c.jwtKeys, c.activeKid)
  \/ c.jwtKeys = NoKeys /\ SingleKey(c.jwtSecret)

\* The process is started with environment c.
Boot(c) ==
  /\ ~up
  /\ up' = TRUE
  /\ config' = c
  /\ NewManager(c)
  /\ UNCHANGED token

-------------------------------------------------------------------------------
(* Tokens                                                                     *)

\* GenerateToken fails when there is no secret under the active kid.
CanSign == active \in Kids /\ keys[active] # NoSecret

\* GenerateToken(user, email)
NewToken(user, email) ==
  [kid |-> active, key |-> keys[active], user |-> user, email |-> Email[email],
   left |-> Duration]

\* m.keys[m.active]
ActiveSecret == IF active \in Kids THEN keys[active] ELSE NoSecret

\* Fault: the kid of the token is ignored.
SecretForActive(t) == ActiveSecret

\* The key function of VerifyToken: the secret under the kid of the token, the
\* active one for a token without kid.
SecretFor(t) == IF t.kid # NoKid THEN keys[t.kid] ELSE ActiveSecret

\* VerifyToken returns no error.
Verifies(t) ==
  /\ t # NoToken
  /\ SecretFor(t) = t.key
  /\ t.left > 0

\* Fault: the e-mail of an old token is taken as it is.
RawClaims(t) == [user |-> t.user, email |-> t.email]

\* The claims VerifyToken returns.
ClaimsOf(t) == [user |-> t.user, email |-> Email[t.email]]

\* Time passes: tokens get closer to their exp.
Older(t) == IF t = NoToken \/ t.left = 0 THEN t ELSE [t EXCEPT !.left = t.left - 1]

AgeTokens == token' = [h \in Holders |-> Older(token[h])]

-------------------------------------------------------------------------------

\* The secrets that an environment configures, by kid.
KeyMap(c) ==
  IF c.jwtKeys # NoKeys THEN c.jwtKeys ELSE [NoKeys EXCEPT ![One] = c.jwtSecret]

\* Environment d has every key of c under the same kid, and may have more.
Widens(c, d) ==
  \A k \in Kids : KeyMap(c)[k] # NoSecret => KeyMap(d)[k] = KeyMap(c)[k]

(* Key rotation (main.go:62-64, TestJWTManager_Rotation): a process started  *)
(* in an environment that keeps the keys of the last process under their     *)
(* kids accepts every token that one accepted, whichever key is active now,  *)
(* and also where JWT_SECRET became the key "1" of JWT_KEYS.  A token        *)
(* without kid, as earlier versions issued them, is checked with the active  *)
(* secret only (jwt.go:114-117), so it lasts while that stays the same.      *)
RotationKeepsTokens ==
  [][~up /\ up' /\ config # NoConfig /\ Widens(config, config') =>
       \A h \in Holders :
         Verifies(token[h]) /\ (token[h].kid # NoKid \/ ActiveSecret' = ActiveSecret)
           => Verifies(token[h])']_authVars

(* "if activeKid is empty and we have keys, pick the first one               *)
(* deterministically" (jwt.go:44): the same environment gives the same       *)
(* active key.                                                               *)
SameConfigSameKid == [][config' = config => active' = active]_authVars
================================================================================
