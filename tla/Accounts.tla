-------------------------------- MODULE Accounts --------------------------------
(*****************************************************************************)
(* Register and Login (cmd/api/handlers.go) over UsersStore                  *)
(* (internal/data/users.go), the tokens they return (module Auth), and the   *)
(* streams that are opened with these tokens (cmd/api/interceptors.go).      *)
(*                                                                           *)
(* Calls run concurrently, a database call at a time; the process may be     *)
(* killed between any two steps and started again with other keys.  A call   *)
(* is made once and its answer stays in its record.  The users collection    *)
(* has a unique index on email (internal/db/db.go:81-98), which is the only  *)
(* thing that orders two registrations.                                      *)
(*****************************************************************************)
EXTENDS Auth

CONSTANTS
  Calls,        \* the RPCs
  Passwords,    \* the passwords in requests
  TooLong,      \* those bcrypt refuses
  OldPassword   \* the passwords of the old clients' accounts

ASSUME AccountsAssumption ==
  /\ Holders = Calls \cup Old
  /\ Calls \cap Old = {}
  /\ TooLong \subseteq Passwords
  /\ OldPassword \in [Old -> Passwords]
  /\ \A h \in Old : OldToken[h].user = h
  /\ \A g, h \in Old : Email[OldToken[g].email] = Email[OldToken[h].email] => g = h

VARIABLES
  users,  \* the users collection
  rpc     \* the calls

accountsVars == <<authVars, users, rpc>>

\* The _id of a document is the call that inserted it; the hash of a password
\* only says whether another one is the same.
User == [id : Holders, email : Addrs, password : Passwords]

Outcomes == {"none", "OK", "Internal", "NotFound", "PermissionDenied", "lost"}

\* A Register: where it is, its request, its account and its answer.
RegisterCall ==
  [pc : {"create", "registered", "done"}, method : {"Register"}, email : Addrs,
   password : Passwords, user : Holders, outcome : Outcomes]

(* A Login: user is the account it found.  History: known, an account for    *)
(* the address existed when it began, and dbError, its database call failed. *)
LoginCall ==
  [pc : {"find", "check", "checked", "done"}, method : {"Login"}, email : Addrs,
   password : Passwords, user : Holders, outcome : Outcomes, known : BOOLEAN,
   dbError : BOOLEAN]

\* A stream, and the claims in its context.
StreamCall ==
  [pc : {"stream", "done"}, method : {"Stream"}, user : Holders, email : Addrs,
   outcome : Outcomes]

New      == [pc |-> "new"]
Rejected == [pc |-> "rejected"]  \* answered with Unauthenticated

AccountsTypeOK ==
  /\ AuthTypeOK
  /\ users \subseteq User
  /\ rpc \in [Calls -> {New, Rejected} \cup RegisterCall \cup LoginCall \cup StreamCall]

\* The accounts of the old clients.  Their tokens have the address as it was
\* stored then; that the documents are normalized by now is an assumption.
OldUsers ==
  {[id |-> h, email |-> Email[OldToken[h].email], password |-> OldPassword[h]] :
     h \in Old}

AccountsInit ==
  /\ up = FALSE
  /\ config = NoConfig
  /\ keys = NoKeys
  /\ active = NoKid
  /\ token = [h \in Holders |-> IF h \in Old THEN OldToken[h] ELSE NoToken]
  /\ users = OldUsers
  /\ rpc = [c \in Calls |-> New]

-------------------------------------------------------------------------------

At(c, where) == up /\ rpc[c].pc = where

Goto(c, where) == rpc' = [rpc EXCEPT ![c] = [rpc[c] EXCEPT !.pc = where]]

Answer(c, code) ==
  rpc' = [rpc EXCEPT ![c] = [rpc[c] EXCEPT !.pc = "done", !.outcome = code]]

HasAccount(a) == \E u \in users : u.email = Email[a]

-------------------------------------------------------------------------------
(* Register                                                                   *)

\* auth.HashPassword: bcrypt refuses long passwords.
Hashes(p) == p \notin TooLong

\* The request arrives; what cannot be hashed is answered at once.
RegisterBegin(c, a, p) ==
  /\ At(c, "new")
  /\ rpc' = [rpc EXCEPT ![c] =
       [pc |-> IF Hashes(p) THEN "create" ELSE "done",
        method |-> "Register", email |-> a, password |-> p, user |-> c,
        outcome |-> IF Hashes(p) THEN "none" ELSE "Internal"]]
  /\ UNCHANGED <<authVars, users>>

\* Fault: the address is stored as it came.
NewUserRaw(c) == [id |-> c, email |-> rpc[c].email, password |-> rpc[c].password]

\* The document CreateUser builds for the request of c.
NewUser(c) ==
  [id |-> c, email |-> Email[rpc[c].email], password |-> rpc[c].password]

\* Fault: an upsert by address.
UpsertUser(c) ==
  users' = {u \in users : u.email # Email[rpc[c].email]} \cup {NewUser(c)}

\* InsertOne, with the unique index.
InsertUser(c) ==
  /\ ~HasAccount(rpc[c].email)
  /\ users' = users \cup {NewUser(c)}

\* s.users.CreateUser: a duplicate key, another error, or an error although the
\* document was inserted all give Internal.
CreateUser(c) ==
  /\ At(c, "create")
  /\ \/ InsertUser(c) /\ Goto(c, "registered")
     \/ InsertUser(c) /\ Answer(c, "Internal")
     \/ UNCHANGED users /\ Answer(c, "Internal")
  /\ UNCHANGED authVars

\* The end of both handlers: s.auth.GenerateToken and the response.
ReturnToken(c) ==
  \/ /\ CanSign
     /\ token' = [token EXCEPT ![c] = NewToken(rpc[c].user, rpc[c].email)]
     /\ Answer(c, "OK")
  \/ /\ ~CanSign
     /\ Answer(c, "Internal")
     /\ UNCHANGED token

\* GenerateToken for the user that was created.
RegisterReturn(c) ==
  /\ At(c, "registered")
  /\ ReturnToken(c)
  /\ UNCHANGED <<up, config, keys, active, users>>

-------------------------------------------------------------------------------
(* Login                                                                      *)

LoginBegin(c, a, p) ==
  /\ At(c, "new")
  /\ rpc' = [rpc EXCEPT ![c] =
       [pc |-> "find", method |-> "Login", email |-> a, password |-> p,
        user |-> c, outcome |-> "none", known |-> HasAccount(a),
        dbError |-> FALSE]]
  /\ UNCHANGED <<authVars, users>>

\* Fault: the address is looked up as it came.
FindRaw(c, u) == u \in users /\ u.email = rpc[c].email

\* The filter of GetUserByEmail.
Finds(c, u) == u \in users /\ u.email = Email[rpc[c].email]

\* s.users.GetUserByEmail: no document and any other error give NotFound.
FindUser(c) ==
  /\ At(c, "find")
  /\ \/ \E u \in users :
          /\ Finds(c, u)
          /\ rpc' = [rpc EXCEPT ![c] =
               [rpc[c] EXCEPT !.pc = "check", !.user = u.id]]
     \/ /\ ~\E u \in users : Finds(c, u)
        /\ Answer(c, "NotFound")
     \/ rpc' = [rpc EXCEPT ![c] =
          [rpc[c] EXCEPT !.pc = "done", !.outcome = "NotFound", !.dbError = TRUE]]
  /\ UNCHANGED <<authVars, users>>

\* Fault: the verdict of bcrypt is not looked at.
MatchesAll(c) == TRUE

\* bcrypt compares the password with the hash of the document found.
Matches(c) == \E u \in users : u.id = rpc[c].user /\ u.password = rpc[c].password

\* auth.CheckPassword
CheckPassword(c) ==
  /\ At(c, "check")
  /\ \/ Matches(c) /\ Goto(c, "checked")
     \/ ~Matches(c) /\ Answer(c, "PermissionDenied")
  /\ UNCHANGED <<authVars, users>>

LoginReturn(c) ==
  /\ At(c, "checked")
  /\ ReturnToken(c)
  /\ UNCHANGED <<up, config, keys, active, users>>

-------------------------------------------------------------------------------
(* Streams: authStreamInterceptor                                             *)

\* A stream is opened with the token of h; the handler gets the claims for as
\* long as the stream is open.
OpenStream(c, h) ==
  /\ At(c, "new")
  /\ Verifies(token[h])
  /\ LET claims == ClaimsOf(token[h])
     IN  rpc' = [rpc EXCEPT ![c] =
           [pc |-> "stream", method |-> "Stream", user |-> claims.user,
            email |-> claims.email, outcome |-> "none"]]
  /\ UNCHANGED <<authVars, users>>

\* No metadata, no token, or one that is not accepted.
RejectStream(c) ==
  /\ At(c, "new")
  /\ rpc' = [rpc EXCEPT ![c] = Rejected]
  /\ UNCHANGED <<authVars, users>>

CloseStream(c) ==
  /\ At(c, "stream")
  /\ Answer(c, "OK")
  /\ UNCHANGED <<authVars, users>>

-------------------------------------------------------------------------------
(* The process                                                                *)

Start(e) == Boot(e) /\ UNCHANGED <<users, rpc>>

\* The process dies; the calls in progress get no answer.
Kill ==
  /\ up
  /\ up' = FALSE
  /\ rpc' = [c \in Calls |->
       IF rpc[c].pc \in {"new", "done", "rejected"} THEN rpc[c]
       ELSE [rpc[c] EXCEPT !.pc = "done", !.outcome = "lost"]]
  /\ UNCHANGED <<config, keys, active, token, users>>

Tick == AgeTokens /\ UNCHANGED <<up, config, keys, active, users, rpc>>

AccountsNext ==
  \/ \E c \in Calls, a \in Addrs, p \in Passwords :
       RegisterBegin(c, a, p) \/ LoginBegin(c, a, p)
  \/ \E c \in Calls :
       \/ CreateUser(c) \/ RegisterReturn(c)
       \/ FindUser(c) \/ CheckPassword(c) \/ LoginReturn(c)
       \/ RejectStream(c) \/ CloseStream(c)
       \/ \E h \in Holders : OpenStream(c, h)
  \/ \E e \in Configs : Start(e)
  \/ Kill
  \/ Tick

AccountsSpec == AccountsInit /\ [][AccountsNext]_accountsVars

-------------------------------------------------------------------------------
(* Properties                                                                 *)

Answered(c, method, code) ==
  rpc[c].pc = "done" /\ rpc[c].method = method /\ rpc[c].outcome = code

\* The process works with the keys of its environment.
KeysOfConfig ==
  config # NoConfig =>
    /\ keys = KeyMap(config)
    /\ config.jwtKeys = NoKeys => active = One

\* The unique index: an address has one account.
UniqueAccounts ==
  \A u, v \in users : u.email = v.email \/ u.id = v.id => u = v

\* Every token names an account and its address.
TokensOfAccounts ==
  \A h \in Holders : token[h] # NoToken =>
    \E u \in users : u.id = token[h].user /\ u.email = Email[token[h].email]

\* A call that has not inserted its document has none.
NoEarlyAccount(c) == rpc[c].pc \in {"new", "create"} => \A u \in users : u.id # c

\* Register returns a token for a document that is there, as it was inserted.
RegisterStored(c) ==
  /\ rpc[c].pc \in {"create", "registered"} => rpc[c].user = c
  /\ rpc[c].pc = "registered" \/ Answered(c, "Register", "OK") =>
       NewUser(c) \in users

\* Login goes on with the document of the address, and looks at its password.
LoginOfAccount(c) ==
  /\ rpc[c].pc \in {"check", "checked"} \/ Answered(c, "Login", "OK")
       \/ Answered(c, "Login", "PermissionDenied") =>
       \E u \in users : u.id = rpc[c].user /\ Finds(c, u)
  /\ rpc[c].pc = "checked" \/ Answered(c, "Login", "OK") => Matches(c)
  /\ Answered(c, "Login", "PermissionDenied") => ~Matches(c)
  /\ Answered(c, "Login", "OK") => token[c] # NoToken /\ token[c].user = rpc[c].user

\* While the database works, Login finds an account that was there.
LoginFinds(c) ==
  /\ rpc[c].pc = "find" /\ rpc[c].known => HasAccount(rpc[c].email)
  /\ Answered(c, "Login", "NotFound") /\ ~rpc[c].dbError => ~rpc[c].known

\* The claims of an open stream are those of an account.
StreamOfAccount(c) ==
  rpc[c].pc = "stream" =>
    \E u \in users : u.id = rpc[c].user /\ u.email = rpc[c].email

CallInv(c) ==
  /\ NoEarlyAccount(c)
  /\ RegisterStored(c)
  /\ LoginOfAccount(c)
  /\ LoginFinds(c)
  /\ StreamOfAccount(c)

\* The inductive invariant: what the answers given and the tokens issued say of
\* the accounts, whatever other calls, crashes and rotations come in between.
AccountsInv ==
  /\ AccountsTypeOK
  /\ KeysOfConfig
  /\ UniqueAccounts
  /\ TokensOfAccounts
  /\ \A c \in Calls : CallInv(c)

(* Register answers OK to at most one caller for an address, however it is   *)
(* spelled, and the account has that caller's password from then on          *)
(* (handlers.go:25-43, users.go:30-43: "avoid duplicate/difference by case").*)
AckedCredentialsWork ==
  \A c \in Calls : Answered(c, "Register", "OK") =>
    /\ NewUser(c) \in users
    /\ \A u \in users : u.email = Email[rpc[c].email] => u = NewUser(c)

(* Login tells the truth about the credentials: OK is a token of the account *)
(* with them, PermissionDenied says that the account has another password    *)
(* (handlers.go:49-60).                                                      *)
LoginTruthful ==
  \A c \in Calls :
    /\ Answered(c, "Login", "OK") =>
         \E u \in users : /\ u.email = Email[rpc[c].email]
                         /\ u.password = rpc[c].password
                         /\ token[c] # NoToken
                         /\ token[c].user = u.id
    /\ Answered(c, "Login", "PermissionDenied") =>
         /\ HasAccount(rpc[c].email)
         /\ \A u \in users : u.email = Email[rpc[c].email] =>
              u.password # rpc[c].password

(* While the database works, a user who has an account is found by Login     *)
(* under every spelling ("so lookups match registrations", users.go:65).     *)
KnownUsersFound ==
  \A c \in Calls :
    Answered(c, "Login", "NotFound") /\ ~rpc[c].dbError => ~rpc[c].known

(* The claims of an open stream are the id and the stored address of one     *)
(* account, also when they come from the token of an earlier version ("even  *)
(* if older tokens had mixed-case emails", jwt.go:131-133).                  *)
StreamsAuthentic ==
  \A c \in Calls : rpc[c].pc = "stream" =>
    \E u \in users : u.id = rpc[c].user /\ u.email = rpc[c].email

\* What the caller of a call with record r was told of an account.
Verdict(r) ==
  LET Done(method, code) == r.pc = "done" /\ r.method = method /\ r.outcome = code
      Says(kind) == [kind |-> kind, name |-> Email[r.email], password |-> r.password]
  IN  CASE Done("Register", "OK") -> Says("registered")
        [] Done("Login", "OK") -> Says("loggedIn")
        [] Done("Login", "PermissionDenied") -> Says("denied")
        [] r.pc = "stream" \/ (r.pc = "done" /\ r.method = "Stream") ->
             [kind |-> "opened", name |-> r.email]
        [] OTHER -> [kind |-> "nothing"]

\* Calls, tokens and streams, with every race, crash and rotation, are those of
\* Credentials: an account is made once, what a caller was told of it stands, and
\* a stream has its name from a token that a password was shown for.
C == INSTANCE Credentials WITH
  Veterans <- {Email[OldToken[h].email] : h \in Old},
  accounts <- {[name |-> u.email, password |-> u.password] : u \in users},
  told     <- [c \in Calls |-> Verdict(rpc[c])]
CredentialsSpec == C!CredSpec

================================================================================
